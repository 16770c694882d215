--------------------------- MODULE SwapCommitments ---------------------------
(***************************************************************************)
(* What the page of an SNS project knows of its swap, and what it lets the *)
(* user pay (services/sns.services.ts, stores/sns.store.ts,                *)
(* pages/ProjectDetail.svelte, utils/projects.utils.ts).  The summary that *)
(* is shown comes from the aggregator, overridden by a derived state and a *)
(* lifecycle that were read from the swap since; the user's commitment is  *)
(* a store of its own.  Each is loaded by calls that are answered in any   *)
(* order.  SnsSale models how a participation is paid; here the swap takes *)
(* it or not, and the page reloads.                                        *)
(*                                                                         *)
(* The swap is external.  A call that reads may return any value that was  *)
(* current since it was made, a query also what the swap was at first, from*)
(* a node that lags behind.                                                *)
(***************************************************************************)
EXTENDS QueryAndUpdate, Naturals, Sequences

CONSTANTS
    MinParticipant, MaxParticipant, MaxIcp,     \* parameters of the swap
    Forces,         \* FORCE_CALL_STRATEGY, of {"query", "query_and_update"}
    MaxFailed,      \* bound on calls that fail
    MaxVisits       \* bound on pages opened and calls that fail, together

VARIABLES
    swap,           \* the swap: lifecycle, total commitment, the user's commitment
    force,          \* the strategy of this session
    wrappers,       \* sns-wrapper.api: the cached promise for queries and for updates
    asks,           \* loads that are not answered
    stores,         \* aggregator, derived, lifecycle, commitment
    visit,          \* ProjectDetail: open, watching, and its copy of the commitment
    payment,        \* the participation: phase, amount, loads that reload() awaits, and
                    \* whether the page was left since
    late,           \* history: an answer to a call from before a participation came after it
    failed, visits

vars == <<swap, force, wrappers, asks, stores, visit, payment, late, failed, visits>>

\* bound: one call of each kind at a time; the watcher and reload() load the derived state,
\* a page, the launchpad and reload() the commitment.
Calls == {"watched", "derived", "lifecycle", "commitment", "reloaded"}

\* What was asked for, the values it may find, whether it is from before a participation, and
\* whether the page that asked is still there.
NoAsk == [request |-> [Sent("query") EXCEPT !.waiting = {}], seen |-> {}, old |-> FALSE, here |-> FALSE]
NoPayment == [phase |-> "none", amount |-> 0, waits |-> {}, left |-> FALSE]
NoVisit == [open |-> FALSE, watching |-> FALSE, commitment |-> <<>>]

\* What a lagging node has.
Behind == [lifecycle |-> "adopted", total |-> 0, mine |-> 0]

Init ==
    /\ swap \in [lifecycle : {"adopted", "open"}, total : {0}, mine : {0}]
    /\ force \in Forces
    /\ wrappers = [certified \in BOOLEAN |-> "none"]
    /\ asks = [c \in Calls |-> NoAsk]
    /\ \E cached \in {swap, Behind} :
        stores = [aggregator |-> cached, derived |-> <<>>, lifecycle |-> <<>>, commitment |-> <<>>]
    /\ visit = NoVisit
    /\ payment = NoPayment
    /\ late = FALSE /\ failed = 0 /\ visits = 0
-----------------------------------------------------------------------------
(* The stores. *)

OverrideDerivedState(s) == IF stores.derived = <<>> THEN s ELSE [s EXCEPT !.total = stores.derived[1]]
OverrideLifecycle(s) == IF stores.lifecycle = <<>> THEN s ELSE [s EXCEPT !.lifecycle = stores.lifecycle[1]]

\* snsSummariesStore
Summary == OverrideLifecycle(OverrideDerivedState([stores.aggregator EXCEPT !.mine = 0]))

\* The reactive blocks of ProjectDetail after a store changed: the page takes the commitment
\* of the store again, and watches an open swap until it is left.
React ==
    visit' = IF ~visit.open THEN visit
             ELSE [visit EXCEPT !.commitment = stores'.commitment,
                                !.watching = @ \/ Summary'.lifecycle = "open"]
-----------------------------------------------------------------------------
(* The form. *)

\* getCommitmentE8s(...) ?? 0n
Mine == IF visit.commitment = <<>> THEN 0 ELSE visit.commitment[1]

IsProjectOpen == Summary.lifecycle = "open"
CommitmentTooSmall(amount) == MinParticipant > amount + Mine
CommitmentTooLarge(amount) == MaxParticipant < amount
CommitmentExceedsAmountLeft(amount) == MaxIcp < Summary.total + amount

ValidParticipation(amount) ==
    /\ IsProjectOpen
    /\ ~CommitmentTooSmall(amount)
    /\ ~CommitmentTooLarge(Mine + amount)
    /\ ~CommitmentExceedsAmountLeft(amount)

\* currentUserMaxCommitment, as the largest total that the two limits allow
CurrentUserMaxCommitment ==
    LET remainingProject == MaxIcp - Summary.total
        remainingUser == MaxParticipant - Mine
    IN  IF remainingProject < remainingUser THEN remainingProject ELSE remainingUser

\* A participation has a ticket until it is done.  Leaving the page removes it, and a page that
\* is opened then asks the swap, which has no ticket for what it has taken.
NoTicket == payment = NoPayment \/ (payment.left /\ payment.phase # "paying")

\* participateButtonStatus = "enabled"
ButtonEnabled ==
    /\ visit.open /\ visit.commitment # <<>>
    /\ IsProjectOpen
    /\ NoTicket
    /\ ~CommitmentTooLarge(Mine + 1)
-----------------------------------------------------------------------------
(* Calls. *)

Value(c, s) ==
    CASE c \in {"watched", "derived"} -> s.total [] c = "lifecycle" -> s.lifecycle [] OTHER -> s.mine

\* queryAndUpdate: it builds the wrappers that it needs, once.
Ask(c, strategy, here) ==
    [request |-> Sent(strategy), seen |-> {Value(c, swap)}, old |-> FALSE, here |-> here]
Needs(strategies) ==
    wrappers' = [c \in BOOLEAN |->
        IF wrappers[c] = "none" /\ \E s \in strategies : c \in CallsOf(s) THEN "loading" ELSE wrappers[c]]

\* One more call fails.
Failing == failed < MaxFailed /\ visits + failed < MaxVisits /\ failed' = failed + 1

\* initWrappers of one kind ended.  The promise is cached, also when it is rejected.
WrappersLoaded(certified, outcome) ==
    /\ wrappers[certified] = "loading"
    /\ wrappers' = [wrappers EXCEPT ![certified] = outcome]
    /\ \/ outcome = "ready" /\ UNCHANGED failed
       \/ outcome = "failed" /\ Failing
    /\ UNCHANGED <<swap, force, asks, stores, visit, payment, late, visits>>

\* loadSnsSwapCommitment without forceFetch
SkipsCommitment == stores.commitment # <<>>

\* loadSnsSwapCommitments of the launchpad
LoadSnsSwapCommitments ==
    /\ ~visit.open /\ ~SkipsCommitment /\ asks.commitment = NoAsk
    /\ asks' = [asks EXCEPT !.commitment = Ask("commitment", force, FALSE)] /\ Needs({force})
    /\ UNCHANGED <<swap, force, stores, visit, payment, late, failed, visits>>

OpenPage ==
    /\ ~visit.open /\ visits + failed < MaxVisits /\ visits' = visits + 1
    /\ visit' = [open |-> TRUE, watching |-> IsProjectOpen, commitment |-> stores.commitment]
    /\ IF SkipsCommitment THEN UNCHANGED <<asks, wrappers>>
       ELSE /\ asks.commitment = NoAsk /\ Needs({force})
            /\ asks' = [asks EXCEPT !.commitment = Ask("commitment", force, TRUE)]
    /\ UNCHANGED <<swap, force, stores, payment, late, failed>>

\* onDestroy.  What was asked for and a participation go on.
LeavePage ==
    /\ visit.open /\ visit' = NoVisit
    /\ asks' = [c \in Calls |-> [asks[c] EXCEPT !.here = FALSE]]
    /\ payment' = [payment EXCEPT !.left = payment # NoPayment]
    /\ UNCHANGED <<swap, force, wrappers, stores, late, failed, visits>>

\* watchSnsTotalCommitment
WatchTick ==
    /\ visit.watching /\ asks.watched = NoAsk
    /\ asks' = [asks EXCEPT !.watched = Ask("watched", "query", TRUE)] /\ Needs({"query"})
    /\ UNCHANGED <<swap, force, stores, visit, payment, late, failed, visits>>

\* The stores keep the last answer that came.
SetDerivedState(v) == stores' = [stores EXCEPT !.derived = <<v>>]
SetLifecycle(v) == stores' = [stores EXCEPT !.lifecycle = <<v>>]
SetSwapCommitment(v) == stores' = [stores EXCEPT !.commitment = <<v>>]

Store(c, v) ==
    CASE c \in {"watched", "derived"} -> SetDerivedState(v)
      [] c = "lifecycle"             -> SetLifecycle(v)
      [] OTHER                       -> SetSwapCommitment(v)

After(c, certified) ==
    LET a == [asks[c] EXCEPT !.request = Answered(@, certified)]
    IN  [asks EXCEPT ![c] = IF a.request.waiting = {} THEN NoAsk ELSE a]

\* The first answer or failure of a call settles the promise that reload() awaits.
Awaited(c) == payment' = [payment EXCEPT !.waits = @ \ {c}]

Answer(c, certified) ==
    /\ certified \in asks[c].request.waiting
    /\ wrappers[certified] = "ready"
    /\ asks' = After(c, certified) /\ Awaited(c)
    /\ IF Heard(asks[c].request)
       THEN /\ \E v \in asks[c].seen \cup (IF certified THEN {} ELSE {Value(c, Behind)}) :
                Store(c, v)
            /\ React
            /\ late' = (late \/ (c = "commitment" /\ asks[c].old))
       ELSE UNCHANGED <<stores, visit, late>>
    /\ UNCHANGED <<swap, force, wrappers, failed, visits>>

\* isLastCall: when the last call fails the page forgets its commitment.
Fails(c, certified) ==
    /\ certified \in asks[c].request.waiting
    /\ \/ wrappers[certified] = "failed" /\ UNCHANGED failed
       \/ wrappers[certified] = "ready" /\ Failing
    /\ asks' = After(c, certified) /\ Awaited(c)
    /\ visit' = IF /\ c \in {"commitment", "reloaded"} /\ asks[c].here /\ Heard(asks[c].request)
                   /\ certified \/ asks[c].request.strategy = "query"
                THEN [visit EXCEPT !.commitment = <<>>] ELSE visit
    /\ UNCHANGED <<swap, force, wrappers, stores, late, visits>>
-----------------------------------------------------------------------------
(* The swap and the participation. *)

SwapIsNow(s) ==
    /\ swap' = s
    /\ asks' = [c \in Calls |-> IF asks[c] = NoAsk THEN NoAsk
                                ELSE [asks[c] EXCEPT !.seen = @ \cup {Value(c, s)},
                                                     !.old = @ \/ s.mine # swap.mine]]

SwapChanges ==
    /\ \/ swap.lifecycle = "adopted" /\ SwapIsNow([swap EXCEPT !.lifecycle = "open"])
       \/ swap.lifecycle = "open" /\ SwapIsNow([swap EXCEPT !.lifecycle = "committed"])
       \/ /\ swap.lifecycle = "open" /\ swap.total = swap.mine /\ swap.total < MaxIcp
          /\ SwapIsNow([swap EXCEPT !.total = @ + 1])    \* bound: others commit 1
    /\ UNCHANGED <<force, wrappers, stores, visit, payment, late, failed, visits>>

\* bound: one participation at a time; SnsSale has several.
Participate ==
    /\ ButtonEnabled /\ payment = NoPayment
    /\ \E amount \in 1..MaxIcp :
        /\ ValidParticipation(amount)
        /\ payment' = [NoPayment EXCEPT !.phase = "paying", !.amount = amount]
    /\ UNCHANGED <<swap, force, wrappers, asks, stores, visit, late, failed, visits>>

Takes(amount) ==
    /\ swap.lifecycle = "open" /\ swap.total + amount <= MaxIcp
    /\ swap.mine + amount \in MinParticipant..MaxParticipant

SwapAnswers ==
    /\ payment.phase = "paying"
    /\ IF Takes(payment.amount)
       THEN /\ SwapIsNow([swap EXCEPT !.total = @ + payment.amount, !.mine = @ + payment.amount])
            /\ payment' = [payment EXCEPT !.phase = "paid"]
       ELSE payment' = NoPayment /\ UNCHANGED <<swap, asks>>
    /\ UNCHANGED <<force, wrappers, stores, visit, late, failed, visits>>

\* reload, the postprocess of the participation
Reload ==
    /\ payment.phase = "paid" /\ \A c \in {"derived", "lifecycle", "reloaded"} : asks[c] = NoAsk
    /\ asks' = [asks EXCEPT !.derived = Ask("derived", "update", ~payment.left),
                            !.lifecycle = Ask("lifecycle", "query_and_update", ~payment.left),
                            !.reloaded = Ask("commitment", "update", ~payment.left)]
    /\ payment' = [payment EXCEPT !.phase = "reloading", !.waits = {"derived", "lifecycle", "reloaded"}]
    /\ Needs({"update", "query_and_update"})
    /\ UNCHANGED <<swap, force, stores, visit, late, failed, visits>>

\* setNoTicket, after reload
Done ==
    /\ payment.phase = "reloading" /\ payment.waits = {}
    /\ payment' = NoPayment
    /\ UNCHANGED <<swap, force, wrappers, asks, stores, visit, late, failed, visits>>

Next ==
    \/ SwapChanges \/ LoadSnsSwapCommitments \/ OpenPage \/ LeavePage \/ WatchTick
    \/ Participate \/ SwapAnswers \/ Reload \/ Done
    \/ \E certified \in BOOLEAN :
        \/ \E outcome \in {"ready", "failed"} : WrappersLoaded(certified, outcome)
        \/ \E c \in Calls : Answer(c, certified) \/ Fails(c, certified)

Spec == Init /\ [][Next]_vars
-----------------------------------------------------------------------------
\* When the button for a further participation is there again, the page knows of those
\* before (reload awaits updates before setNoTicket), unless a call failed or an answer from
\* before the participation came after it, or the page was left while the participation was
\* under way and that one's reload() has not ended: the form then lets nobody pay above the
\* maximum.
ParticipationIsShown ==
    ButtonEnabled /\ swap.mine > 0 /\ failed = 0 /\ ~late /\ ~payment.left
        => visit.commitment = <<swap.mine>>

\* The button for the maximum and the form agree (currentUserMaxCommitment and
\* validParticipation), also on data of different ages: if any amount is accepted the maximum
\* is, and no amount above it.
MaximumIsAccepted ==
    ButtonEnabled =>
        LET valid == {amount \in 1..(MaxIcp + 1) : ValidParticipation(amount)}
        IN  valid # {} => CurrentUserMaxCommitment \in valid /\ \A x \in valid : x <= CurrentUserMaxCommitment
=============================================================================
