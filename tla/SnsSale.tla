------------------------------ MODULE SnsSale ------------------------------
(***************************************************************************)
(* Participation in the swap of an SNS (services/sns-sale.services.ts): a  *)
(* ticket of the swap canister is paid on the ledger and the swap is told. *)
(* The user may leave the page while this goes on and come back, or reload *)
(* it; the ticket that the swap holds is then taken up again.              *)
(*                                                                         *)
(* A payment is one unit; a ticket is its id, 0 means none.                *)
(***************************************************************************)
EXTENDS Naturals, FiniteSets, FiniteSetsExt

CONSTANTS
    Flows,        \* places for participations that run at the same time
    MaxTickets,   \* bound on tickets
    MaxLost,      \* bound on answers that are lost
    MaxFailures   \* bound on calls that fail for good

ASSUME SaleAssumption == MaxTickets \in Nat /\ MaxLost \in Nat /\ MaxFailures \in Nat

VARIABLES
    open,      \* the swap is open
    ticket,    \* the swap's open ticket of the user
    made,      \* tickets made so far
    accepted,  \* units that the swap has accepted
    paid,      \* per ticket, the transfers that the ledger made
    old,       \* tickets made more than 24 hours ago
    funds,     \* units that the user has
    page,      \* the project page: is it open, and did it start a restore
    store,     \* snsTicketsStore: <<>> undefined, <<0>> null, or <<ticket>>
    flows,     \* what each place runs
    stray,     \* history: a ticket was removed on behalf of another one
    lost, failures

vars == <<open, ticket, made, accepted, paid, old, funds, page, store, flows, stray, lost, failures>>
swap == <<open, ticket, made, accepted>>
ledger == <<paid, old, funds>>

NoFlow == [kind |-> "none", phase |-> "none", ticket |-> 0, tooOld |-> FALSE, here |-> FALSE]

Init ==
    /\ open = TRUE /\ ticket = 0 /\ made = 0 /\ accepted = 0
    /\ paid = [t \in 1 .. MaxTickets |-> 0] /\ old = {} /\ funds \in 1 .. 2
    /\ page = [open |-> FALSE, restored |-> FALSE]
    /\ store = <<>>
    /\ flows = [f \in Flows |-> NoFlow]
    /\ stray = FALSE /\ lost = 0 /\ failures = 0

Idle == {f \in Flows : flows[f].kind = "none"}
In(f, phase) == flows[f].phase = phase
Payments == FoldFunction(+, 0, paid)
-----------------------------------------------------------------------------
(* The swap and the ledger (external). *)

SwapCloses ==
    /\ open
    /\ open' = FALSE
    /\ UNCHANGED <<ticket, made, accepted, ledger, page, store, flows, stray, lost, failures>>

\* A day goes by.
TicketAges ==
    /\ ticket # 0 /\ ticket \notin old
    /\ old' = old \cup {ticket}
    /\ UNCHANGED <<swap, paid, funds, page, store, flows, stray, lost, failures>>

\* The ledger knows a transfer by its memo and the time that the caller gives.
Transfer(t) ==
    IF t \in old THEN "too old"
    ELSE IF paid[t] > 0 THEN "duplicate"
    ELSE IF funds = 0 THEN "insufficient" ELSE "ok"

Transferred(t) ==
    IF Transfer(t) = "ok"
    THEN paid' = [paid EXCEPT ![t] = @ + 1] /\ funds' = funds - 1 /\ UNCHANGED old
    ELSE UNCHANGED ledger

\* refresh_buyer_tokens: all that arrived is accepted, and the ticket is done.
Refresh == IF open /\ Payments > accepted THEN "ok" ELSE "internal"

Refreshed ==
    IF Refresh = "ok"
    THEN accepted' = Payments /\ ticket' = 0 /\ UNCHANGED <<open, made>>
    ELSE UNCHANGED swap
-----------------------------------------------------------------------------
(* The calls of api/sns-sale.api.ts and api/icp-ledger.api.ts, when they are answered. *)

\* 0: there is no open ticket, or the sale is closed.
GetOpenTicket == IF open THEN ticket ELSE 0

\* The error about an existing ticket brings that ticket.
NewSaleTicket == IF ticket # 0 THEN ticket ELSE made + 1

\* Both the time and the memo are those of the ticket.
SendICP(t) == Transferred(t)

NotifyParticipation == Refreshed

\* Whatever ticket is open is removed, also if the caller had another one in mind.
NotifyPaymentFailure(t) == ticket' = 0 /\ stray' = (stray \/ ticket \notin {0, t})
-----------------------------------------------------------------------------
(* The project page. *)

\* ProjectDetail is opened, and left: then the store forgets the ticket, but
\* what runs goes on.
OpenPage ==
    /\ ~page.open
    /\ page' = [open |-> TRUE, restored |-> FALSE]
    /\ UNCHANGED <<swap, ledger, store, flows, stray, lost, failures>>

LeavePage ==
    /\ page.open
    /\ page' = [open |-> FALSE, restored |-> FALSE]
    /\ store' = <<>>
    /\ flows' = [f \in Flows |-> [flows[f] EXCEPT !.here = FALSE]]
    /\ UNCHANGED <<swap, ledger, stray, lost, failures>>

\* The browser reloads: nothing of the page survives.
Reload ==
    /\ page' = [open |-> FALSE, restored |-> FALSE]
    /\ store' = <<>>
    /\ flows' = [f \in Flows |-> NoFlow]
    /\ UNCHANGED <<swap, ledger, stray, lost, failures>>

Polling == \E f \in Flows : In(f, "load")

HasTicket == store \notin {<<>>, <<0>>}

\* restoreSnsSaleParticipation, once per visit of the page: not if the store
\* has a ticket, and not if the open ticket is polled already.
Restore(f) ==
    /\ page.open /\ ~page.restored /\ open
    /\ page' = [page EXCEPT !.restored = TRUE]
    /\ IF HasTicket \/ Polling
       THEN UNCHANGED flows
       ELSE flows' = [flows EXCEPT ![f] = [NoFlow EXCEPT !.kind = "restore", !.phase = "load", !.here = TRUE]]
    /\ UNCHANGED <<swap, ledger, store, stray, lost, failures>>

\* participateButtonStatus, for users who may still participate: the button is
\* loading until the store says that there is no ticket.
ParticipateButtonStatus == IF store = <<0>> THEN "enabled" ELSE "loading"

\* The button opens a modal, which shows the progress once the user confirmed.
ParticipateButton == page.open /\ ParticipateButtonStatus = "enabled"
ParticipateSwapModal ==
    ParticipateButton /\ \A f \in Flows : ~(flows[f].kind = "initiate" /\ flows[f].here)

\* initiateSnsSaleParticipation: the checks of amount and balance pass.
Initiate(f) ==
    /\ ParticipateSwapModal /\ open
    /\ flows' = [flows EXCEPT ![f] = [NoFlow EXCEPT !.kind = "initiate", !.phase = "new", !.here = TRUE]]
    /\ UNCHANGED <<swap, ledger, page, store, stray, lost, failures>>
-----------------------------------------------------------------------------
(* The steps of a participation. *)

End(f) == flows' = [flows EXCEPT ![f] = NoFlow]
Goto(f, phase) == flows' = [flows EXCEPT ![f].phase = phase]
Participate(f, t) == flows' = [flows EXCEPT ![f].phase = "transfer", ![f].ticket = t]
SetNoTicket == store' = <<0>>
SetTicket(t) == store' = <<t>>

\* loadOpenTicket: the ticket is stored and paid, or there is none.
LoadOpenTicket(f) ==
    /\ In(f, "load")
    /\ IF GetOpenTicket # 0
       THEN SetTicket(GetOpenTicket) /\ Participate(f, GetOpenTicket)
       ELSE SetNoTicket /\ End(f)
    /\ UNCHANGED <<swap, ledger, page, stray, lost, failures>>

\* loadNewSaleTicket: an open ticket is used instead of a new one.
LoadNewSaleTicket(f) ==
    /\ In(f, "new")
    /\ LET t == NewSaleTicket IN
       IF open /\ t <= MaxTickets
       THEN /\ ticket' = t /\ made' = Max({made, t})
            /\ SetTicket(t) /\ Participate(f, t)
       ELSE /\ SetNoTicket /\ End(f)
            /\ UNCHANGED <<ticket, made>>
    /\ UNCHANGED <<open, accepted, ledger, page, stray, lost, failures>>

\* The ticket is made, but its answer is lost and the call is repeated.
NewTicketLost(f) ==
    /\ In(f, "new") /\ lost < MaxLost
    /\ lost' = lost + 1
    /\ open /\ ticket = 0 /\ made < MaxTickets
    /\ ticket' = made + 1 /\ made' = made + 1
    /\ UNCHANGED <<open, accepted, ledger, page, store, flows, stray, failures>>

\* Mutant: the transfer has the present time instead of that of the ticket.
PollTransferNow(f) ==
    /\ In(f, "transfer") /\ funds > 0
    /\ paid' = [paid EXCEPT ![flows[f].ticket] = @ + 1] /\ funds' = funds - 1
    /\ Goto(f, "notify")
    /\ UNCHANGED <<swap, old, page, store, stray, lost, failures>>

\* pollTransfer with the time and the id of the ticket, and its errors.
PollTransfer(f) ==
    LET t == flows[f].ticket
        outcome == Transfer(t)
    IN  /\ In(f, "transfer")
        /\ SendICP(t)
        /\ flows' = [flows EXCEPT ![f].phase = IF outcome = "insufficient" THEN "remove" ELSE "notify",
                                  ![f].tooOld = (outcome = "too old")]
        /\ UNCHANGED <<swap, page, store, stray, lost, failures>>

TransferLost(f) ==
    /\ In(f, "transfer") /\ lost < MaxLost
    /\ lost' = lost + 1
    /\ SendICP(flows[f].ticket)
    /\ UNCHANGED <<swap, page, store, flows, stray, failures>>

\* Mutant: a ticket that is too old is left open.
NotifyKeepsTicket(f) ==
    /\ In(f, "notify")
    /\ NotifyParticipation
    /\ IF Refresh = "ok" THEN Goto(f, "reload") ELSE End(f)
    /\ UNCHANGED <<ledger, page, store, stray, lost, failures>>

\* notifyParticipationAndRemoveTicket
Notify(f) ==
    /\ In(f, "notify")
    /\ NotifyParticipation
    /\ IF Refresh = "ok" THEN Goto(f, "reload") ELSE IF flows[f].tooOld THEN Goto(f, "remove") ELSE End(f)
    /\ UNCHANGED <<ledger, page, store, stray, lost, failures>>

NotifyLost(f) ==
    /\ In(f, "notify") /\ lost < MaxLost
    /\ lost' = lost + 1
    /\ NotifyParticipation
    /\ UNCHANGED <<ledger, page, store, flows, stray, failures>>

\* removeOpenTicket, for lack of funds or for a ticket too old to be paid; an
\* error is only logged, and the button is enabled in the first case.
RemoveOpenTicket(f) ==
    /\ In(f, "remove")
    /\ \/ NotifyPaymentFailure(flows[f].ticket) /\ UNCHANGED failures
       \/ /\ failures < MaxFailures /\ failures' = failures + 1
          /\ UNCHANGED <<ticket, stray>>
    /\ IF flows[f].tooOld THEN UNCHANGED store ELSE SetNoTicket
    /\ End(f)
    /\ UNCHANGED <<open, made, accepted, ledger, page, lost>>

\* The balance and the project are loaded again, and the store is cleared.
ReloadBalance(f) ==
    /\ In(f, "reload")
    /\ SetNoTicket
    /\ End(f)
    /\ UNCHANGED <<swap, ledger, page, stray, lost, failures>>

\* A call failed for good, or polling reached its limit: the button is enabled
\* again, but not after the payment.
GivesUp(f) ==
    /\ flows[f].phase \in {"load", "new", "transfer", "notify"}
    /\ failures < MaxFailures
    /\ failures' = failures + 1
    /\ IF In(f, "notify") THEN UNCHANGED store ELSE SetNoTicket
    /\ End(f)
    /\ UNCHANGED <<swap, ledger, page, stray, lost>>

Next ==
    \/ SwapCloses \/ TicketAges \/ OpenPage \/ LeavePage \/ Reload
    \/ \E f \in Idle : Restore(f) \/ Initiate(f)
    \/ \E f \in Flows :
        \/ LoadOpenTicket(f) \/ LoadNewSaleTicket(f) \/ NewTicketLost(f) \/ PollTransfer(f) \/ TransferLost(f)
        \/ Notify(f) \/ NotifyLost(f) \/ RemoveOpenTicket(f) \/ ReloadBalance(f) \/ GivesUp(f)

Spec == Init /\ [][Next]_vars
-----------------------------------------------------------------------------
TypeOK ==
    /\ open \in BOOLEAN /\ made \in 0 .. MaxTickets /\ ticket \in 0 .. made
    /\ accepted \in 0 .. Payments /\ funds \in 0 .. 2 /\ old \subseteq 1 .. made
    /\ page \in [open : BOOLEAN, restored : BOOLEAN]
    /\ store \in {<<>>} \cup {<<t>> : t \in 0 .. made}
    /\ \A f \in Flows :
        /\ flows[f].phase \in {"none", "load", "new", "transfer", "notify", "remove", "reload"}
        /\ flows[f].phase \in {"transfer", "notify", "remove", "reload"} => flows[f].ticket # 0
    /\ stray \in BOOLEAN /\ lost \in 0 .. MaxLost /\ failures \in 0 .. MaxFailures

\* A ticket is paid at most once, however often it is taken up again after lost
\* answers, errors, reloads and visits of the page, also at the same time.
PaidOnce == \A t \in 1 .. MaxTickets : paid[t] <= 1

\* A payment that the swap has not accepted belongs to the open ticket, with
\* which the next visit goes on, unless the removal of a ticket came so late
\* that it hit the next one.
PaymentIsKnown ==
    open /\ ~stray /\ Payments > accepted => ticket # 0 /\ paid[ticket] = 1

\* However the participation is interrupted, the user pays a ticket once, and the
\* swap can still learn of the payment (pollTransfer, restoreSnsSaleParticipation).
PaymentsAreSafe == PaidOnce /\ PaymentIsKnown

\* A participation that took up a ticket and met no error leaves no open ticket
\* behind: it was accepted, or it could not be paid and was removed.
SettlesStep ==
    \A f \in Flows :
        (/\ flows[f].ticket # 0 /\ flows'[f] = NoFlow
         /\ failures' = failures /\ ~Reload /\ open')
        => ticket' # flows[f].ticket

ParticipationSettles == [][SettlesStep]_vars
=============================================================================
