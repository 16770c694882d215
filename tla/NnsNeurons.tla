----------------------------- MODULE NnsNeurons -----------------------------
(***************************************************************************)
(* Managing NNS neurons: the operations of services/neurons.services.ts as *)
(* the neuron pages offer them, the cache of api-services/governance.api-  *)
(* service.ts and the store of neurons, which is not queued.               *)
(*                                                                         *)
(* Who controls a neuron is the user, a Ledger device of the user or       *)
(* somebody else.  Amounts are in units of the smallest stake, the delay   *)
(* in steps.  A busy screen keeps the user from starting a second          *)
(* operation; the answers of list calls arrive at any time.                *)
(***************************************************************************)
EXTENDS Naturals, FiniteSets

CONSTANTS
    Neurons, Followees,
    MaxDelay,  \* longest dissolve delay
    MaxOps,    \* bound on operations
    MaxLists   \* bound on lists that pages load

ASSUME MaxDelayAssumption == MaxDelay \in Nat \ {0}

VARIABLES
    gov,      \* the neurons on the governance canister
    prev,     \* the same before the last change, which a lagging node returns
    version,  \* number of changes
    store,    \* neuronsStore, per neuron what is shown
    cache,    \* neuronsCache: a set of at most one list
    lists,    \* listNeurons: requests that are not fully answered
    forced,   \* FORCE_CALL_STRATEGY, drawn when the app is loaded
    ops,      \* calls of the running operation
    ended,    \* history: the version when the last operation ended
    trouble,  \* history: a call failed, or an answer was older than what
              \* governance holds; one such thing happens in a behaviour
    count, listed

vars == <<gov, prev, version, store, cache, lists, forced, ops, ended, trouble, count, listed>>

\* Topic.NeuronManagement, which only controllers may change, and the others.
Topics == {"governance", "management"}

NoFollowees == [t \in Topics |-> {}]

Neuron(controller, state, stake) ==
    [controller |-> controller, hotkey |-> controller # "user", state |-> state,
     delay |-> IF state = "locked" THEN 1 ELSE 0, fund |-> FALSE, auto |-> FALSE,
     public |-> FALSE, followees |-> NoFollowees, stake |-> stake, maturity |-> 1]

\* A neuron without stake and maturity is not listed.
Empty == [Neuron("user", "dissolved", 0) EXCEPT !.maturity = 0]

HasValidStake(v) == v.stake > 0 \/ v.maturity > 0

\* NeuronInfo of others lacks the full neuron.
UserAuthorizedNeuron(v) == v.controller = "user" \/ v.hotkey

Managed(v) == [v EXCEPT !.followees["management"] = Followees]

Strategies == {"query", "update", "query_and_update"}

\* What the store has of a neuron, and whence: a list or neuron that governance
\* answered, a cached list that was overtaken by an operation, or a list that failed.
Entry(v, certified, asked, from) ==
    [neuron |-> v, certified |-> certified, asked |-> asked, from |-> from]

\* A cached list, and whether an operation ended between the call and the answer
\* that filled the cache (history).
Cached(data, overtaken) == [data |-> data, overtaken |-> overtaken]

\* One neuron in each state, and for merging a second one of the same user.
\* In nine of ten sessions lists are queries only, and nothing is certified or cached.
Init ==
    /\ \E n \in Neurons, c \in {"user", "wallet", "other"}, s \in {"locked", "dissolving", "dissolved"} :
        LET v == Neuron(c, s, 2) IN
        \/ gov = [[m \in Neurons |-> Empty] EXCEPT ![n] = v]
        \/ /\ s = "locked"
           /\ \E w \in {v, Managed(v)} : gov = [[m \in Neurons |-> Neuron(c, s, 1)] EXCEPT ![n] = w]
    /\ \A n \in Neurons : gov[n].controller = "other" => gov[n].state = "locked"
    /\ prev = gov /\ version = 0
    /\ forced \in {"query", "query_and_update"}
    /\ store = [n \in Neurons |-> Entry(gov[n], forced # "query", 0, "answer")]
    /\ cache = (IF forced = "query" THEN {} ELSE {Cached(gov, FALSE)})
    /\ lists = {} /\ ops = {}
    /\ ended = 0 /\ trouble = "none" /\ count = 0 /\ listed = 0

Shown(n) == store[n].neuron
-----------------------------------------------------------------------------
(* Who may do what, from the neuron that is shown (utils/neuron.utils.ts). *)

IsNeuronControllableByUser(v) == v.controller = "user"
IsNeuronControlledByHardwareWallet(v) == v.controller = "wallet"
IsNeuronControllable(v) ==
    IsNeuronControllableByUser(v) \/ IsNeuronControlledByHardwareWallet(v)
IsHotKeyControllable(v) == v.hotkey /\ v.controller # "user"
CanUserManageNeuronFundParticipation(v) ==
    \/ IsNeuronControllableByUser(v)
    \/ IsHotKeyControllable(v) /\ ~IsNeuronControlledByHardwareWallet(v)
NeuronCanBeSplit(v) == v.stake >= 2
HasEnoughMaturityToStake(v) == v.maturity > 0
IsEnoughMaturityToSpawn(v) == v.maturity > 0
IsMergeableNeuron(v) == ~v.fund /\ v.state = "locked" /\ IsNeuronControllable(v)
SameController(v, w) == v.controller = w.controller
SameManageNeuronFollowees(v, w) == v.followees["management"] = w.followees["management"]
CanBeMerged(n, m) ==
    /\ n # m
    /\ SameController(Shown(n), Shown(m)) /\ SameManageNeuronFollowees(Shown(n), Shown(m))

\* The topic of neuron management is hidden unless it has followees.
TopicsToFollow(v) == {t \in Topics : t = "management" => v.followees[t] # {}}

\* getIdentityOfControllerByNeuronId; "nobody" throws NotAuthorizedNeuronError.
GetIdentityOfController(v) == IF IsNeuronControllable(v) THEN v.controller ELSE "nobody"

\* Mutant: a hotkey signs for every topic.
FolloweesIdentityHotkey(v, topic) ==
    IF IsHotKeyControllable(v) THEN "user" ELSE GetIdentityOfController(v)

\* setFolloweesHelper: the hotkey if the user has it, but not for management.
FolloweesIdentity(v, topic) ==
    IF IsHotKeyControllable(v) /\ topic # "management" THEN "user" ELSE GetIdentityOfController(v)
-----------------------------------------------------------------------------
(* The commands that api/governance.api.ts sends to governance. *)

Command(kind, arg) == [kind |-> kind, arg |-> arg]
IncreaseDissolveDelay(by) == Command("delay", by)
JoinCommunityFund == Command("join", 0)
LeaveCommunityFund == Command("leave", 0)
AutoStakeMaturityApi(auto) == Command("auto", auto)
StartDissolvingApi == Command("start", 0)
StopDissolvingApi == Command("stop", 0)
DisburseApi == Command("disburse", 0)
SplitNeuronApi(new) == Command("split", new)
SpawnNeuronApi(new) == Command("spawn", new)
MergeNeuronsApi(source) == Command("merge", source)
StakeMaturityApi == Command("maturity", 0)
AddHotkeyApi == Command("hotkey", TRUE)
RemoveHotkeyApi == Command("hotkey", FALSE)
ChangeNeuronVisibilityApi(public) == Command("public", public)
SetFolloweesApi(followees) == Command("followees", followees)
-----------------------------------------------------------------------------
(* The services: a command for a neuron as it is shown, the identity that  *)
(* signs it, and what is reloaded afterwards.                              *)

Call(n, signer, command, after) ==
    [neuron |-> n, signer |-> signer, kind |-> command.kind, arg |-> command.arg, after |-> after,
     phase |-> "sent", ok |-> FALSE, base |-> Shown(n)]

\* getIdentityAndNeuronHelper
Controlled(n, command, after) == Call(n, GetIdentityOfController(Shown(n)), command, after)

UpdateDelay(n, by) == Controlled(n, IncreaseDissolveDelay(by), "load")
ToggleCommunityFund(n) ==
    Call(n, "user", IF Shown(n).fund THEN LeaveCommunityFund ELSE JoinCommunityFund, "load")
ToggleAutoStakeMaturity(n) == Controlled(n, AutoStakeMaturityApi(~Shown(n).auto), "load")
StartDissolving(n) == Controlled(n, StartDissolvingApi, "load")
StopDissolving(n) == Controlled(n, StopDissolvingApi, "load")
Disburse(n) == Controlled(n, DisburseApi, "list")
SplitNeuron(n, new) == Controlled(n, SplitNeuronApi(new), "list")
SpawnNeuron(n, new) == Controlled(n, SpawnNeuronApi(new), "list")
MergeNeurons(source, target) == Controlled(target, MergeNeuronsApi(source), "list")
StakeMaturity(n) == Controlled(n, StakeMaturityApi, "load")
RemoveHotkey(n) == Controlled(n, RemoveHotkeyApi, "load")
AddHotkey(n) == Controlled(n, AddHotkeyApi, "load")
ChangeNeuronVisibility(n, makePublic) == Controlled(n, ChangeNeuronVisibilityApi(makePublic), "load")

\* The followees that are sent are computed from those in the store.
SetFollowees(n, topic, followees) ==
    Call(n, FolloweesIdentity(Shown(n), topic),
         SetFolloweesApi([Shown(n).followees EXCEPT ![topic] = followees]), "load")
AddFollowee(n, topic, f) == SetFollowees(n, topic, Shown(n).followees[topic] \cup {f})
RemoveFollowee(n, topic, f) == SetFollowees(n, topic, Shown(n).followees[topic] \ {f})
-----------------------------------------------------------------------------
(* The modals: what they call when the user confirms.                      *)

\* SetDissolveDelay: longer than now and not too long; ConfirmDissolveDelay
\* sends the difference.
SetDissolveDelay(v) == {d \in 1 .. MaxDelay : d > v.delay}
ConfirmDissolveDelay(n, target) == UpdateDelay(n, target - Shown(n).delay)
IncreaseDissolveDelayModal(n) == {ConfirmDissolveDelay(n, d) : d \in SetDissolveDelay(Shown(n))}

DissolveActionButtonModal(n) ==
    {IF Shown(n).state = "dissolving" THEN StopDissolving(n) ELSE StartDissolving(n)}

If(condition, calls) == {c \in calls : condition}

\* A new neuron gets an id that no neuron has.
Unused == {m \in Neurons : gov[m] = Empty}

\* A device spawns from all of the maturity, the user from a part of it.
ConfirmSpawnHW(n, calls) == If(HasEnoughMaturityToStake(Shown(n)), calls)
SpawnNeuronModal(n) ==
    LET calls == {SpawnNeuron(n, m) : m \in Unused} IN
    IF IsNeuronControlledByHardwareWallet(Shown(n)) THEN ConfirmSpawnHW(n, calls)
    ELSE If(IsEnoughMaturityToSpawn(Shown(n)), calls)
SplitNnsNeuronModal(n) == {SplitNeuron(n, m) : m \in Unused}
DisburseNnsNeuronModal(n) == {Disburse(n)}
NnsStakeMaturityModal(n) == {StakeMaturity(n)}
NnsAutoStakeMaturityModal(n) == {ToggleAutoStakeMaturity(n)}
JoinCommunityFundModal(n) == {ToggleCommunityFund(n)}
AddHotkeyModal(n) == {AddHotkey(n)}
ConfirmRemoveCurrentUserHotkey(n) == {RemoveHotkey(n)}

KnownNeuronFollowItem(n, topic, f) ==
    IF f \in Shown(n).followees[topic] THEN RemoveFollowee(n, topic, f) ELSE AddFollowee(n, topic, f)

\* NewFolloweeModal: an address for those who may, and every known neuron.
NewFolloweeModal(n, topic) ==
    If(\/ IsNeuronControllable(Shown(n))
       \/ topic # "management" /\ IsHotKeyControllable(Shown(n)),
       {AddFollowee(n, topic, f) : f \in Followees \ Shown(n).followees[topic]})
    \cup {KnownNeuronFollowItem(n, topic, f) : f \in Followees}

FollowNnsTopicSection(n, topic) ==
    {RemoveFollowee(n, topic, f) : f \in Shown(n).followees[topic]} \cup NewFolloweeModal(n, topic)

EditFollowNeurons(n) == UNION {FollowNnsTopicSection(n, topic) : topic \in TopicsToFollow(Shown(n))}
-----------------------------------------------------------------------------
(* What the components of the detail page offer for the neuron they show.  *)

NnsNeuronDissolveDelayItemAction(n) ==
    If(IsNeuronControllable(Shown(n)), IncreaseDissolveDelayModal(n))

NnsNeuronStateItemAction(n) ==
    If(IsNeuronControllable(Shown(n)),
       IF Shown(n).state = "dissolved" THEN DisburseNnsNeuronModal(n) ELSE DissolveActionButtonModal(n))

NnsNeuronVotingPowerSection(n) == NnsNeuronStateItemAction(n) \cup NnsNeuronDissolveDelayItemAction(n)

SpawnNeuronButton(n) == If(IsEnoughMaturityToSpawn(Shown(n)), SpawnNeuronModal(n))
NnsStakeMaturityButton(n) == If(HasEnoughMaturityToStake(Shown(n)), NnsStakeMaturityModal(n))
NnsAvailableMaturityItemAction(n) ==
    If(IsNeuronControllable(Shown(n)), SpawnNeuronButton(n) \cup NnsStakeMaturityButton(n))

SplitNnsNeuronButton(n) == If(NeuronCanBeSplit(Shown(n)), SplitNnsNeuronModal(n))
NnsAutoStakeMaturity(n) == If(IsNeuronControllable(Shown(n)), NnsAutoStakeMaturityModal(n))
NnsNeuronAdvancedSection(n) ==
    NnsAutoStakeMaturity(n)
        \cup If(CanUserManageNeuronFundParticipation(Shown(n)), JoinCommunityFundModal(n))
        \cup If(IsNeuronControllable(Shown(n)), SplitNnsNeuronButton(n))

\* The hotkey of the user stands for all.
NnsNeuronHotkeysCard(n) ==
    If(IsNeuronControllable(Shown(n)), IF Shown(n).hotkey THEN ConfirmRemoveCurrentUserHotkey(n) ELSE AddHotkeyModal(n))

NeuronFollowingCard(n) ==
    If(IsNeuronControllable(Shown(n)) \/ IsHotKeyControllable(Shown(n)), EditFollowNeurons(n))

\* mapMergeableNeurons: those that can be selected with a selected one.
MapMergeableNeurons(n) ==
    {m \in Neurons : IsMergeableNeuron(Shown(n)) /\ IsMergeableNeuron(Shown(m)) /\ CanBeMerged(m, n)}

\* SelectNeuronsToMerge and ConfirmNeuronsMerge: the first of the two is the
\* source; the service looks at the pair once more.
SelectNeuronsToMerge == {pair \in Neurons \X Neurons : pair[1] \in MapMergeableNeurons(pair[2])}
CheckCanBeMerged(source, target) == CanBeMerged(source, target)
ConfirmNeuronsMerge(pair) == If(CheckCanBeMerged(pair[1], pair[2]), {MergeNeurons(pair[1], pair[2])})
MergeNeuronsModal == UNION {ConfirmNeuronsMerge(pair) : pair \in SelectNeuronsToMerge}

\* The footer opens the modal if there are two neurons.
NnsNeuronsFooter ==
    If(Cardinality({n \in Neurons : HasValidStake(Shown(n))}) >= 2, MergeNeuronsModal)

\* ChangeBulkNeuronVisibilityForm: any selection of those the user controls.
ControllableNeurons(makePublic) ==
    {n \in Neurons : HasValidStake(Shown(n)) /\ IsNeuronControllableByUser(Shown(n)) /\ Shown(n).public # makePublic}

Operations(n) ==
    NnsNeuronVotingPowerSection(n) \cup NnsAvailableMaturityItemAction(n)
        \cup NnsNeuronAdvancedSection(n) \cup NnsNeuronHotkeysCard(n) \cup NeuronFollowingCard(n)

Offered ==
    (UNION {Operations(n) : n \in {m \in Neurons : HasValidStake(Shown(m))}}) \cup NnsNeuronsFooter

\* A busy screen keeps the user from starting another operation.
Idle == ops = {} /\ count < MaxOps

Start(calls) ==
    /\ count' = count + 1
    /\ ops' = calls
    /\ UNCHANGED <<forced, gov, prev, version, store, cache, lists, ended, trouble, listed>>

Manage == Idle /\ \E call \in Offered : Start({call})

ManageSeveral ==
    /\ Idle
    /\ \E makePublic \in BOOLEAN : \E chosen \in SUBSET ControllableNeurons(makePublic) \ {{}} :
            Start({ChangeNeuronVisibility(n, makePublic) : n \in chosen})

\* addHotkeyForHardwareWalletNeuron: the device signs.
AddHotkeyForHardwareWalletNeuron(n) ==
    Idle /\ Start({[Call(n, "wallet", AddHotkeyApi, "load") EXCEPT !.base = gov[n]]})

\* The list that the device signed offers the neurons that are not added yet.
HardwareWalletNeurons ==
    {n \in Neurons : IsNeuronControlledByHardwareWallet(gov[n]) /\ ~gov[n].hotkey}
HardwareWalletNeuronAddHotkeyModal ==
    \E n \in HardwareWalletNeurons : AddHotkeyForHardwareWalletNeuron(n)
-----------------------------------------------------------------------------
(* Governance (external). *)

Accepts(call) ==
    LET v == gov[call.neuron]
        controller == call.signer = v.controller
        hotkey == call.signer = "user" /\ v.hotkey
    IN  CASE call.kind = "followees" ->
                controller \/ (hotkey /\ call.arg["management"] = v.followees["management"])
          [] call.kind \in {"join", "leave"} -> (controller \/ hotkey) /\ v.fund = (call.kind = "leave")
          [] call.kind = "delay"    -> controller /\ v.delay + call.arg <= MaxDelay
          [] call.kind = "start"    -> controller /\ v.state = "locked"
          [] call.kind = "stop"     -> controller /\ v.state = "dissolving"
          [] call.kind = "disburse" -> controller /\ v.state = "dissolved"
          [] call.kind = "split"    -> controller /\ v.stake >= 2
          [] call.kind = "merge"    -> controller /\ call.signer = gov[call.arg].controller
                                       /\ v.state = "locked" /\ gov[call.arg].state = "locked"
                                       /\ SameManageNeuronFollowees(v, gov[call.arg])
          [] call.kind \in {"spawn", "maturity"} -> controller /\ v.maturity > 0
          [] OTHER                  -> controller

Effect(call) ==
    LET n == call.neuron IN
    CASE call.kind = "followees" -> [gov EXCEPT ![n].followees = call.arg]
      [] call.kind \in {"join", "leave"} -> [gov EXCEPT ![n].fund = (call.kind = "join")]
      [] call.kind = "delay"    -> [gov EXCEPT ![n].delay = @ + call.arg,
                                               ![n].state = IF @ = "dissolved" THEN "locked" ELSE @]
      [] call.kind = "start"    -> [gov EXCEPT ![n].state = "dissolving"]
      [] call.kind = "stop"     -> [gov EXCEPT ![n].state = "locked"]
      [] call.kind = "disburse" -> [gov EXCEPT ![n].stake = 0]
      [] call.kind = "split"    -> [gov EXCEPT ![n].stake = @ - 1,
                                               ![call.arg] = [gov[n] EXCEPT !.stake = 1, !.maturity = 0]]
      [] call.kind = "spawn"    -> [gov EXCEPT ![n].maturity = 0,
                                               ![call.arg] = [gov[n] EXCEPT !.stake = 0, !.state = "locked"]]
      [] call.kind = "merge"    -> [gov EXCEPT ![n].stake = @ + gov[call.arg].stake,
                                               ![call.arg].stake = 0, ![call.arg].maturity = 0]
      [] call.kind = "maturity" -> [gov EXCEPT ![n].maturity = 0]
      [] call.kind = "auto"     -> [gov EXCEPT ![n].auto = call.arg]
      [] call.kind = "hotkey"   -> [gov EXCEPT ![n].hotkey = call.arg]
      [] call.kind = "public"   -> [gov EXCEPT ![n].public = call.arg]

Governance(call) ==
    /\ call \in ops /\ call.phase = "sent" /\ call.signer # "nobody"
    /\ IF Accepts(call)
       THEN gov' = Effect(call) /\ prev' = gov /\ version' = version + 1
       ELSE UNCHANGED <<gov, prev, version>>
    /\ ops' = (ops \ {call}) \cup {[call EXCEPT !.phase = "executed", !.ok = Accepts(call)]}
    /\ UNCHANGED <<forced, store, cache, lists, ended, trouble, count, listed>>
-----------------------------------------------------------------------------
\* Mutant: the cache is cleared after a success only.
ClearCacheAfterSuccess(call) == cache' = IF call.ok THEN {} ELSE cache

\* clearCacheAfter: the cache is cleared whether the call succeeded or not.
ClearCacheAfter(call) == cache' = {}

\* The operation reloads the neuron or the list, or ended with an error.
Answered(call) ==
    /\ call \in ops /\ call.phase = "executed"
    /\ ClearCacheAfter(call)
    /\ ended' = version
    /\ ops' = (ops \ {call}) \cup (IF call.ok THEN {[call EXCEPT !.phase = call.after]} ELSE {})
    /\ UNCHANGED <<forced, gov, prev, version, store, lists, trouble, count, listed>>

\* The user has no right to sign, and no call is made.
NotAuthorized(call) ==
    /\ call \in ops /\ call.signer = "nobody"
    /\ ops' = ops \ {call}
    /\ UNCHANGED <<forced, gov, prev, version, store, cache, lists, ended, trouble, count, listed>>

\* The call fails or its answer is lost.
CallFails(call) ==
    /\ call \in ops /\ call.phase \in {"sent", "executed"} /\ trouble = "none"
    /\ ClearCacheAfter([call EXCEPT !.ok = FALSE])
    /\ trouble' = "failed" /\ ended' = version
    /\ ops' = ops \ {call}
    /\ UNCHANGED <<forced, gov, prev, version, store, lists, count, listed>>

\* Mutant: the neuron is not reloaded after the operation.
GetAndLoadNeuronSkipped(call) ==
    /\ call \in ops /\ call.phase = "load"
    /\ ops' = ops \ {call}
    /\ UNCHANGED <<forced, gov, prev, version, store, cache, lists, ended, trouble, count, listed>>

\* getAndLoadNeuron: a certified answer is pushed if the user has access.
GetAndLoadNeuron(call) ==
    /\ call \in ops /\ call.phase = "load"
    /\ ops' = ops \ {call}
    /\ store' = IF UserAuthorizedNeuron(gov[call.neuron])
                THEN [store EXCEPT ![call.neuron] =
                        Entry(gov[call.neuron], TRUE, ended, "answer")]
                ELSE store
    /\ UNCHANGED <<forced, gov, prev, version, cache, lists, ended, trouble, count, listed>>

LoadFails(call) ==
    /\ call \in ops /\ call.phase = "load" /\ trouble = "none"
    /\ trouble' = "failed"
    /\ ops' = ops \ {call}
    /\ UNCHANGED <<forced, gov, prev, version, store, cache, lists, ended, count, listed>>
-----------------------------------------------------------------------------
\* The answer of governance to a list call: neurons of the user with stake.
ListOf(data) ==
    [n \in Neurons |-> IF UserAuthorizedNeuron(data[n]) /\ HasValidStake(data[n]) THEN data[n] ELSE Empty]

SetNeurons(data, certified, asked, from) ==
    store' = [n \in Neurons |-> Entry(data[n], certified, asked, from)]

\* The cached list; none if it was cached more than five minutes ago, when it is
\* as good as cleared.
HasValidCachedNeurons == {cache, {}}

\* An operation asks as the session does; pages also ask with a strategy of their
\* own, for a proposal, after a vote and for the proposals that need a vote.
StrategyOf(call) == IF call = {} THEN Strategies ELSE {forced}

\* listNeurons of a page or of an operation, which ends if the list is cached.
ListNeurons(call) ==
    /\ \/ call = {} /\ listed < MaxLists /\ listed' = listed + 1
       \/ call # {} /\ call \subseteq ops /\ (\A c \in call : c.phase = "list") /\ UNCHANGED listed
    /\ cache' \in HasValidCachedNeurons
    /\ \E strategy \in StrategyOf(call) :
        \/ /\ cache' # {}
           /\ \E hit \in cache :
                SetNeurons(hit.data, strategy # "query", ended, IF hit.overtaken THEN "overtaken" ELSE "answer")
           /\ ops' = ops \ call
           /\ UNCHANGED lists
        \/ /\ cache' = {}
           /\ lists' = lists \cup {[op |-> call # {}, asked |-> ended, query |-> strategy # "update",
                                    update |-> strategy # "query", read |-> FALSE, data |-> <<>>, at |-> 0]}
           /\ ops' = (ops \ call) \cup {[c EXCEPT !.phase = "listing"] : c \in call}
           /\ UNCHANGED store
    /\ UNCHANGED <<forced, gov, prev, version, ended, trouble, count>>

\* The first answer or failure settles the promise of queryAndUpdate, and with it
\* the operation that awaits the list.
Settles(list) == ops' = IF list.op THEN {call \in ops : call.phase # "listing"} ELSE ops

\* What is left of the request after its query.
QueryDone(list) ==
    lists' = (lists \ {list})
        \cup (IF list.update THEN {[list EXCEPT !.query = FALSE, !.op = FALSE]} ELSE {})

MayBeLate(isLate) ==
    IF isLate THEN trouble \in {"none", "late"} /\ trouble' = "late" ELSE UNCHANGED trouble

\* The query is answered, by a node that may lag.
QueryAnswered(list) ==
    /\ list \in lists /\ list.query
    /\ QueryDone(list) /\ Settles(list)
    /\ \E lags \in BOOLEAN :
        /\ SetNeurons(ListOf(IF lags THEN prev ELSE gov), FALSE, list.asked, "answer")
        /\ MayBeLate((lags /\ prev # gov) \/ list.asked < version)
    /\ UNCHANGED <<forced, gov, prev, version, cache, ended, count, listed>>

\* The query fails: if it is the last call of its strategy the list is emptied.
QueryFails(list) ==
    /\ list \in lists /\ list.query /\ trouble = "none"
    /\ trouble' = "failed"
    /\ QueryDone(list) /\ Settles(list)
    /\ IF list.update THEN UNCHANGED store
       ELSE SetNeurons([n \in Neurons |-> Empty], FALSE, list.asked, "failure")
    /\ UNCHANGED <<forced, gov, prev, version, cache, ended, count, listed>>

\* The update call is executed,
UpdateRead(list) ==
    /\ list \in lists /\ list.update /\ ~list.read
    /\ lists' = (lists \ {list}) \cup {[list EXCEPT !.read = TRUE, !.data = ListOf(gov), !.at = version]}
    /\ UNCHANGED <<forced, gov, prev, version, store, cache, ops, ended, trouble, count, listed>>

\* and answered later: the answer is cached, whatever cleared the cache meanwhile,
\* and set; an answer of the query after it is ignored.
UpdateAnswered(list) ==
    /\ list \in lists /\ list.read
    /\ lists' = lists \ {list}
    /\ cache' = {Cached(list.data, list.asked < ended /\ list.at < version)}
    /\ SetNeurons(list.data, TRUE, list.asked, "answer")
    /\ MayBeLate(list.at < version)
    /\ Settles(list)
    /\ UNCHANGED <<forced, gov, prev, version, ended, count, listed>>

\* The update call fails: the list is emptied.
ListFails(list) ==
    /\ list \in lists /\ list.update /\ trouble = "none"
    /\ trouble' = "failed"
    /\ lists' = lists \ {list}
    /\ SetNeurons([n \in Neurons |-> Empty], TRUE, list.asked, "failure")
    /\ Settles(list)
    /\ UNCHANGED <<forced, gov, prev, version, cache, ended, count, listed>>

Next ==
    \/ Manage \/ ManageSeveral
    \/ HardwareWalletNeuronAddHotkeyModal
    \/ ListNeurons({})
    \/ \E call \in ops :
        \/ Governance(call) \/ Answered(call) \/ NotAuthorized(call) \/ CallFails(call)
        \/ GetAndLoadNeuron(call) \/ LoadFails(call) \/ ListNeurons({call})
    \/ \E list \in lists :
        \/ QueryAnswered(list) \/ QueryFails(list)
        \/ UpdateRead(list) \/ UpdateAnswered(list) \/ ListFails(list)

Spec == Init /\ [][Next]_vars
-----------------------------------------------------------------------------
Phases == {"sent", "executed", "load", "list", "listing"}

TypeOK ==
    /\ \A n \in Neurons :
        /\ gov[n].controller \in {"user", "wallet", "other"}
        /\ gov[n].state \in {"locked", "dissolving", "dissolved"}
        /\ gov[n].followees \in [Topics -> SUBSET Followees] /\ gov[n].delay \in 0 .. MaxDelay
        /\ store[n].asked \in 0 .. version
    /\ \A call \in ops : call.neuron \in Neurons /\ call.phase \in Phases
    /\ (\A hit, other \in cache : hit = other) /\ ended \in 0 .. version
    /\ trouble \in {"none", "late", "failed"}

\* What the pages show of neuron n, of a list or neuron that is certified and was
\* asked for after the last operation ended.
AskedSince(n) ==
    /\ store[n].certified /\ store[n].asked = ended /\ version = ended
    /\ UserAuthorizedNeuron(gov[n]) /\ HasValidStake(gov[n])

\* After an operation ended, also with an error, a certified list or neuron that is
\* asked for shows what governance holds, from the network or from the cache,
\* however late the answers of earlier lists are.  Two things spoil it: a list that
\* fails is shown as empty, and a list that was asked for before the operation
\* ended and read before it was executed may be answered after both, when it fills
\* the cache that the operation cleared.
SeesOwnWrites ==
    \A n \in Neurons : AskedSince(n) => Shown(n) = gov[n] \/ store[n].from \in {"overtaken", "failure"}

\* The same without the second exception.
CacheIsInvalidated ==
    \A n \in Neurons : AskedSince(n) => Shown(n) = gov[n] \/ store[n].from = "failure"

\* No lost updates: what an operation sends was computed from the neuron that
\* governance holds (its followees, delay, fund membership and state), as long
\* as no answer was late and no call failed.
NoLostUpdates ==
    \A call \in ops :
        (call.phase = "sent" /\ trouble = "none" /\ UserAuthorizedNeuron(gov[call.neuron]))
        => call.base = gov[call.neuron]

\* What the pages offer, signed by the identity that the service chooses, is
\* accepted by governance if the neurons are shown as they are.  The service
\* refuses one thing that is offered without a call: a hotkey's change of the
\* followees on neuron management.
OffersAreAccepted ==
    (\A n \in Neurons : Shown(n) = ListOf(gov)[n])
    => \A call \in Offered :
        IF call.signer = "nobody"
        THEN call.kind = "followees" /\ call.arg["management"] # gov[call.neuron].followees["management"]
        ELSE Accepts(call)

\* The pages show the neurons as they are after an operation.
ShownAsTheyAre == TypeOK /\ SeesOwnWrites
=============================================================================
