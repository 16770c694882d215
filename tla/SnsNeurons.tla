----------------------------- MODULE SnsNeurons -----------------------------
(***************************************************************************)
(* The neurons of a user in one SNS project: the list and its store, the   *)
(* page of a neuron with its queued store, the operations of services/sns- *)
(* neurons.services.ts as the page offers them, and the recovery of        *)
(* services/sns-neurons-check-balances.services.ts.                        *)
(*                                                                         *)
(* A neuron is the memo of its account among the user's accounts.  Tokens  *)
(* are sent to the account first; governance claims or refreshes then.     *)
(* One function of the project stands for all that can be followed on.     *)
(***************************************************************************)
EXTENDS QueryAndUpdate, Integers, FiniteSets, FiniteSetsExt

CONSTANTS
    Memos,        \* a prefix of the natural numbers
    Followees,
    MinStake,     \* neuron_minimum_stake_e8s
    Fee,          \* transaction fee of the project's token
    Amounts,      \* amounts that are staked
    MaxDelay,     \* max_dissolve_delay_seconds, in steps
    MaxOps,       \* bound on operations
    MaxFailures,  \* bound on failing calls
    MaxSessions   \* bound on sessions

VARIABLES
    gov,       \* the neurons on the SNS governance canister
    prev,      \* the same before the last change, which a lagging node returns
    balance,   \* tokens in the accounts (ledger)
    params,    \* nervous system parameters: may hotkeys be granted
    store,     \* snsNeuronsStore: a set of at most one list
    lists,     \* syncSnsNeurons: calls that are not answered; "old" is an update that is
               \* from before the last change
    page,      \* Elsewhere, ListPage or the neuron whose page is open
    selected,  \* queued store of the page: what is shown, and by which request
    reloads,   \* requests of the page that are not answered
    checked,   \* checkedNeuronSubaccountsStore
    recovery,  \* claims and refreshes that the recovery runs
    op,        \* the operation that runs
    faulty,    \* history: in this session a call failed or an answer was old
    ops, failures, sessions

ledger == <<gov, prev, balance, params>>
browser == <<store, lists, page, selected, reloads, checked, recovery>>
Elsewhere == -1
ListPage == -2

vars == <<ledger, browser, op, faulty, ops, failures, sessions>>
-----------------------------------------------------------------------------
(* Neurons and permissions (utils/sns-neuron.utils.ts). *)

HotkeyPermissions == {"vote", "submit"}
ManageHotkeyPermissions == {"manageVoting", "managePrincipals"}
AllPermissions ==
    HotkeyPermissions \cup ManageHotkeyPermissions
        \cup {"dissolve", "disburse", "split", "stakeMaturity", "disburseMaturity"}

\* perms are those of the user, others the permissions of a second principal.
Neuron(perms, state, stake) ==
    [claimed |-> TRUE, perms |-> perms, others |-> {}, state |-> state,
     delay |-> IF state = "dissolved" THEN 0 ELSE 1, auto |-> FALSE, followees |-> {},
     stake |-> stake, maturity |-> 1, vesting |-> FALSE,
     fund |-> perms = HotkeyPermissions \cup {"manageVoting"}]
None == [Neuron({}, "dissolved", 0) EXCEPT !.claimed = FALSE, !.maturity = 0]

HasPermissions(v, permissions) == permissions \subseteq v.perms
HasAnyPermission(v, permissions) == permissions \cap v.perms # {}
HasPermissionToDisburse(v) == HasPermissions(v, {"disburse"})
HasPermissionToDissolve(v) == HasPermissions(v, {"dissolve"})
HasPermissionToVote(v) == HasPermissions(v, {"vote"})
HasPermissionToStakeMaturity(v) == HasPermissions(v, {"stakeMaturity"})
HasPermissionToDisburseMaturity(v) == HasPermissions(v, {"disburseMaturity"})
HasPermissionToSplit(v) == HasPermissions(v, {"split"})
UserHasNoPermissions(v) == v.claimed /\ v.perms = {}

\* Exactly the permissions of a hotkey; those of the community fund have one more.
ComparePermissions(a, b) == a = b
IsHotkey(perms) ==
    \E h \in {HotkeyPermissions, HotkeyPermissions \cup {"manageVoting"}} : ComparePermissions(perms, h)
GetSnsNeuronHotkeys(v) ==
    {p \in {"user", "other"} : IsHotkey(IF p = "user" THEN v.perms ELSE v.others)}
CanIdentityManageHotkeys(v) ==
    HasAnyPermission(v, ManageHotkeyPermissions) /\ params.grantable

IsVesting(v) == v.vesting
IsCommunityFund(v) == v.fund
MinNeuronSplittable == 2 * MinStake + Fee
HasEnoughStakeToSplit(v) == v.stake >= MinNeuronSplittable
IsEnoughAmountToSplit(amountAndFee) == amountAndFee >= MinStake + Fee
HasEnoughMaturityToStake(v) == v.maturity > 0
HasEnoughMaturityToDisburse(v) == v.maturity > 0
GetSnsNeuronState(v) == v.state
GetSnsDissolveDelay(v) == IF v.state = "dissolved" THEN 0 ELSE v.delay

NeedsRefresh(stake, tokens) == tokens # stake

\* Mutant: the smallest stake is not enough.
EnoughToClaimAbove(tokens) == tokens > MinStake

\* claimNeuronIfNeeded: the balance is that of a neuron.
EnoughToClaim(tokens) == tokens # 0 /\ tokens >= MinStake

\* getNeuron of governance, which also answers for neurons of others.
GetSnsNeuronApi(data, m) == data[m]

\* querySnsNeuron: does a neuron with this id exist?
QuerySnsNeuron(f) == {f} \cap Followees

\* nextMemo: the first account without a neuron in the list; {} if none is left.
NextMemo(list) ==
    LET free == {m \in Memos : ~list[m].claimed} IN IF free = {} THEN {} ELSE {Min(free)}

\* querySnsNeurons: what governance lists for the user.
QuerySnsNeurons(data) == [m \in Memos |-> IF data[m].perms # {} THEN data[m] ELSE None]
-----------------------------------------------------------------------------
Profiles == {AllPermissions, HotkeyPermissions, HotkeyPermissions \cup {"manageVoting"}}

NoNeuron == [neuron |-> None, rank |-> 0, certified |-> TRUE]
NoArg == [amount |-> 0, on |-> FALSE, set |-> {}, who |-> "none", memo |-> 0]
NoOp == [kind |-> "none", memo |-> 0, arg |-> NoArg, after |-> "none", phase |-> "none", ok |-> FALSE]

\* The user has one neuron; the first or the second account may be that of a
\* neuron that was transferred to somebody else.
Transferred == Neuron({}, "locked", MinStake)
Owned ==
    {Neuron(p, "locked", MinNeuronSplittable) : p \in Profiles}
        \cup {Neuron(AllPermissions, "dissolved", MinNeuronSplittable),
              [Neuron(AllPermissions, "locked", MinStake) EXCEPT !.vesting = TRUE],
              Neuron(AllPermissions, "dissolving", MinStake)}
Init ==
    /\ LET none == [m \in Memos |-> None] IN
       \/ \E v \in Owned : gov = [none EXCEPT ![0] = v]
       \/ gov = [none EXCEPT ![0] = Transferred]
       \/ gov = [none EXCEPT ![0] = Neuron(AllPermissions, "locked", MinNeuronSplittable), ![1] = Transferred]
    /\ prev = gov
    /\ balance = [m \in Memos |-> gov[m].stake]
    /\ params \in [grantable : BOOLEAN]
    /\ store = {} /\ lists = {} /\ page = Elsewhere /\ selected = NoNeuron
    /\ reloads = {} /\ checked = {} /\ recovery = {} /\ op = NoOp
    /\ faulty = FALSE /\ ops = 0 /\ failures = 0 /\ sessions = 1

\* The browser reloads at any time, and nothing but the canisters remains.
Reload ==
    /\ sessions < MaxSessions
    /\ sessions' = sessions + 1
    /\ store' = {} /\ lists' = {} /\ page' = Elsewhere /\ selected' = NoNeuron
    /\ reloads' = {} /\ checked' = {} /\ recovery' = {} /\ op' = NoOp /\ faulty' = FALSE
    /\ UNCHANGED <<ledger, ops, failures>>

Failing ==
    /\ failures < MaxFailures
    /\ failures' = failures + 1
    /\ faulty' = TRUE
-----------------------------------------------------------------------------
(* The stores, and the recovery that follows their changes. *)

Check(m, kind, stake) ==
    [memo |-> m, kind |-> kind, phase |-> "balance", stake |-> stake]

\* claimNextNeuronIfNeeded of the list page: the next account is looked at,
\* once per session.
ClaimNextNeuronIfNeeded(list) ==
    LET next == NextMemo(list) \ checked IN
    /\ checked' = checked \cup next
    /\ recovery' = recovery \cup {Check(m, "claim", 0) : m \in next}

SetNeurons(list) ==
    /\ store' = {list}
    /\ IF page = ListPage THEN ClaimNextNeuronIfNeeded(list) ELSE UNCHANGED <<checked, recovery>>

\* refreshNeuronIfNeeded of the page of a neuron, once per session.
RefreshNeuronIfNeeded(m, v) ==
    LET next == {m} \ checked IN
    /\ checked' = checked \cup next
    /\ recovery' = recovery \cup {Check(n, "refresh", v.stake) : n \in next}

\* The page of neuron m shows the answer of a request, unless that of a later
\* one, or a certified one of the same, is shown already.
ShowNeuron(m, v, rank, certified) ==
    IF rank < selected.rank \/ (rank = selected.rank /\ selected.certified)
    THEN UNCHANGED <<selected, checked, recovery>>
    ELSE /\ selected' = [neuron |-> v, rank |-> rank, certified |-> certified]
         /\ RefreshNeuronIfNeeded(m, v)

\* loadNeuron of the page with forceFetch: one more request.
Ranks == {r.rank : r \in reloads} \cup {selected.rank}
Fetch == [rank |-> Max(Ranks) + 1, call |-> Sent("query_and_update"), old |-> FALSE]

\* SnsNeurons: the list page opens; the list is synced.  Its calls go on when the page is
\* left.  Bound: it opens again when they are answered.
OpenList ==
    /\ page # ListPage /\ op.kind = "none" /\ lists = {}
    /\ page' = ListPage /\ selected' = NoNeuron /\ reloads' = {}
    /\ lists' = {"query", "update"}
    /\ IF store = {} THEN UNCHANGED <<checked, recovery>>
       ELSE ClaimNextNeuronIfNeeded(CHOOSE list \in store : TRUE)
    /\ UNCHANGED <<ledger, store, op, faulty, ops, failures, sessions>>

\* getNeuronFromStoreByIdHex: at most one neuron.
GetNeuronFromStoreByIdHex(m) == {v \in {list[m] : list \in store} : v.claimed}

\* getSnsNeuron: from the store if the neuron is there, else from governance.  The list has
\* a spinner until its first answer: bound, its query is answered by then.
OpenNeuron(m) ==
    /\ page # m /\ op.kind = "none" /\ gov[m].perms # {} /\ "query" \notin lists
    /\ page' = m
    /\ IF GetNeuronFromStoreByIdHex(m) # {}
       THEN \E v \in GetNeuronFromStoreByIdHex(m) :
            /\ selected' = [neuron |-> v, rank |-> 1, certified |-> TRUE]
            /\ faulty' = (faulty \/ v # gov[m])
            /\ reloads' = {}
            /\ RefreshNeuronIfNeeded(m, v)
       ELSE /\ selected' = NoNeuron
            /\ reloads' = {[rank |-> 1, call |-> Sent("query_and_update"), old |-> FALSE]}
            /\ UNCHANGED <<checked, recovery, faulty>>
    /\ UNCHANGED <<ledger, store, lists, op, ops, failures, sessions>>

\* syncSnsNeurons is answered, by a node that lags or before the last change perhaps.
SyncSnsNeurons(call) ==
    /\ call \in lists
    /\ lists' = IF call = "query" THEN lists \ {call} ELSE {}
    /\ \E data \in {gov} \cup (IF call = "update" THEN {} ELSE {prev}) :
        /\ SetNeurons(QuerySnsNeurons(data))
        /\ faulty' = (faulty \/ data # gov)
    /\ UNCHANGED <<ledger, page, selected, reloads, op, ops, failures, sessions>>

\* The last call fails: the list is hidden.
SyncFails ==
    /\ lists \cap {"update", "old"} # {}
    /\ Failing
    /\ lists' = {} /\ store' = {}
    /\ UNCHANGED <<ledger, page, selected, reloads, checked, recovery, op, ops, sessions>>

\* The operation that waits for the reload ends with its first answer.
Reloaded == op' = IF op.phase = "reload" THEN NoOp ELSE op

\* An answer of getSnsNeuron; the query may be answered by a node that lags,
\* the update may have been read before the last change.
NeuronFetched(r, certified) ==
    /\ r \in reloads /\ certified \in r.call.waiting
    /\ LET q == [r EXCEPT !.call = Answered(@, certified)] IN
       reloads' = (reloads \ {r}) \cup {s \in {q} : s.call.waiting # {}}
    /\ IF Heard(r.call)
       THEN \E data \in {gov} \cup (IF r.old \/ ~certified THEN {prev} ELSE {}) :
            /\ ShowNeuron(page, GetSnsNeuronApi(data, page), r.rank, certified)
            /\ faulty' = (faulty \/ data # gov)
       ELSE UNCHANGED <<selected, checked, recovery, faulty>>
    /\ Reloaded
    /\ UNCHANGED <<ledger, store, lists, page, ops, failures, sessions>>

\* The neuron cannot be fetched: back to the list.
FetchFails(r) ==
    /\ r \in reloads /\ Heard(r.call)
    /\ Failing
    /\ page' = Elsewhere /\ selected' = NoNeuron /\ reloads' = {}
    /\ Reloaded
    /\ UNCHANGED <<ledger, store, lists, checked, recovery, ops, sessions>>
-----------------------------------------------------------------------------
(* The commands of api/sns-governance.api.ts and the services that send    *)
(* them, signed by the user: getSnsNeuronIdentity.                         *)

Command(kind, arg) == [kind |-> kind, arg |-> arg]
Plain(kind) == Command(kind, NoArg)
Amount(kind, amount) == Command(kind, [NoArg EXCEPT !.amount = amount])
AddNeuronPermissionsApi == Plain("permit")
RemoveNeuronPermissionsApi(p) == Command("revoke", [NoArg EXCEPT !.who = p])
SplitNeuronApi(amount) == Amount("split", amount)
DisburseApi == Plain("disburse")
StartDissolvingApi == Plain("start")
StopDissolvingApi == Plain("stop")
IncreaseDissolveDelayApi(by) == Amount("delay", by)
SetFolloweesApi(followees) == Command("followees", [NoArg EXCEPT !.set = followees])
StakeMaturityApi == Plain("stakeMaturity")
DisburseMaturityApi == Plain("disburseMaturity")
AutoStakeMaturityApi(auto) == Command("auto", [NoArg EXCEPT !.on = auto])
StakeNeuronApi(amount) == Amount("stake", amount)
IncreaseStakeNeuronApi(amount) == Amount("topup", amount)

\* After the call the page reloads the neuron, "always" or on "success".
Call(m, command, after) ==
    {[kind |-> command.kind, memo |-> m, arg |-> command.arg, after |-> after,
      phase |-> "sent", ok |-> FALSE]}

AddHotkey(m) == Call(m, AddNeuronPermissionsApi, "success")
RemoveHotkey(m, p) == Call(m, RemoveNeuronPermissionsApi(p), "success")
Disburse(m) == Call(m, DisburseApi, "always")
StartDissolving(m) == Call(m, StartDissolvingApi, "always")
StopDissolving(m) == Call(m, StopDissolvingApi, "always")
UpdateDelay(m, v, delay) == Call(m, IncreaseDissolveDelayApi(delay - GetSnsDissolveDelay(v)), "always")
StakeMaturity(m) == Call(m, StakeMaturityApi, "always")
DisburseMaturity(m) == Call(m, DisburseMaturityApi, "always")
ToggleAutoStakeMaturity(m, v) == Call(m, AutoStakeMaturityApi(~v.auto), "always")
IncreaseStakeNeuron(m, amount) == Call(m, IncreaseStakeNeuronApi(amount), "always")

\* splitNeuron: too little is refused; the list is loaded for the memo first.
SplitNeuron(m, amount) ==
    IF ~IsEnoughAmountToSplit(amount + Fee) THEN {}
    ELSE {[c EXCEPT !.phase = "load"] : c \in Call(m, SplitNeuronApi(amount + Fee), "success")}

StakeNeuron(amount) ==
    IF amount < MinStake THEN {} ELSE Call(0, StakeNeuronApi(amount), "list")

FolloweesByFunction(v) == v.followees
AddFollowee(m, v, f) ==
    IF f \in FolloweesByFunction(v) \/ QuerySnsNeuron(f) = {} THEN {}
    ELSE Call(m, SetFolloweesApi(FolloweesByFunction(v) \cup {f}), "success")
RemoveFollowee(m, v, f) ==
    IF f \notin FolloweesByFunction(v) THEN {}
    ELSE Call(m, SetFolloweesApi(FolloweesByFunction(v) \ {f}), "success")
-----------------------------------------------------------------------------
(* The modals: what they call when the user confirms.                      *)

If(condition, calls) == {c \in calls : condition}

AddSnsHotkeyModal(m) == AddHotkey(m)
DissolveSnsNeuronModal(m, v) ==
    IF GetSnsNeuronState(v) = "dissolving" THEN StopDissolving(m) ELSE StartDissolving(m)
SetSnsDissolveDelay(v) == {d \in 1 .. MaxDelay : d > GetSnsDissolveDelay(v)}
ConfirmSnsDissolveDelay(m, v, delay) == UpdateDelay(m, v, delay)
IncreaseSnsDissolveDelayModal(m, v) ==
    UNION {ConfirmSnsDissolveDelay(m, v, d) : d \in SetSnsDissolveDelay(v)}
DisburseSnsNeuronModal(m) == Disburse(m)
\* The modals that both kinds of neurons share: all of the maturity is taken.
StakeMaturityModal(v, confirm) == If(v.maturity > 0, confirm)
DisburseMaturityModal(v, confirm) == If(HasEnoughMaturityToDisburse(v), confirm)
AutoStakeMaturityModal(confirm) == confirm
SnsStakeMaturityModal(m, v) == StakeMaturityModal(v, StakeMaturity(m))
SnsDisburseMaturityModal(m, v) == DisburseMaturityModal(v, DisburseMaturity(m))
SnsAutoStakeMaturityModal(m, v) == AutoStakeMaturityModal(ToggleAutoStakeMaturity(m, v))

\* At most what leaves a neuron behind can be split off.
SplitSnsNeuronModal(m, v) ==
    UNION {SplitNeuron(m, a) : a \in {n \in 1 .. v.stake : n + Fee + MinStake <= v.stake}}
SnsIncreaseStakeNeuronModal(m) == UNION {IncreaseStakeNeuron(m, a) : a \in Amounts}
SnsStakeNeuronModal == UNION {StakeNeuron(a) : a \in {n \in Amounts : n >= MinStake}}
NewSnsFolloweeModal(m, v) == UNION {AddFollowee(m, v, f) : f \in Followees \cup {"no neuron"}}
FollowSnsTopicSection(m, v) ==
    NewSnsFolloweeModal(m, v) \cup UNION {RemoveFollowee(m, v, f) : f \in FolloweesByFunction(v)}
FollowSnsNeuronsModal(m, v) == FollowSnsTopicSection(m, v)
-----------------------------------------------------------------------------
(* What the components of the page offer for the neuron they show.         *)

UnlessVesting(v, offer) == If(~IsVesting(v), offer)
DisburseSnsButton(m, v) == UnlessVesting(v, DisburseSnsNeuronModal(m))
DissolveSnsNeuronButton(m, v) == UnlessVesting(v, DissolveSnsNeuronModal(m, v))
IncreaseSnsDissolveDelayButton(m, v) == UnlessVesting(v, IncreaseSnsDissolveDelayModal(m, v))
SplitSnsNeuronButton(m, v) ==
    UnlessVesting(v, If(HasEnoughStakeToSplit(v), SplitSnsNeuronModal(m, v)))
SnsStakeMaturityButton(m, v) == If(HasEnoughMaturityToStake(v), SnsStakeMaturityModal(m, v))
SnsDisburseMaturityButton(m, v) == If(HasEnoughMaturityToDisburse(v), SnsDisburseMaturityModal(m, v))
AddSnsHotkeyButton(m) == AddSnsHotkeyModal(m)
FollowSnsNeuronsButton(m, v) == FollowSnsNeuronsModal(m, v)
SnsAutoStakeMaturity(m, v) == If(HasPermissionToStakeMaturity(v), SnsAutoStakeMaturityModal(m, v))

SnsStakeItemAction(m, v) == If(~IsCommunityFund(v), SnsIncreaseStakeNeuronModal(m))
SnsNeuronStateItemAction(m, v) ==
    IF GetSnsNeuronState(v) = "dissolved"
    THEN If(HasPermissionToDisburse(v), DisburseSnsButton(m, v))
    ELSE If(HasPermissionToDissolve(v), DissolveSnsNeuronButton(m, v))
SnsNeuronDissolveDelayItemAction(m, v) ==
    If(HasPermissionToDissolve(v), IncreaseSnsDissolveDelayButton(m, v))
SnsNeuronVotingPowerSection(m, v) ==
    SnsStakeItemAction(m, v) \cup SnsNeuronStateItemAction(m, v) \cup SnsNeuronDissolveDelayItemAction(m, v)
SnsAvailableMaturityItemAction(m, v) ==
    If(HasPermissionToStakeMaturity(v), SnsStakeMaturityButton(m, v))
        \cup If(HasPermissionToDisburseMaturity(v), SnsDisburseMaturityButton(m, v))
SnsNeuronMaturitySection(m, v) == SnsAvailableMaturityItemAction(m, v)
SnsNeuronAdvancedSection(m, v) ==
    SnsAutoStakeMaturity(m, v) \cup If(HasPermissionToSplit(v), SplitSnsNeuronButton(m, v))
SnsNeuronFollowingCard(m, v) == If(HasPermissionToVote(v), FollowSnsNeuronsButton(m, v))
SnsNeuronHotkeysCard(m, v) ==
    If(CanIdentityManageHotkeys(v),
       AddSnsHotkeyButton(m) \cup UNION {RemoveHotkey(m, p) : p \in GetSnsNeuronHotkeys(v)})

SnsNeuronsFooter == SnsStakeNeuronModal

\* SnsNeuronDetail, when it has the neuron
SnsNeuronDetail(m, v) ==
    If(v.claimed,
       SnsNeuronVotingPowerSection(m, v) \cup SnsNeuronMaturitySection(m, v)
        \cup SnsNeuronAdvancedSection(m, v) \cup SnsNeuronFollowingCard(m, v) \cup SnsNeuronHotkeysCard(m, v))

Offered ==
    CASE page = ListPage  -> SnsNeuronsFooter
      [] page = Elsewhere -> {}
      [] OTHER            -> SnsNeuronDetail(page, selected.neuron)

Manage ==
    /\ op.kind = "none" /\ ops < MaxOps
    /\ ops' = ops + 1
    /\ op' \in Offered
    /\ UNCHANGED <<ledger, browser, faulty, failures, sessions>>

\* loadSnsNeurons before a split: the memo is taken from the certified list.
LoadForSplit ==
    /\ op.phase = "load"
    /\ SetNeurons(QuerySnsNeurons(gov))
    /\ op' = IF NextMemo(QuerySnsNeurons(gov)) = {} THEN NoOp
             ELSE [op EXCEPT !.phase = "sent",
                             !.arg.memo = Max(NextMemo(QuerySnsNeurons(gov)))]
    /\ UNCHANGED <<ledger, lists, page, selected, reloads, faulty, ops, failures, sessions>>
-----------------------------------------------------------------------------
(* SNS governance and the ledger (external). *)

Required(kind) ==
    CASE kind \in {"start", "stop", "delay"} -> {"dissolve"}
      [] kind \in {"disburse", "split", "disburseMaturity"} -> {kind}
      [] kind \in {"stakeMaturity", "auto"} -> {"stakeMaturity"}
      [] kind = "followees" -> {"vote"}
      [] OTHER -> {}

Accepts(call) ==
    LET v == gov[call.memo] IN
    /\ HasPermissions(v, Required(call.kind))
    /\ call.kind \in {"permit", "revoke"} => HasAnyPermission(v, ManageHotkeyPermissions) /\ params.grantable
    /\ call.kind \in {"start", "stop", "delay", "disburse", "split"} => ~v.vesting
    /\ call.kind = "start" => v.state = "locked"
    /\ call.kind = "stop" => v.state = "dissolving"
    /\ call.kind = "delay" => call.arg.amount > 0 /\ GetSnsDissolveDelay(v) + call.arg.amount <= MaxDelay
    /\ call.kind = "disburse" => v.state = "dissolved"
    /\ call.kind \in {"stakeMaturity", "disburseMaturity"} => v.maturity > 0
    /\ call.kind = "split" =>
        /\ ~gov[call.arg.memo].claimed
        /\ call.arg.amount >= MinStake + Fee /\ v.stake - call.arg.amount >= MinStake

Effect(call) ==
    LET m == call.memo IN
    CASE call.kind = "permit" -> [gov EXCEPT ![m].others = @ \cup HotkeyPermissions]
      [] call.kind = "revoke" -> [gov EXCEPT
            ![m].perms = IF call.arg.who = "user" THEN @ \ HotkeyPermissions ELSE @,
            ![m].others = IF call.arg.who = "other" THEN @ \ HotkeyPermissions ELSE @]
      [] call.kind = "start" -> [gov EXCEPT ![m].state = "dissolving"]
      [] call.kind = "stop" -> [gov EXCEPT ![m].state = "locked"]
      [] call.kind = "delay" -> [gov EXCEPT ![m].delay = GetSnsDissolveDelay(gov[m]) + call.arg.amount,
                                            ![m].state = IF @ = "dissolved" THEN "locked" ELSE @]
      [] call.kind = "disburse" -> [gov EXCEPT ![m].stake = 0]
      [] call.kind = "followees" -> [gov EXCEPT ![m].followees = call.arg.set]
      [] call.kind \in {"stakeMaturity", "disburseMaturity"} -> [gov EXCEPT ![m].maturity = 0]
      [] call.kind = "auto" -> [gov EXCEPT ![m].auto = call.arg.on]
      [] call.kind = "split" -> [gov EXCEPT
            ![m].stake = @ - call.arg.amount,
            ![call.arg.memo] = [gov[m] EXCEPT !.stake = call.arg.amount - Fee, !.maturity = 0]]

\* What was asked for before governance changed
Overtaken ==
    /\ prev' = gov
    /\ reloads' = {[r EXCEPT !.old = TRUE] : r \in reloads}
    /\ lists' = {IF call = "update" THEN "old" ELSE call : call \in lists}

Changes(new) ==
    /\ gov' = new /\ Overtaken
    /\ balance' = [m \in Memos |-> IF new[m].stake = gov[m].stake THEN balance[m] ELSE new[m].stake]
    /\ UNCHANGED params

Execute ==
    /\ op.phase = "sent" /\ op.kind \notin {"stake", "topup"}
    /\ IF Accepts(op) THEN Changes(Effect(op)) ELSE UNCHANGED <<ledger, reloads, lists>>
    /\ op' = [op EXCEPT !.phase = "executed", !.ok = Accepts(op)]
    /\ UNCHANGED <<store, page, selected, checked, recovery, faulty, ops, failures, sessions>>

\* The wrapper of stakeNeuron and increaseStakeNeuron: tokens are sent to the
\* account, the first without a neuron when a new one is staked,
Transfer ==
    /\ op.phase = "sent" /\ op.kind \in {"stake", "topup"}
    /\ LET m == IF op.kind = "topup" THEN {op.memo} ELSE NextMemo(gov) IN
       IF m = {} THEN op' = NoOp /\ UNCHANGED balance
       ELSE /\ balance' = [balance EXCEPT ![Max(m)] = @ + op.arg.amount]
            /\ op' = [op EXCEPT !.phase = "paid", !.memo = Max(m)]
    /\ UNCHANGED <<gov, prev, params, browser, faulty, ops, failures, sessions>>

\* claim_or_refresh, by the wrapper or by the recovery: a neuron that is claimed
\* again is refreshed.
RefreshNeuron(m) == [gov EXCEPT ![m].stake = balance[m]]
ClaimNeuron(m) ==
    IF gov[m].claimed THEN RefreshNeuron(m)
    ELSE [gov EXCEPT ![m] = [Neuron(AllPermissions, "dissolved", balance[m]) EXCEPT !.maturity = 0]]

\* and the neuron is claimed or refreshed.
Claim ==
    /\ op.phase = "paid"
    /\ gov' = (IF op.kind = "topup" THEN RefreshNeuron(op.memo) ELSE ClaimNeuron(op.memo)) /\ Overtaken
    /\ op' = [op EXCEPT !.phase = "executed", !.ok = TRUE]
    /\ UNCHANGED <<balance, params, store, page, selected, checked, recovery, faulty, ops, failures, sessions>>
-----------------------------------------------------------------------------
\* reload of SelectedSnsNeuronContext, if the page is still open
ReloadContext ==
    IF page \in Memos
    THEN reloads' = reloads \cup {Fetch} /\ op' = [op EXCEPT !.phase = "reload"]
    ELSE op' = NoOp /\ UNCHANGED reloads

\* The operation ended: the page reloads the neuron, or the list for a stake,
\* or is left if the user has no access any more.
OpAnswered ==
    /\ op.phase = "executed"
    /\ \/ /\ op.after = "list" /\ op.ok
          /\ SetNeurons(QuerySnsNeurons(gov)) /\ op' = NoOp
          /\ UNCHANGED <<page, selected, reloads>>
       \/ /\ op.arg.who = "user" /\ op.ok
          /\ page' = Elsewhere /\ selected' = NoNeuron /\ reloads' = {} /\ op' = NoOp
          /\ UNCHANGED <<store, checked, recovery>>
       \/ /\ op.after = "always" \/ (op.after = "success" /\ op.ok /\ op.arg.who # "user")
          /\ ReloadContext
          /\ UNCHANGED <<store, page, selected, checked, recovery>>
       \/ /\ op.after # "always" /\ ~op.ok
          /\ op' = NoOp
          /\ UNCHANGED <<store, page, selected, reloads, checked, recovery>>
    /\ UNCHANGED <<ledger, lists, faulty, ops, failures, sessions>>

\* A call of the operation fails, before or after it was executed.
OpFails ==
    /\ op.phase \in {"load", "sent", "paid", "executed"}
    /\ Failing
    /\ IF op.after = "always" THEN ReloadContext ELSE op' = NoOp /\ UNCHANGED reloads
    /\ UNCHANGED <<ledger, store, lists, page, selected, checked, recovery, ops, sessions>>
-----------------------------------------------------------------------------
(* The recovery. *)

Continue(c, phase) == recovery' = (recovery \ {c}) \cup {[d EXCEPT !.phase = phase] : d \in If(phase # "done", {c})}

\* getNeuronBalance, uncertified: is there something to claim or to refresh?
CheckBalance(c) ==
    /\ c \in recovery /\ c.phase = "balance"
    /\ \E read \in {balance[c.memo], gov[c.memo].stake} :
        /\ faulty' = (faulty \/ read # balance[c.memo])
        /\ Continue(c, IF c.kind = "claim"
                       THEN IF EnoughToClaim(read) THEN "call" ELSE "done"
                       ELSE IF NeedsRefresh(c.stake, read) THEN "call" ELSE "done")
    /\ UNCHANGED <<ledger, store, lists, page, selected, reloads, checked, op, ops, failures, sessions>>

\* claimNeuron or refreshNeuron
RecoveryCalls(c) ==
    /\ c \in recovery /\ c.phase = "call"
    /\ gov' = (IF c.kind = "refresh" THEN RefreshNeuron(c.memo) ELSE ClaimNeuron(c.memo)) /\ Overtaken
    /\ Continue(c, "load")
    /\ UNCHANGED <<balance, params, store, page, selected, checked, op, faulty, ops, failures, sessions>>

\* loadNeuron of the recovery: a neuron of somebody else is not added.
LoadNeuron(m) ==
    LET list == IF store = {} THEN [n \in Memos |-> None] ELSE CHOOSE l \in store : TRUE IN
    IF UserHasNoPermissions(GetSnsNeuronApi(gov, m)) THEN store
    ELSE {[list EXCEPT ![m] = GetSnsNeuronApi(gov, m)]}

\* The list changes, which looks at the next account; the page of a refreshed
\* neuron reloads.
RecoveryLoads(c) ==
    LET next == IF page = ListPage THEN UNION {NextMemo(l) : l \in LoadNeuron(c.memo)} \ checked ELSE {} IN
    /\ c \in recovery /\ c.phase = "load"
    /\ store' = LoadNeuron(c.memo)
    /\ checked' = checked \cup next
    /\ recovery' = (recovery \ {c}) \cup {Check(m, "claim", 0) : m \in next}
    /\ reloads' = IF c.kind = "refresh" /\ page = c.memo THEN reloads \cup {Fetch} ELSE reloads
    /\ UNCHANGED <<ledger, lists, page, selected, op, faulty, ops, failures, sessions>>

RecoveryFails(c) ==
    /\ c \in recovery
    /\ Failing
    /\ recovery' = recovery \ {c}
    /\ UNCHANGED <<ledger, store, lists, page, selected, reloads, checked, op, ops, sessions>>

Next ==
    \/ Reload \/ OpenList \/ SyncFails \/ Manage \/ LoadForSplit
    \/ Execute \/ Transfer \/ Claim \/ OpAnswered \/ OpFails
    \/ \E m \in Memos : OpenNeuron(m)
    \/ \E call \in lists : SyncSnsNeurons(call)
    \/ \E r \in reloads : FetchFails(r) \/ \E certified \in BOOLEAN : NeuronFetched(r, certified)
    \/ \E c \in recovery : CheckBalance(c) \/ RecoveryCalls(c) \/ RecoveryLoads(c) \/ RecoveryFails(c)

Spec == Init /\ [][Next]_vars
-----------------------------------------------------------------------------
TypeOK ==
    /\ \A m \in Memos :
        /\ gov[m].perms \cup gov[m].others \subseteq AllPermissions
        /\ gov[m].state \in {"locked", "dissolving", "dissolved"}
        /\ gov[m].followees \subseteq Followees /\ gov[m].delay \in 0 .. MaxDelay
    /\ page \in Memos \cup {Elsewhere, ListPage} /\ Cardinality(store) <= 1
    /\ checked \subseteq Memos /\ lists \subseteq {"query", "update", "old"}
    /\ \A r \in reloads : r.call \in Requests
    /\ op.phase \in {"none", "load", "sent", "paid", "executed", "reload"}

\* The page of a neuron shows what its operations did: the answer to the last
\* reload, once it is certified, is what governance holds, however the answers
\* of earlier reloads overtake each other.
PageShowsOwnWrites ==
    (page \in Memos /\ selected.certified /\ selected.neuron.claimed /\ ~faulty
       /\ reloads = {} /\ recovery = {} /\ op.kind = "none")
    => selected.neuron = gov[page]

\* What the page offers for a neuron that it shows as it is, governance accepts.
\* One thing may be refused: a split, if the next account belongs to a neuron
\* that the user transferred to somebody else.
OffersAreAccepted ==
    (page \in Memos /\ selected.neuron = gov[page])
    => \A call \in Offered :
        \/ call.kind = "topup"
        \/ call.kind = "split" /\ NextMemo(QuerySnsNeurons(gov)) = {}
        \/ LET c == IF call.kind # "split" THEN call
                    ELSE [call EXCEPT !.arg.memo = Max(NextMemo(QuerySnsNeurons(gov)))]
           IN  Accepts(c) \/ (c.kind = "split" /\ UserHasNoPermissions(gov[c.arg.memo]))

\* A neuron that the user transferred keeps its place among the user's
\* accounts, and the recovery may even claim it, but it is never listed.
TransferredStaysHidden ==
    \A list \in store : \A m \in Memos : UserHasNoPermissions(gov[m]) => ~list[m].claimed

\* When the list page has looked at what there is, no stake that was
\* interrupted in an earlier session is without a neuron, unless a call failed
\* or an answer was old in this session, or the user transferred a neuron.
InterruptedStakesAreClaimed ==
    (/\ page = ListPage /\ store # {} /\ lists = {} /\ recovery = {} /\ op.kind = "none"
     /\ ~faulty /\ \A m \in Memos : ~UserHasNoPermissions(gov[m]))
    => \A m \in Memos : balance[m] >= MinStake => gov[m].claimed

\* A top-up that was interrupted in an earlier session is finished once the page
\* of the neuron has looked at its account.
InterruptedTopUpsAreRefreshed ==
    (/\ page \in checked /\ selected.neuron.claimed /\ reloads = {} /\ recovery = {}
     /\ op.kind = "none" /\ ~faulty)
    => gov[page].stake = balance[page]
=============================================================================
