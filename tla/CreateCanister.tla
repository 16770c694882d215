--------------------------- MODULE CreateCanister ---------------------------
(***************************************************************************)
(* A user creates canisters: the browser (createCanister in                *)
(* frontend/src/lib/api/canisters.api.ts) and the periodic task runner of  *)
(* the backend (rs/backend/src/periodic_tasks_runner.rs) work on the same  *)
(* payment without knowing of each other.                                  *)
(*                                                                         *)
(* The browser pays, notifies the cycles minting canister (CMC), polls     *)
(* while the CMC says that it is processing the payment, and attaches the  *)
(* canister with the user's name for it.  The runner finds the payment in  *)
(* the ledger, notifies the CMC too and attaches the canister without a    *)
(* name.  The user may run several creations at once, rename and detach    *)
(* what is already listed, or close the browser at any time; what was sent *)
(* before may still be executed.                                           *)
(*                                                                         *)
(* A payment and the canister that is created for it have the same number. *)
(* LedgerSync shows that the runner sees every payment once, and how many  *)
(* of its tasks interleave; here each payment has its own task.            *)
(***************************************************************************)
EXTENDS CanisterList

CONSTANTS
    MaxAttempts,    \* DEFAULT_MAX_POLLING_ATTEMPTS
    MaxFailures     \* bound: payments whose calls are rejected

ASSUME CreateCanisterAssumption ==
    MaxAttempts \in Nat \ {0} /\ MaxFailures \in Nat

Payments == CanisterIds

VARIABLES
    \* The browser
    client,         \* where each createCanister is
    name,           \* the name that the user gave
    attempts,       \* counter of poll
    transfer,       \* its call of the ledger
    attach,         \* its call of attach_canister
    notify,         \* calls of notify_create_canister, by caller
    \* The runner
    runner,         \* where the task of each payment is
    rejected,       \* payments whose call was rejected by the system
    \* The backend: the user's list of canisters
    list,
    \* The ledger and the CMC (external)
    paid, cmc,
    \* History: what was ever listed, and what the user changed later
    listed, renamed, detached

browser == <<client, name, attempts, transfer, attach>>
history == <<listed, renamed, detached>>
vars == <<browser, notify, runner, rejected, list, paid, cmc, history>>

Callers == {"client", "runner"}
Ended == {"done", "failed"}

TypeOK ==
    /\ client \in [Payments -> {"idle", "transfer", "notify", "attach"} \cup Ended]
    /\ name \in [Payments -> RequestNames]
    /\ attempts \in [Payments -> 0 .. MaxAttempts - 1]
    /\ transfer \in [Payments -> {"none", "sent", "ok", "err"}]
    /\ attach \in [Payments -> {"none", "sent", "Ok", "CanisterAlreadyAttached",
                       "NameAlreadyTaken", "NameTooLong", "CanisterLimitExceeded"}]
    /\ notify \in [Callers -> [Payments -> {"none", "sent", "ok", "processing", "err"}]]
    /\ runner \in [Payments -> {"queued", "calling", "done"}]
    /\ rejected \subseteq Payments
    /\ list \in Seq(NamedCanister)
    /\ paid \subseteq Payments
    /\ cmc \in [Payments -> {"new", "created", "refunded"} \cup Callers]
    /\ listed \subseteq Payments /\ renamed \subseteq Payments /\ detached \subseteq Payments

Init ==
    /\ client = [k \in Payments |-> "idle"]
    /\ name = [k \in Payments |-> EmptyName]
    /\ attempts = [k \in Payments |-> 0]
    /\ transfer = [k \in Payments |-> "none"]
    /\ attach = [k \in Payments |-> "none"]
    /\ notify = [c \in Callers |-> [k \in Payments |-> "none"]]
    /\ runner = [k \in Payments |-> "queued"]
    /\ rejected = {}
    /\ list = <<>>
    /\ paid = {} /\ cmc = [k \in Payments |-> "new"]
    /\ listed = {} /\ renamed = {} /\ detached = {}

----------------------------------------------------------------------------
(***************************************************************************)
(* The ledger and the CMC.                                                 *)
(***************************************************************************)

\* The ledger executes the transfer, or refuses it (too low a balance, say).
LedgerTransfers(k) ==
    /\ transfer[k] = "sent"
    /\ \/ transfer' = [transfer EXCEPT ![k] = "ok"] /\ paid' = paid \cup {k}
       \/ transfer' = [transfer EXCEPT ![k] = "err"] /\ UNCHANGED paid
    /\ UNCHANGED <<client, name, attempts, attach, notify, runner, rejected, list,
                   cmc, history>>

\* A notification reaches the CMC.  The first one for a payment starts the work,
\* and the CMC's state is then the caller that it works for.
CmcReceives(c, k) ==
    /\ notify[c][k] = "sent" /\ cmc[k] # c
    /\ \/ /\ cmc[k] = "new"
          /\ cmc' = [cmc EXCEPT ![k] = c]
          /\ UNCHANGED notify
       \/ /\ cmc[k] \in Callers
          /\ notify' = [notify EXCEPT ![c][k] = "processing"]
          /\ UNCHANGED cmc
       \/ /\ cmc[k] = "created"
          /\ notify' = [notify EXCEPT ![c][k] = "ok"]
          /\ UNCHANGED cmc
       \/ /\ cmc[k] = "refunded"
          /\ notify' = [notify EXCEPT ![c][k] = "err"]
          /\ UNCHANGED cmc
    /\ UNCHANGED <<browser, runner, rejected, list, paid, history>>

\* The CMC created the canister, or could not and paid back.
CmcCompletes(k) ==
    /\ cmc[k] \in Callers
    /\ \/ /\ notify' = [notify EXCEPT ![cmc[k]][k] = "ok"]
          /\ cmc' = [cmc EXCEPT ![k] = "created"]
       \/ /\ notify' = [notify EXCEPT ![cmc[k]][k] = "err"]
          /\ cmc' = [cmc EXCEPT ![k] = "refunded"]
    /\ UNCHANGED <<browser, runner, rejected, list, paid, history>>

----------------------------------------------------------------------------
(***************************************************************************)
(* The browser: createCanister.                                            *)
(***************************************************************************)

\* isNameTooLong counts characters (UTF-16 code units).
IsNameTooLong(n) == n = LongName

Start(k, n) ==
    /\ client[k] = "idle"
    /\ name' = [name EXCEPT ![k] = n]
    /\ IF IsNameTooLong(n)
       THEN client' = [client EXCEPT ![k] = "failed"] /\ UNCHANGED transfer
       ELSE /\ client' = [client EXCEPT ![k] = "transfer"]
            /\ transfer' = [transfer EXCEPT ![k] = "sent"]
    /\ UNCHANGED <<attempts, attach, notify, runner, rejected, list, paid, cmc,
                   history>>

MayRetry(n) == n < MaxAttempts

\* The transfer succeeded: pollNotifyCreateCanister calls the CMC ...
ClientNotifies(k) ==
    /\ client[k] = "transfer" /\ transfer[k] = "ok"
    /\ client' = [client EXCEPT ![k] = "notify"]
    /\ notify' = [notify EXCEPT !["client"][k] = "sent"]
    /\ UNCHANGED <<name, attempts, transfer, attach, runner, rejected, list, paid,
                   cmc, history>>

\* ... and calls it again as long as the answer is ProcessingError, up to
\* maxAttempts times.
ClientPolls(k) ==
    /\ client[k] = "notify" /\ notify["client"][k] = "processing"
    /\ IF MayRetry(attempts[k] + 1)
       THEN /\ attempts' = [attempts EXCEPT ![k] = @ + 1]
            /\ notify' = [notify EXCEPT !["client"][k] = "sent"]
            /\ UNCHANGED client
       ELSE /\ attempts' = [attempts EXCEPT ![k] = 0]
            /\ client' = [client EXCEPT ![k] = "failed"]
            /\ UNCHANGED notify
    /\ UNCHANGED <<name, transfer, attach, runner, rejected, list, paid, cmc,
                   history>>

ClientAttaches(k) ==
    /\ client[k] = "notify" /\ notify["client"][k] = "ok"
    /\ client' = [client EXCEPT ![k] = "attach"]
    /\ attach' = [attach EXCEPT ![k] = "sent"]
    /\ attempts' = [attempts EXCEPT ![k] = 0]
    /\ notify' = [notify EXCEPT !["client"][k] = "none"]
    /\ UNCHANGED <<name, transfer, runner, rejected, list, paid,
                   cmc, history>>

\* attach_canister returned: CanisterAlreadyAttachedError is ignored.
Ignored(answer) == answer \in {"Ok", "CanisterAlreadyAttached"}

ClientDone(k) ==
    /\ client[k] = "attach" /\ Ignored(attach[k])
    /\ client' = [client EXCEPT ![k] = "done"]
    /\ UNCHANGED <<name, attempts, transfer, attach, notify, runner, rejected, list,
                   paid, cmc, history>>

\* A call was answered with another error, or is not answered: the connection is
\* lost or the browser is closed.  A notification may be lost with it.
ClientFails(k) ==
    /\ client[k] \notin Ended \cup {"idle"}
    /\ client' = [client EXCEPT ![k] = "failed"]
    /\ attempts' = [attempts EXCEPT ![k] = 0]
    /\ \/ notify["client"][k] = "sent" /\ UNCHANGED notify
       \/ /\ ~(notify["client"][k] = "sent" /\ cmc[k] = "client")
          /\ notify' = [notify EXCEPT !["client"][k] = "none"]
    /\ UNCHANGED <<name, transfer, attach, runner, rejected, list,
                   paid, cmc, history>>

----------------------------------------------------------------------------
(***************************************************************************)
(* The backend: the user's requests and the runner.                        *)
(***************************************************************************)

\* The new list, and which canisters were ever in one
ListBecomes(new) ==
    /\ list' = new
    /\ listed' = listed \cup {c.id : c \in Elems(new)}

\* Mutant of AfterRefusal: the list is saved without the entry to be replaced
\* before the number of canisters is checked.
AfterRemoval(n, id) == WithoutReplaced(list, n, id)

\* A request that is refused changes a copy of the list at most.
AfterRefusal(n, id) == list

\* attach_canister receives the request of the browser.
BackendAttaches(k) ==
    /\ attach[k] = "sent"
    /\ attach' = [attach EXCEPT ![k] = AttachResponse(list, name[k], k)]
    /\ \/ /\ attach'[k] = "Ok"
          /\ \E new \in AfterAttach(list, name[k], k) : ListBecomes(new)
       \/ /\ attach'[k] # "Ok"
          /\ ListBecomes(AfterRefusal(name[k], k))
    /\ UNCHANGED <<client, name, attempts, transfer, notify, runner, rejected, paid,
                   cmc, renamed, detached>>

\* The user renames or detaches a canister in another tab.
UserRenames(id, n) ==
    /\ RenameResponse(list, n, id) = "Ok"
    /\ \E new \in AfterRename(list, n, id) : ListBecomes(new)
    /\ renamed' = renamed \cup {id}
    /\ UNCHANGED <<browser, notify, runner, rejected, paid, cmc, detached>>

UserDetaches(id) ==
    /\ Has(list, id)
    /\ ListBecomes(AfterDetach(list, id))
    /\ detached' = detached \cup {id}
    /\ UNCHANGED <<browser, notify, runner, rejected, paid, cmc, renamed>>

\* The runner takes the payment from its queue.
RunnerNotifies(k) ==
    /\ k \in paid /\ runner[k] = "queued"
    /\ runner' = [runner EXCEPT ![k] = "calling"]
    /\ notify' = [notify EXCEPT !["runner"][k] = "sent"]
    /\ UNCHANGED <<browser, rejected, list, paid, cmc, history>>

\* The system rejects the call before it reaches the CMC.
RunnerCallRejected(k) ==
    /\ notify["runner"][k] = "sent" /\ cmc[k] # "runner"
    /\ Cardinality(rejected) < MaxFailures
    /\ rejected' = rejected \cup {k}
    /\ notify' = [notify EXCEPT !["runner"][k] = "err"]
    /\ UNCHANGED <<browser, runner, list, paid, cmc, history>>

\* Mutant of RunnerNext: the payment is not queued again.
RunnerForgets(answer) == "done"

\* What becomes of the payment: it is queued again if the CMC is busy with it.
RunnerNext(answer) == IF answer = "processing" THEN "queued" ELSE "done"

\* handle_create_canister_v2 gets the answer.
RunnerFinishes(k) ==
    /\ runner[k] = "calling" /\ notify["runner"][k] # "sent"
    /\ runner' = [runner EXCEPT ![k] = RunnerNext(notify["runner"][k])]
    /\ \/ /\ notify["runner"][k] = "ok"
          /\ \E new \in AfterNewlyCreated(list, k) : ListBecomes(new)
       \/ /\ notify["runner"][k] # "ok"
          /\ UNCHANGED <<list, listed>>
    /\ UNCHANGED <<browser, notify, rejected, paid, cmc, renamed, detached>>

----------------------------------------------------------------------------
Client(k) == ClientNotifies(k) \/ ClientPolls(k) \/ ClientAttaches(k) \/ ClientDone(k)

Cmc(k) == (\E c \in Callers : CmcReceives(c, k)) \/ CmcCompletes(k)

Runner(k) == RunnerNotifies(k) \/ RunnerFinishes(k)

Next ==
    \E k \in Payments :
        \/ \E n \in RequestNames : Start(k, n) \/ UserRenames(k, n)
        \/ UserDetaches(k)
        \/ LedgerTransfers(k) \/ Cmc(k)
        \/ Client(k) \/ ClientFails(k) \/ BackendAttaches(k)
        \/ Runner(k) \/ RunnerCallRejected(k)

Spec == Init /\ [][Next]_vars

\* The CMC answers, and the runner works through its queue (LedgerSync).  The
\* browser and its user owe us nothing.
FairSpec ==
    /\ Spec
    /\ \A k \in Payments :
          /\ \A c \in Callers : WF_vars(CmcReceives(c, k))
          /\ WF_vars(CmcCompletes(k)) /\ WF_vars(Runner(k))

----------------------------------------------------------------------------
(***************************************************************************)
(* Properties.                                                             *)
(***************************************************************************)

\* When createCanister reports success, the canister is in the user's list with
\* the name that the user gave, whatever the runner did before or does later,
\* until the user renames or detaches it: in particular an ignored
\* CanisterAlreadyAttachedError never hides a lost name.
SuccessIsListed ==
    \A k \in Payments : client[k] = "done" /\ k \notin renamed \cup detached =>
        [name |-> name[k], id |-> k] \in Elems(list)

\* Once a canister is in the user's list, it stays there until the user detaches
\* it: no request that is refused, no entry that replaces the runner's, no list
\* that the runner made longer than MaxCanisters loses it.
NeverForgotten == \A k \in listed \ detached : Has(list, k)

\* A payment leads to a canister in the user's list or to a refund, even if the
\* browser is gone and the CMC was busy with the payment for the browser when the
\* runner asked; unless the system rejected the runner's call for this payment.
\* (Each of the three is for good, so it is enough that again and again every
\* payment is one of them.)
NonePending == \A k \in paid : k \in listed \/ cmc[k] = "refunded" \/ k \in rejected
PaidIsListedOrRejected == []<>NonePending

\* "Worst case, the NNS Dapp canister periodic runner will catch the transaction
\* and attach the canister without a name" (canisters.api.ts, line 226), also "if
\* this fails or the client loses connection" (line 255).  Violated:
\* handle_create_canister_v2 does not queue the payment again when its call was
\* rejected.
PaidIsListed ==
    \A k \in Payments : (k \in paid) ~> (k \in listed \/ cmc[k] = "refunded")

\* "Failing fast here is specially important. Otherwise the transaction will take
\* place and attaching the canister will fail" (canisters.api.ts, line 224): once
\* the user has paid, the name is not refused as too long.  Violated: the browser
\* counts characters, the backend bytes.
LongNameFailsFast == \A k \in Payments : attach[k] # "NameTooLong"

=============================================================================
