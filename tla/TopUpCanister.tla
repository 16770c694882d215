---------------------------- MODULE TopUpCanister ----------------------------
(***************************************************************************)
(* Users top up a canister with cycles (topUpCanister in                   *)
(* frontend/src/lib/api/canisters.api.ts): the browser pays into the       *)
(* account that the cycles minting canister (CMC) has for this canister,   *)
(* then notifies the CMC and polls while it says that it is processing.    *)
(*                                                                         *)
(* A browser that is gone before its notification arrived leaves the       *)
(* payment in that account.  Whoever opens the page of the canister later  *)
(* (CanisterDetail.svelte) notifies the CMC of the most recent transaction *)
(* of the account, if that is a top-up and the account is not empty        *)
(* (notifyTopUpIfNeeded).  The page learns both from the index canister,   *)
(* which lags behind the ledger.  The backend reads the payment from the   *)
(* ledger as well, but does nothing about it.                              *)
(***************************************************************************)
EXTENDS Integers, Sequences, FiniteSets

CONSTANTS
    Payments,       \* the calls of topUpCanister for this canister
    MaxAttempts     \* DEFAULT_MAX_POLLING_ATTEMPTS

NoPayment == "none"

VARIABLES
    client,         \* where each topUpCanister is
    attempts,       \* counter of poll
    transfer,       \* its call of the ledger
    notify,         \* calls of notify_top_up: by browser and by page
    page,           \* the page: closed, waiting for the index, or for the CMC
    asked,          \* the payment that the page notified the CMC of
    synced,         \* the payments that the backend read from the ledger
    \* The ledger, its index and the CMC (external)
    log,            \* transactions of the CMC's account for the canister
    indexed,        \* how many of them the index canister knows
    cmc             \* what the CMC did with each payment

vars == <<client, attempts, transfer, notify, page, asked, synced, log, indexed, cmc>>

Callers == {"client", "page"}
Ended == {"done", "failed"}
Transaction == [kind : {"topup", "burn", "refund"}, of : Payments]

TypeOK ==
    /\ client \in [Payments -> {"idle", "transfer", "notify"} \cup Ended]
    /\ attempts \in [Payments -> 0 .. MaxAttempts]
    /\ transfer \in [Payments -> {"none", "sent", "ok"}]
    /\ notify \in [Callers -> [Payments -> {"none", "sent", "ok", "processing", "err"}]]
    /\ page \in {"closed", "index", "notify"}
    /\ asked \in Payments \cup {NoPayment}
    /\ synced \subseteq Payments
    /\ log \in Seq(Transaction)
    /\ indexed \in 0 .. Len(log)
    /\ cmc \in [Payments -> {"new", "credited", "refunded"} \cup Callers]

Init ==
    /\ client = [k \in Payments |-> "idle"]
    /\ attempts = [k \in Payments |-> 0]
    /\ transfer = [k \in Payments |-> "none"]
    /\ notify = [c \in Callers |-> [k \in Payments |-> "none"]]
    /\ page = "closed" /\ asked = NoPayment
    /\ synced = {}
    /\ log = <<>> /\ indexed = 0
    /\ cmc = [k \in Payments |-> "new"]

----------------------------------------------------------------------------
Paid(k) == \E i \in DOMAIN log : log[i] = [kind |-> "topup", of |-> k]
Settled(k) == cmc[k] \in {"credited", "refunded"}
Count(n, kinds) == Cardinality({i \in 1 .. n : log[i].kind \in kinds})

\* The balance of the account after the first n transactions
Balance(n) == Count(n, {"topup"}) - Count(n, {"burn", "refund"})

LedgerTransfers(k) ==
    /\ transfer[k] = "sent"
    /\ transfer' = [transfer EXCEPT ![k] = "ok"]
    /\ log' = Append(log, [kind |-> "topup", of |-> k])
    /\ UNCHANGED <<client, attempts, notify, page, asked, synced, indexed, cmc>>

IndexCatchesUp ==
    /\ indexed < Len(log)
    /\ indexed' = indexed + 1
    /\ UNCHANGED <<client, attempts, transfer, notify, page, asked, synced, log, cmc>>

\* A notification reaches the CMC; as for a new canister, the first one for a
\* payment starts the work.
CmcReceives(c, k) ==
    /\ notify[c][k] = "sent" /\ cmc[k] # c
    /\ \/ /\ cmc[k] = "new"
          /\ cmc' = [cmc EXCEPT ![k] = c]
          /\ UNCHANGED notify
       \/ /\ cmc[k] # "new"
          /\ notify' = [notify EXCEPT ![c][k] =
                            IF cmc[k] = "credited" THEN "ok"
                            ELSE IF cmc[k] = "refunded" THEN "err" ELSE "processing"]
          /\ UNCHANGED cmc
    /\ UNCHANGED <<client, attempts, transfer, page, asked, synced, log, indexed>>

\* The CMC burns the payment and adds the cycles, or pays it back.
CmcCompletes(k) ==
    /\ cmc[k] \in Callers
    /\ \/ /\ cmc' = [cmc EXCEPT ![k] = "credited"]
          /\ notify' = [notify EXCEPT ![cmc[k]][k] = "ok"]
          /\ log' = Append(log, [kind |-> "burn", of |-> k])
       \/ /\ cmc' = [cmc EXCEPT ![k] = "refunded"]
          /\ notify' = [notify EXCEPT ![cmc[k]][k] = "err"]
          /\ log' = Append(log, [kind |-> "refund", of |-> k])
    /\ UNCHANGED <<client, attempts, transfer, page, asked, synced, indexed>>

----------------------------------------------------------------------------
(***************************************************************************)
(* The browser: topUpCanister.                                             *)
(***************************************************************************)

Start(k) ==
    /\ client[k] = "idle"
    /\ client' = [client EXCEPT ![k] = "transfer"]
    /\ transfer' = [transfer EXCEPT ![k] = "sent"]
    /\ UNCHANGED <<attempts, notify, page, asked, synced, log, indexed, cmc>>

ClientNotifies(k) ==
    /\ client[k] = "transfer" /\ transfer[k] = "ok"
    /\ client' = [client EXCEPT ![k] = "notify"]
    /\ notify' = [notify EXCEPT !["client"][k] = "sent"]
    /\ UNCHANGED <<attempts, transfer, page, asked, synced, log, indexed, cmc>>

MayRetry(n) == n < MaxAttempts

\* pollNotifyTopUpCanister
ClientPolls(k) ==
    /\ client[k] = "notify" /\ notify["client"][k] = "processing"
    /\ attempts' = [attempts EXCEPT ![k] = @ + 1]
    /\ IF MayRetry(attempts'[k])
       THEN notify' = [notify EXCEPT !["client"][k] = "sent"] /\ UNCHANGED client
       ELSE /\ client' = [client EXCEPT ![k] = "failed"]
            /\ notify' = [notify EXCEPT !["client"][k] = "none"]
    /\ UNCHANGED <<transfer, page, asked, synced, log, indexed, cmc>>

ClientDone(k) ==
    /\ client[k] = "notify" /\ notify["client"][k] = "ok"
    /\ client' = [client EXCEPT ![k] = "done"]
    /\ notify' = [notify EXCEPT !["client"][k] = "none"]
    /\ UNCHANGED <<attempts, transfer, page, asked, synced, log, indexed, cmc>>

\* A call is answered with another error or not at all: the connection is lost or
\* the browser is closed.  A notification that was sent may be lost with it.
ClientFails(k) ==
    /\ client[k] \notin Ended \cup {"idle"}
    /\ client' = [client EXCEPT ![k] = "failed"]
    /\ \/ notify["client"][k] = "sent" /\ UNCHANGED notify
       \/ /\ ~(notify["client"][k] = "sent" /\ cmc[k] = "client")
          /\ notify' = [notify EXCEPT !["client"][k] = "none"]
    /\ UNCHANGED <<attempts, transfer, page, asked, synced, log, indexed, cmc>>

----------------------------------------------------------------------------
(***************************************************************************)
(* The page of the canister: notifyTopUpIfNeeded.                          *)
(***************************************************************************)

\* The page is opened; it asks the index once (notifyChecked).
OpenPage ==
    /\ page = "closed"
    /\ page' = "index"
    /\ UNCHANGED <<client, attempts, transfer, notify, asked, synced, log, indexed, cmc>>

\* Mutant of LatestTopUp: the oldest transaction
OldestTopUp ==
    IF indexed # 0 /\ log[1].kind = "topup" THEN log[1].of ELSE NoPayment

\* getBlockHeightFromCanisterTopUp: the payment of the most recent transaction
\* that the index knows, if that is a top-up
LatestTopUp ==
    IF indexed # 0 /\ log[indexed].kind = "topup" THEN log[indexed].of ELSE NoPayment

\* The index answered, and the page notifies the CMC if that seems necessary.
PageNotifies ==
    /\ page = "index"
    /\ IF Balance(indexed) # 0 /\ LatestTopUp # NoPayment
       THEN /\ page' = "notify"
            /\ asked' = LatestTopUp
            /\ notify' = [notify EXCEPT !["page"][LatestTopUp] = "sent"]
       ELSE page' = "closed" /\ UNCHANGED <<asked, notify>>
    /\ UNCHANGED <<client, attempts, transfer, synced, log, indexed, cmc>>

\* The CMC answered; an error is ignored.
PageDone ==
    /\ page = "notify" /\ notify["page"][asked] # "sent"
    /\ page' = "closed"
    /\ asked' = NoPayment
    /\ notify' = [notify EXCEPT !["page"][asked] = "none"]
    /\ UNCHANGED <<client, attempts, transfer, synced, log, indexed, cmc>>

----------------------------------------------------------------------------
\* The backend reads the payment from the ledger (LedgerSync).  Its memo is not
\* that of a payment for a new canister, and so it is not queued: the runner
\* never notifies the CMC of it.
BackendSyncs(k) ==
    /\ Paid(k) /\ k \notin synced
    /\ synced' = synced \cup {k}
    /\ UNCHANGED <<client, attempts, transfer, notify, page, asked, log, indexed, cmc>>

Next ==
    \/ IndexCatchesUp
    \/ OpenPage \/ PageNotifies \/ PageDone
    \/ \E k \in Payments :
          \/ LedgerTransfers(k) \/ CmcCompletes(k) \/ BackendSyncs(k)
          \/ \E c \in Callers : CmcReceives(c, k)
          \/ Start(k) \/ ClientNotifies(k) \/ ClientPolls(k) \/ ClientDone(k) \/ ClientFails(k)

\* The CMC answers.  The browsers owe us nothing.
CmcFairness ==
    \A k \in Payments : WF_vars(CmcCompletes(k)) /\ \A c \in Callers : WF_vars(CmcReceives(c, k))

\* Someone opens the page again and again, and the index keeps up.
PageFairness == WF_vars(IndexCatchesUp) /\ WF_vars(OpenPage \/ PageNotifies \/ PageDone)

\* Without the page: the backend syncs every block.
ClosedSpec ==
    Init /\ [][Next]_vars /\ CmcFairness /\ \A k \in Payments : WF_vars(BackendSyncs(k))

Spec == ClosedSpec /\ PageFairness

----------------------------------------------------------------------------
(***************************************************************************)
(* Properties.                                                             *)
(***************************************************************************)

\* A top-up that stays the most recent transaction of its account is credited or
\* given back even if the browser that paid is gone, as long as someone opens the
\* page of the canister: neither the lag of the index, nor a notification that
\* was answered with an error, nor an account that seems empty, stops that.  A
\* later transaction may hide it from notifyTopUpIfNeeded.  (What settled stays
\* settled, so it is enough that again and again nothing pends.)
NothingPends ==
    \A k \in Payments :
        Paid(k) => Settled(k) \/ \E i \in 1 .. Len(log) - 1 : log[i] = [kind |-> "topup", of |-> k]
LatestTopUpSettles == []<>NothingPends

\* "If this fails or the client loses connection nns dapp backend polls the
\* transactions and will also notify to CMC the transaction if it's pending"
\* (canisters.api.ts, line 346): a paid top-up settles although the browser is
\* gone and no page is opened.  Violated: the backend queues payments for new
\* canisters only.
PaidTopUpSettles == \A k \in Payments : Paid(k) ~> Settled(k)

=============================================================================
