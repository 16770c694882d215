----------------------------- MODULE LedgerSync -----------------------------
(***************************************************************************)
(* The background work of the nns-dapp backend canister                    *)
(* (rs/backend/src/periodic_tasks_runner.rs and ledger_sync.rs).           *)
(*                                                                         *)
(* Every heartbeat spawns run_periodic_tasks: it copies new blocks of the  *)
(* ICP ledger into the accounts store, which queues a payment for a new    *)
(* canister when it sees one, then takes one payment from that queue,      *)
(* notifies the cycles minting canister (CMC) of it, and attaches the      *)
(* canister that the CMC created to the user's account.                    *)
(*                                                                         *)
(* A canister runs one message at a time, so the code between two awaits   *)
(* is one atomic step.  A heartbeat does not wait for the task of an       *)
(* earlier one: any number of tasks (here the set Tasks) are suspended at  *)
(* an await at the same time, each with what it read before that await.    *)
(* A call is answered in two steps: the callee computes the answer, and    *)
(* later the answer is delivered, in any order with respect to others.     *)
(*                                                                         *)
(* A block of the ledger is [kind, principal]:                             *)
(*   "create"  a transfer, with the memo for creating a canister, from an  *)
(*             account of the principal to the CMC's account for it        *)
(*   "topup"   a transfer that older versions of the backend also queued   *)
(*   "other"   anything else (burn, mint, approve, other transfers)        *)
(*   "bad"     a block that Block::decode cannot decode                    *)
(* AccountsStore.tla classifies transfers in full detail.                  *)
(***************************************************************************)
EXTENDS Integers, Sequences, FiniteSets

CONSTANTS
    Tasks,          \* the tasks that may be suspended at the same time
    Principals,     \* the users and the hardware wallets
    MaxBlocks,      \* bound: blocks of the ledger
    MaxArchives,    \* bound: archive canisters of the ledger
    BatchSize,      \* MAX_BLOCK_PER_ITERATION
    MaxExceptional, \* MAX_EXCEPTIONAL_TRANSACTIONS
    MaxFailures     \* bound: calls that fail or are answered short

ASSUME ConstantsAssumption ==
    /\ IsFiniteSet(Tasks)
    /\ MaxBlocks \in Nat \ {0}
    /\ MaxArchives \in Nat
    /\ BatchSize \in Nat \ {0}
    /\ MaxExceptional \in Nat
    /\ MaxFailures \in Nat

None == -1          \* Option::None of a block height

Heights == 0 .. MaxBlocks - 1
Kinds == {"create", "topup", "other", "bad"}
Blocks == [kind : Kinds, principal : Principals]
Entries == [from : Heights, to : Heights]   \* an ArchiveIndexEntry

VARIABLES
    \* The ledger and its archives (external)
    ledger,         \* the blocks; height h is ledger[h + 1]
    archives,       \* the archive index; archive i holds from .. to
    \* The CMC (external): what became of the payment in each block
    cmc,
    failures,       \* failed calls so far
    \* The accounts store of the backend
    registered,     \* principals with an account of their own
    wallets,        \* principals that an account registered as hardware wallet
    synced,         \* block_height_synced_up_to
    queue,          \* multi_part_transactions_processor: heights of payments
    attached,       \* canisters of each account; a canister is named by the
                    \* height of the payment that it was created for
    exceptional,    \* exceptional_transactions, newest first
    \* The suspended tasks: where each one waits and its local variables
    pc, reply,      \* the await, and the answer under way to it
    local,          \* see Locals
    \* History, not in the code
    base,           \* the height that the first sync started from
    times,          \* how often each block was applied to the accounts store
    paid,           \* payments that were ever queued
    settled         \* payments that the backend is done with

store == <<registered, wallets, synced, queue, attached, exceptional>>
external == <<ledger, archives, cmc, failures>>
history == <<base, times, paid, settled>>
vars == <<external, store, pc, reply, local, history>>

----------------------------------------------------------------------------
Tip == Len(ledger) - 1
Block(h) == ledger[h + 1]

\* The first height that the ledger canister itself still holds.
FirstLocal == IF archives = <<>> THEN 0 ELSE archives[Len(archives)].to + 1

SyncAwaits == {"tip", "index", "blocks"}
Awaits == SyncAwaits \cup {"notify"}
Replies == {"none", "ok", "processing", "err"}
CmcStates == {"new", "processing", "created", "refunded"}

\* The local variables of a task; each one is dead once it was used.
Locals == [seen : Heights \cup {None},  \* block_height_synced_up_to, as read before
                                        \* the first await
           tip : Heights,               \* tip_of_chain
           entries : Seq(Entries),      \* archive_index_entries
           range : [canister : Nat,     \* whom to ask (0 is the ledger),
                    start : Heights,    \* from which height,
                    count : 0 .. MaxBlocks],    \* for how many blocks
           got : 0 .. MaxBlocks,        \* length of the answer of get_blocks
           item : Heights]              \* the payment taken from the queue

NoLocals == [seen |-> None, tip |-> 0, entries |-> <<>>,
             range |-> [canister |-> 0, start |-> 0, count |-> 0],
             got |-> 0, item |-> 0]

TypeOK ==
    /\ ledger \in Seq(Blocks) /\ Len(ledger) \in 1 .. MaxBlocks
    /\ archives \in Seq(Entries)
    /\ cmc \in [Heights -> CmcStates]
    /\ failures \in 0 .. MaxFailures
    /\ registered \subseteq Principals /\ wallets \subseteq Principals
    /\ synced \in Heights \cup {None}
    /\ queue \in Seq(Heights)
    /\ attached \in [Principals -> SUBSET Heights]
    /\ exceptional \in Seq(Heights) /\ Len(exceptional) <= MaxExceptional
    /\ pc \in [Tasks -> Awaits \cup {"idle"}]
    /\ reply \in [Tasks -> Replies]
    /\ local \in [Tasks -> Locals]
    /\ base \in Heights \cup {None}
    /\ times \in [Heights -> Nat]
    /\ paid \subseteq Heights /\ settled \subseteq Heights

\* A canister that was just installed, or one that was upgraded from a version
\* whose queue could still hold a top-up.
Init ==
    /\ ledger \in {<<b>> : b \in [kind : {"other", "topup"}, principal : Principals]}
    /\ archives = <<>>
    /\ cmc = [h \in Heights |-> "new"]
    /\ failures = 0
    /\ registered = {} /\ wallets = {}
    /\ \/ synced = None /\ queue = <<>>
       \/ synced = 0 /\ queue = IF Block(0).kind = "topup" THEN <<0>> ELSE <<>>
    /\ attached = [p \in Principals |-> {}]
    /\ exceptional = <<>>
    /\ pc = [t \in Tasks |-> "idle"]
    /\ reply = [t \in Tasks |-> "none"]
    /\ local = [t \in Tasks |-> NoLocals]
    /\ base = synced
    /\ times = [h \in Heights |-> 0]
    /\ paid = {queue[i] : i \in DOMAIN queue}
    /\ settled = {}

----------------------------------------------------------------------------
(***************************************************************************)
(* The environment: users, the ledger, the CMC.                            *)
(***************************************************************************)

\* add_account
AddAccount(p) ==
    /\ p \notin registered
    /\ registered' = registered \cup {p}
    /\ UNCHANGED <<external, wallets, synced, queue, attached, exceptional,
                   pc, reply, local, history>>

\* register_hardware_wallet, by any user that has an account, be it one of
\* Principals or not
RegisterHardwareWallet(p) ==
    /\ p \notin wallets
    /\ wallets' = wallets \cup {p}
    /\ UNCHANGED <<external, registered, synced, queue, attached, exceptional,
                   pc, reply, local, history>>

\* A block is added to the ledger.
AddBlock(b) ==
    /\ Len(ledger) < MaxBlocks
    /\ ledger' = Append(ledger, b)
    /\ UNCHANGED <<archives, cmc, failures, store, pc, reply, local, history>>

\* The ledger moves its blocks up to h to its last archive or to a new one.
ArchiveBlocks(h) ==
    /\ h \in FirstLocal .. Tip - 1
    /\ \/ /\ Len(archives) < MaxArchives
          /\ archives' = Append(archives, [from |-> FirstLocal, to |-> h])
       \/ /\ archives # <<>>
          /\ archives' = [archives EXCEPT ![Len(archives)].to = h]
    /\ UNCHANGED <<ledger, cmc, failures, store, pc, reply, local, history>>

\* The user's browser notifies the CMC first, which creates the canister.
ClientNotify(h) ==
    /\ h <= Tip /\ Block(h).kind = "create" /\ cmc[h] = "new"
    /\ cmc' = [cmc EXCEPT ![h] = "processing"]
    /\ UNCHANGED <<ledger, archives, failures, store, pc, reply, local, history>>

CmcComplete(h) ==
    /\ cmc[h] = "processing"
    /\ cmc' = [cmc EXCEPT ![h] = "created"]
    /\ UNCHANGED <<ledger, archives, failures, store, pc, reply, local, history>>

\* Any call can be rejected by the system.
CallFails(t) ==
    /\ pc[t] \in Awaits /\ reply[t] = "none"
    /\ failures < MaxFailures
    /\ failures' = failures + 1
    /\ reply' = [reply EXCEPT ![t] = "err"]
    /\ UNCHANGED <<ledger, archives, cmc, store, pc, local, history>>

AnswerTip(t) ==
    /\ pc[t] = "tip" /\ reply[t] = "none"
    /\ local' = [local EXCEPT ![t].tip = Tip]
    /\ reply' = [reply EXCEPT ![t] = "ok"]
    /\ UNCHANGED <<external, store, pc, history>>

AnswerIndex(t) ==
    /\ pc[t] = "index" /\ reply[t] = "none"
    /\ local' = [local EXCEPT ![t].entries = archives]
    /\ reply' = [reply EXCEPT ![t] = "ok"]
    /\ UNCHANGED <<external, store, pc, history>>

\* The ledger refuses a range that it archived since the task read the index.
\* An answer may be short, or have no content at all.
AnswerBlocks(t) ==
    /\ pc[t] = "blocks" /\ reply[t] = "none"
    /\ LET asked == local[t].range
       IN  \/ /\ asked.canister = 0 /\ asked.start < FirstLocal
              /\ reply' = [reply EXCEPT ![t] = "err"]
              /\ UNCHANGED <<failures, local>>
           \/ /\ ~(asked.canister = 0 /\ asked.start < FirstLocal)
              /\ reply' = [reply EXCEPT ![t] = "ok"]
              /\ \E n \in 0 .. asked.count :
                    /\ local' = [local EXCEPT ![t].got = n]
                    /\ n < asked.count => failures < MaxFailures
                    /\ failures' = IF n < asked.count THEN failures + 1 ELSE failures
    /\ UNCHANGED <<ledger, archives, cmc, store, pc, history>>

\* notify_create_canister is idempotent per block: the first call creates the
\* canister, calls meanwhile are told "processing", later ones get its id again.
AnswerNotify(t) ==
    /\ pc[t] = "notify" /\ reply[t] = "none"
    /\ \/ /\ cmc[local[t].item] \in {"new", "created"}
          /\ cmc' = [cmc EXCEPT ![local[t].item] = "created"]
          /\ reply' = [reply EXCEPT ![t] = "ok"]
          /\ UNCHANGED failures
       \/ /\ cmc[local[t].item] = "processing"
          /\ reply' = [reply EXCEPT ![t] = "processing"]
          /\ UNCHANGED <<cmc, failures>>
       \/ /\ cmc[local[t].item] = "new" /\ failures < MaxFailures
          /\ cmc' = [cmc EXCEPT ![local[t].item] = "refunded"]
          /\ failures' = failures + 1
          /\ reply' = [reply EXCEPT ![t] = "err"]
       \/ /\ cmc[local[t].item] = "refunded"
          /\ reply' = [reply EXCEPT ![t] = "err"]
          /\ UNCHANGED <<cmc, failures>>
    /\ UNCHANGED <<ledger, archives, store, pc, local, history>>

----------------------------------------------------------------------------
(***************************************************************************)
(* The code of the backend.                                                *)
(***************************************************************************)

\* Mutant of Ends: the last block of an archive is looked for in the ledger.
EndsEarly(e, from) == e.to <= from

\* determine_canister_for_blocks: the archives are scanned from the last one;
\* one that ends before `from` ends the scan, one that starts after it is
\* skipped, and the first other one is asked.  Otherwise the ledger is.
Ends(e, from) == e.to < from
Skipped(e, from) == ~Ends(e, from) /\ e.from > from

DetermineCanisterForBlocks(from, tipOfChain, es) ==
    LET hits == {i \in DOMAIN es : /\ ~Ends(es[i], from) /\ ~Skipped(es[i], from)
                                   /\ \A j \in DOMAIN es : j > i => Skipped(es[j], from)}
    IN  IF hits = {}
        THEN [canister |-> 0, start |-> from, end |-> tipOfChain]
        ELSE LET i == CHOOSE i \in hits : TRUE
             IN  [canister |-> i,
                  start |-> IF from >= es[i].from THEN from ELSE es[i].from,
                  end |-> IF tipOfChain <= es[i].to THEN tipOfChain ELSE es[i].to]

\* The range that get_blocks asks for: at most BatchSize blocks.
BlocksToGet(from, tipOfChain, es) ==
    LET r == DetermineCanisterForBlocks(from, tipOfChain, es)
        n == r.end - r.start + 1
    IN  [canister |-> r.canister, start |-> r.start,
         count |-> IF n <= BatchSize THEN n ELSE BatchSize]

\* The sequences that list the heights in the finite set S in order (one).
InOrder(S) ==
    {s \in [1 .. Cardinality(S) -> S] :
        /\ \A i, j \in DOMAIN s : i < j => s[i] < s[j]
        /\ \A h \in S : \E i \in DOMAIN s : s[i] = h}

\* The store has an account for the payer and knows its principal.
KnownPayer(p) == p \in registered \cup wallets

\* process_transaction_type queues the payments for new canisters.
IsPayment(h) == Block(h).kind = "create" /\ KnownPayer(Block(h).principal)

\* record_exceptional_transaction_id for every height of s in turn
Recorded(s, log) ==
    LET full == [i \in 1 .. Len(s) |-> s[Len(s) + 1 - i]] \o log
    IN  SubSeq(full, 1, IF Len(full) <= MaxExceptional THEN Len(full) ELSE MaxExceptional)

\* The heartbeat starts a task.  sync_transactions takes LOCK in the condition
\* of an `if`, where its guard is a temporary that is dropped before the body
\* runs: try_lock succeeds for every task and no task holds the lock.
Heartbeat(t) ==
    /\ pc[t] = "idle"
    /\ local' = [local EXCEPT ![t].seen = synced]
    /\ pc' = [pc EXCEPT ![t] = "tip"]
    /\ UNCHANGED <<external, store, reply, history>>

\* The end of the sync, whatever its result: run_periodic_tasks goes on with
\* the payment at the front of the queue q (the queue as the sync leaves it).
TakeNext(t, q) ==
    \/ /\ q = <<>>
       /\ queue' = q
       /\ pc' = [pc EXCEPT ![t] = "idle"]
       /\ local' = [local EXCEPT ![t] = NoLocals]
       /\ UNCHANGED settled
    \/ /\ q # <<>> /\ Block(Head(q)).kind = "create"   \* CreateCanisterV2
       /\ queue' = Tail(q)
       /\ pc' = [pc EXCEPT ![t] = "notify"]
       /\ local' = [local EXCEPT ![t] = [NoLocals EXCEPT !.item = Head(q)]]
       /\ UNCHANGED settled
    \/ /\ q # <<>> /\ Block(Head(q)).kind # "create"   \* TopUpCanisterV2
       /\ queue' = Tail(q)
       /\ pc' = [pc EXCEPT ![t] = "idle"]
       /\ local' = [local EXCEPT ![t] = NoLocals]
       /\ settled' = settled \cup {Head(q)}

\* A call of the sync failed: sync_transactions_within_lock returns the error.
SyncCallFailed(t) ==
    /\ pc[t] \in SyncAwaits /\ reply[t] = "err"
    /\ reply' = [reply EXCEPT ![t] = "none"]
    /\ TakeNext(t, queue)
    /\ UNCHANGED <<external, registered, wallets, synced, attached, exceptional,
                   base, times, paid>>

\* tip_of_chain returned, and this task saw that no sync had happened yet.
FirstSync(t) ==
    /\ pc[t] = "tip" /\ reply[t] = "ok" /\ local[t].seen = None
    /\ reply' = [reply EXCEPT ![t] = "none"]
    /\ IF synced = None
       THEN /\ synced' = local[t].tip
            /\ base' = local[t].tip
            /\ TakeNext(t, queue)
       ELSE \* init_block_height_synced_up_to panics: the message is rolled
            \* back and the task is gone
            /\ pc' = [pc EXCEPT ![t] = "idle"]
            /\ local' = [local EXCEPT ![t] = NoLocals]
            /\ UNCHANGED <<synced, base, queue, settled>>
    /\ UNCHANGED <<external, registered, wallets, attached, exceptional,
                   times, paid>>

\* tip_of_chain returned: there are no new blocks.
NothingNew(t) ==
    /\ pc[t] = "tip" /\ reply[t] = "ok" /\ local[t].seen # None
    /\ local[t].tip < local[t].seen + 1
    /\ reply' = [reply EXCEPT ![t] = "none"]
    /\ TakeNext(t, queue)
    /\ UNCHANGED <<external, registered, wallets, synced, attached, exceptional,
                   base, times, paid>>

\* tip_of_chain returned: get_blocks asks for the archive index.
AskIndex(t) ==
    /\ pc[t] = "tip" /\ reply[t] = "ok" /\ local[t].seen # None
    /\ local[t].tip >= local[t].seen + 1
    /\ pc' = [pc EXCEPT ![t] = "index"]
    /\ reply' = [reply EXCEPT ![t] = "none"]
    /\ UNCHANGED <<external, store, local, history>>

\* get_archive_index returned: get_blocks asks for the blocks.
AskBlocks(t) ==
    /\ pc[t] = "index" /\ reply[t] = "ok"
    /\ local' = [local EXCEPT ![t] = [NoLocals EXCEPT !.range =
                    BlocksToGet(local[t].seen + 1, local[t].tip, local[t].entries)]]
    /\ pc' = [pc EXCEPT ![t] = "blocks"]
    /\ reply' = [reply EXCEPT ![t] = "none"]
    /\ UNCHANGED <<external, store, history>>

\* Mutants of Accepts: no check; the last height that was synced, not the next.
AcceptsAny(from) == TRUE
AcceptsLast(from) == synced # None => from = synced

\* maybe_process_transaction checks each height against synced + 1, if there is
\* one.  The heights are consecutive: the first one is refused or none is.
Accepts(from) == synced # None => from = synced + 1

\* The blocks returned: the ones that cannot be decoded are recorded, then all
\* are applied to the accounts store, or none if another task was faster.
ApplyBlocks(t) ==
    /\ pc[t] = "blocks" /\ reply[t] = "ok"
    /\ reply' = [reply EXCEPT ![t] = "none"]
    /\ LET first == local[t].range.start
           new == first .. first + local[t].got - 1
       IN /\ \E bad \in InOrder({h \in new : Block(h).kind = "bad"}) :
                exceptional' = Recorded(bad, exceptional)
          /\ IF new # {} /\ Accepts(first)
             THEN /\ synced' = first + local[t].got - 1
                  /\ times' = [h \in Heights |-> IF h \in new THEN times[h] + 1 ELSE times[h]]
                  /\ paid' = paid \cup {h \in new : IsPayment(h)}
                  /\ \E payments \in InOrder({h \in new : IsPayment(h)}) :
                        TakeNext(t, queue \o payments)
             ELSE /\ TakeNext(t, queue)
                  /\ UNCHANGED <<synced, times, paid>>
    /\ UNCHANGED <<external, registered, wallets, attached, base>>

\* Mutant of Attach: an account that does not exist gets a list of canisters.
AttachToAnyone(p, h) == attached' = [attached EXCEPT ![p] = @ \cup {h}]

\* attach_newly_created_canister, when the account exists
Attach(p, h) ==
    attached' = IF p \in registered
                THEN [attached EXCEPT ![p] = @ \cup {h}]
                ELSE attached

\* Mutant of Requeued: a payment that the CMC is busy with is forgotten.
Forgotten(h) == queue

\* enqueue_multi_part_transaction
Requeued(h) == Append(queue, h)

\* handle_create_canister_v2, when notify_create_canister returns
NotifyDone(t) ==
    /\ pc[t] = "notify" /\ reply[t] # "none"
    /\ pc' = [pc EXCEPT ![t] = "idle"]
    /\ local' = [local EXCEPT ![t] = NoLocals]
    /\ reply' = [reply EXCEPT ![t] = "none"]
    /\ \/ /\ reply[t] = "ok"
          /\ Attach(Block(local[t].item).principal, local[t].item)
          /\ settled' = settled \cup {local[t].item}
          /\ UNCHANGED queue
       \/ /\ reply[t] = "processing"
          /\ queue' = Requeued(local[t].item)
          /\ UNCHANGED <<attached, settled>>
       \/ /\ reply[t] = "err"
          /\ settled' = settled \cup {local[t].item}
          /\ UNCHANGED <<queue, attached>>
    /\ UNCHANGED <<external, registered, wallets, synced, exceptional,
                   base, times, paid>>

\* An upgrade.  The canister is stopped first, so that no task is suspended.
\* AccountsStore::encode saves the store; the performance counters are not
\* saved and start again.
Upgrade ==
    /\ \A t \in Tasks : pc[t] = "idle"
    /\ exceptional' = <<>>
    /\ UNCHANGED <<external, registered, wallets, synced, queue, attached,
                   pc, reply, local, history>>

----------------------------------------------------------------------------
Answer(t) == AnswerTip(t) \/ AnswerIndex(t) \/ AnswerBlocks(t) \/ AnswerNotify(t)

Deliver(t) ==
    \/ SyncCallFailed(t) \/ FirstSync(t) \/ NothingNew(t) \/ AskIndex(t)
    \/ AskBlocks(t) \/ ApplyBlocks(t) \/ NotifyDone(t)

Next ==
    \/ \E p \in Principals : AddAccount(p) \/ RegisterHardwareWallet(p)
    \/ \E b \in Blocks : AddBlock(b)
    \/ \E h \in Heights : ArchiveBlocks(h) \/ ClientNotify(h) \/ CmcComplete(h)
    \/ \E t \in Tasks : Heartbeat(t) \/ CallFails(t) \/ Answer(t) \/ Deliver(t)
    \/ Upgrade

Spec == Init /\ [][Next]_vars

\* The system runs the heartbeat again and again, answers every call and
\* delivers every answer; the CMC completes what it started.  Calls fail at
\* most MaxFailures times.  Nothing else is fair.
Fairness ==
    /\ \A t \in Tasks : WF_vars(Heartbeat(t)) /\ WF_vars(Answer(t)) /\ WF_vars(Deliver(t))
    /\ \A h \in Heights : WF_vars(CmcComplete(h))

FairSpec == Spec /\ Fairness

----------------------------------------------------------------------------
(***************************************************************************)
(* Properties.                                                             *)
(***************************************************************************)

\* However many tasks sync at the same time, from whatever stale heights, every
\* block after the one that the first sync started from is applied to the
\* accounts store exactly once, and none is applied beyond synced: the height
\* check of maybe_process_transaction makes up for the lock that is not held.
ExactlyOnce ==
    \A h \in Heights : times[h] = IF base < h /\ h <= synced THEN 1 ELSE 0

Elems(s) == {s[i] : i \in DOMAIN s}
Distinct(s) == \A i, j \in DOMAIN s : s[i] = s[j] => i = j

InFlight == {local[t].item : t \in {u \in Tasks : pc[u] = "notify"}}

\* A payment that was queued is at every later time in exactly one place: once
\* in the queue, or with one task that notifies the CMC of it, or settled.  None
\* is lost, notified by two tasks at once, or queued again once it is settled,
\* across failed calls, panics, "processing" answers and upgrades.
PaymentsConserved ==
    /\ paid = Elems(queue) \cup InFlight \cup settled
    /\ Elems(queue) \cap InFlight = {}
    /\ (Elems(queue) \cup InFlight) \cap settled = {}
    /\ Distinct(queue)
    /\ \A t, u \in Tasks :
          pc[t] = "notify" /\ pc[u] = "notify" /\ local[t].item = local[u].item => t = u

\* The backend attaches a canister only if its payment was queued, the CMC
\* created the canister, and the payment is settled: an answer of the CMC that
\* is not Ok never leads to an entry in the user's list of canisters.
AttachedWasPaid ==
    \A p \in Principals : \A h \in attached[p] :
        /\ h \in paid \cap settled /\ cmc[h] = "created"
        /\ Block(h).principal = p /\ p \in registered

\* The answer to get_archive_index leads to a request that its receiver can
\* serve: at least one and at most BatchSize blocks, from the next height the
\* task needs, all of them held by the canister that is asked (according to
\* that answer), none beyond the tip of the chain that the task read, and no
\* fewer than these limits allow.
AsksHolder ==
    [][\A t \in Tasks : pc[t] = "index" /\ pc'[t] = "blocks" =>
        LET r == local'[t].range
            es == local[t].entries
            last == r.start + r.count - 1
        IN  /\ r.count \in 1 .. BatchSize
            /\ r.start = local[t].seen + 1 /\ last <= local[t].tip
            /\ IF r.canister = 0
               THEN \A i \in DOMAIN es : es[i].to < r.start
               ELSE es[r.canister].from <= r.start /\ last <= es[r.canister].to
            /\ \/ r.count = BatchSize \/ last = local[t].tip
               \/ r.canister # 0 /\ last = es[r.canister].to]_vars

\* The synced height never goes back, the first sync happens once, and a
\* settled payment stays settled: no stale task undoes what another one did.
ProgressIsKept ==
    [][/\ synced' >= synced
       /\ base # None => base' = base
       /\ settled \subseteq settled']_vars

\* Once synced at all, every block of the ledger is eventually applied: however
\* the ledger grows, the accounts store is level with it again and again.
Level == synced # None => \A h \in Heights : h < Len(ledger) => h <= synced
EveryBlockSynced == []<>Level

\* Every payment that was queued is eventually settled (again and again none is
\* pending; payments are bounded and stay settled), even when the CMC is
\* busy with it on behalf of the user's browser and the payment has to go
\* through the queue again.
EveryPaymentSettled == []<>(paid \subseteq settled)

----------------------------------------------------------------------------
(***************************************************************************)
(* The inductive invariant behind the proofs in LedgerSyncProofs.          *)
(***************************************************************************)

\* The heights the backend works with are heights of blocks that exist, and
\* payments are blocks that were applied.
HeightsOK ==
    /\ synced <= Tip
    /\ base <= synced
    /\ base = None <=> synced = None
    /\ \A h \in paid : h <= synced

\* What a suspended task knows about the blocks it is after.
TaskOK(t) ==
    /\ local[t].tip <= Tip
    /\ local[t].seen # None \/ pc[t] = "blocks" => synced # None
    /\ pc[t] = "index" => local[t].seen # None /\ local[t].seen < local[t].tip
    /\ pc[t] = "blocks" =>
          /\ local[t].range.start + local[t].range.count <= Tip + 1
          /\ local[t].got <= local[t].range.count
    /\ pc[t] = "notify" =>
          /\ local[t].item \in paid
          /\ reply[t] = "ok" => cmc[local[t].item] = "created"

IndInv ==
    /\ TypeOK
    /\ HeightsOK
    /\ \A t \in Tasks : TaskOK(t)
    /\ ExactlyOnce
    /\ PaymentsConserved
    /\ AttachedWasPaid

\* The archives lie side by side, in order, from the first block on.
InARow(es) ==
    /\ \A i \in DOMAIN es : /\ es[i].from <= es[i].to
                            /\ es[i].from = IF i = 1 THEN 0 ELSE es[i - 1].to + 1
    /\ \A i, j \in DOMAIN es : i < j => es[i].to < es[j].from

\* So does the index that a task has read, however old it is.  This is kept by
\* every step on its own, and only AsksHolder depends on it.
ArchivesInv ==
    /\ TypeOK
    /\ InARow(archives)
    /\ \A t \in Tasks : InARow(local[t].entries)

----------------------------------------------------------------------------
(***************************************************************************)
(* What comments in the code say and the code does not do.                 *)
(***************************************************************************)

\* "Ensure this process only runs once at a time" (ledger_sync.rs, line 21).
\* Violated: the guard of LOCK is dropped before the sync starts.
SyncRunsOnceAtATime ==
    \A t, u \in Tasks : pc[t] \in SyncAwaits /\ pc[u] \in SyncAwaits => t = u

\* "We skip the checks here since in this scenario we must store the canister
\* otherwise the user won't be able to retrieve its Id" (accounts_store.rs, line
\* 730): when the CMC answers the backend with a canister, it is attached.
\* Violated: a hardware wallet need not have an account of its own.
CreatedCanisterIsStored ==
    [][\A t \in Tasks : pc[t] = "notify" /\ reply[t] = "ok" /\ pc'[t] = "idle" =>
        \E p \in Principals : local[t].item \in attached'[p]]_vars

=============================================================================
