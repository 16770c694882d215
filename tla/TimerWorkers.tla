---------------------------- MODULE TimerWorkers ----------------------------
(***************************************************************************)
(* A web worker of a page (workers/*.worker.ts over worker-utils/timer.-   *)
(* worker-utils.ts): it looks at an account, a canister or the metrics     *)
(* again and again while the page is open.  Each page makes a worker of    *)
(* its own, starts it once and stops it when it is left.                   *)
(*                                                                         *)
(* What is observed is abstracted to a number that grows: the id of the    *)
(* last transaction, which also stands for the balance and the cycles.     *)
(***************************************************************************)
EXTENDS Naturals, FiniteSets, FiniteSetsExt

CONSTANTS
    Kinds,        \* workers to check, of WorkerKinds
    Slots,        \* places for jobs that run at the same time
    MaxChain,     \* bound on the transactions
    PageLimit,    \* DEFAULT_INDEX_TRANSACTION_PAGE_LIMIT
    MaxFailures   \* bound on failing jobs

WorkerKinds == {"balances", "transactions", "cycles", "metrics"}

VARIABLES
    kind,      \* which worker this is
    chain,     \* what is observed
    page,      \* "none", "opening" while the worker is created, "open", "left"
    starting,  \* start(): "none", "created", "identity", "first", "done"
    timer,     \* this.timer is set
    status,    \* timerStatus, or syncInProgress of the metrics
    jobs,      \* the jobs that run
    store,     \* worker store: what was emitted last, 0 if nothing
    shown,     \* transactions or values that the page got
    failures

vars == <<kind, chain, page, starting, timer, status, jobs, store, shown, failures>>

NoJob == [phase |-> "none", state |-> 0, first |-> FALSE, ids |-> {}]

Init ==
    /\ kind \in Kinds /\ chain = 1
    /\ page = "none" /\ starting = "none" /\ timer = FALSE /\ status = "idle"
    /\ jobs = [s \in Slots |-> NoJob]
    /\ store = 0 /\ shown = {} /\ failures = 0

Running == {s \in Slots : jobs[s].phase # "none"}
-----------------------------------------------------------------------------
\* A transaction is added to the index of the account.
ChainGrows ==
    /\ chain < MaxChain
    /\ chain' = chain + 1
    /\ UNCHANGED <<kind, page, starting, timer, status, jobs, store, shown, failures>>

\* initWorker: the page opens and creates its worker.
Mount ==
    /\ page = "none"
    /\ page' = "opening" /\ starting' = "created"
    /\ UNCHANGED <<kind, chain, timer, status, jobs, store, shown, failures>>

\* The worker exists: the page asks it to start, even if it was left meanwhile.
StartTimer ==
    /\ starting = "created"
    /\ starting' = "identity"
    /\ page' = IF page = "opening" THEN "open" ELSE page
    /\ UNCHANGED <<kind, chain, timer, status, jobs, store, shown, failures>>

\* onDestroy: a worker that exists is stopped, and its store reset.
Destroy ==
    /\ page \in {"opening", "open"}
    /\ page' = "left"
    /\ IF page = "open"
       THEN /\ timer' = FALSE /\ store' = 0
            /\ status' = IF kind = "metrics" THEN status ELSE "idle"
       ELSE UNCHANGED <<timer, store, status>>
    /\ UNCHANGED <<kind, chain, starting, jobs, shown, failures>>

\* executeJob: nothing is done while a job is in progress.
MayExecute == status = "idle"

Execute(first) ==
    \E s \in Slots \ Running :
        /\ jobs' = [jobs EXCEPT ![s] = [NoJob EXCEPT !.phase = "query", !.state = store, !.first = first]]
        /\ status' = "in_progress"

\* start goes on: with an identity (the metrics need none) the first job runs.
LoadIdentity ==
    /\ starting = "identity"
    /\ \/ /\ kind # "metrics"
          /\ starting' = "none"
          /\ UNCHANGED <<jobs, status>>
       \/ /\ starting' = "first"
          /\ Execute(TRUE)
    /\ UNCHANGED <<kind, chain, page, timer, store, shown, failures>>

\* setInterval fires.
Tick ==
    /\ timer
    /\ IF MayExecute THEN Execute(FALSE) ELSE UNCHANGED <<jobs, status>>
    /\ UNCHANGED <<kind, chain, page, starting, timer, store, shown, failures>>
-----------------------------------------------------------------------------
\* Mutant: the first message is lost.
EmittedOnChange(new) == IF store = 0 THEN shown ELSE IF kind = "transactions" THEN shown \cup new ELSE new

\* postMsg: a message of a worker that was stopped is dropped (not that of the
\* metrics), and a page that left no longer listens to balances.
Emitted(new) ==
    IF \/ kind # "metrics" /\ status = "idle"
       \/ kind = "balances" /\ page = "left"
    THEN shown
    ELSE IF kind = "transactions" THEN shown \cup new ELSE new

\* Mutant: only the first job runs.
JobEndsOnce(s) ==
    /\ jobs' = [jobs EXCEPT ![s] = NoJob]
    /\ starting' = IF jobs[s].first THEN "done" ELSE starting
    /\ status' = "idle"
    /\ UNCHANGED timer

\* A job ended: start sets the timer after its first job.
JobEnds(s) ==
    /\ jobs' = [jobs EXCEPT ![s] = NoJob]
    /\ starting' = IF jobs[s].first THEN "done" ELSE starting
    /\ status' = "idle"
    /\ timer' = (timer \/ jobs[s].first)

\* syncBalances: a query, which a node that lags may answer; it shows a change,
QueryDiffers(s) ==
    /\ kind = "balances" /\ jobs[s].phase = "query"
    /\ \E read \in 1 .. chain : read # store
    /\ jobs' = [jobs EXCEPT ![s].phase = "update"]
    /\ UNCHANGED <<kind, chain, page, starting, timer, status, store, shown, failures>>

\* or nothing new, and the update call is spared;
QuerySame(s) ==
    /\ kind = "balances" /\ jobs[s].phase = "query"
    /\ store \in 1 .. chain
    /\ JobEnds(s)
    /\ UNCHANGED <<kind, chain, page, store, shown, failures>>

\* the certified balances are stored and emitted.
UpdateBalances(s) ==
    /\ kind = "balances" /\ jobs[s].phase = "update"
    /\ store' = chain
    /\ shown' = Emitted({chain})
    /\ JobEnds(s)
    /\ UNCHANGED <<kind, chain, page, failures>>

\* getIcrcTransactions: a page of transactions that ends at start.
PageFrom(start) == {i \in 1 .. start : start - i < PageLimit}

\* fetchMoreTransactions: there may be a gap to what is known.
FetchMore(state, oldest) == state # 0 /\ oldest > state

\* syncTransactions: pages, from the newest on, until they reach what is known.
SyncTransactions(s) ==
    LET job == jobs[s]
        ids == job.ids \cup PageFrom(IF job.ids = {} THEN chain ELSE Min(job.ids))
    IN  /\ kind = "transactions" /\ job.phase = "query"
        /\ IF FetchMore(job.state, Min(ids))
           THEN /\ jobs' = [jobs EXCEPT ![s].ids = ids]
                /\ UNCHANGED <<starting, timer, status, store, shown>>
           ELSE /\ store' = IF Max(ids) # store THEN Max(ids) ELSE store
                /\ shown' = IF Max(ids) # store THEN Emitted(ids) ELSE shown
                /\ JobEnds(s)
        /\ UNCHANGED <<kind, chain, page, failures>>

\* syncCanister and syncMetrics: one call, and its result is emitted.
SyncValue(s) ==
    /\ kind \in {"cycles", "metrics"} /\ jobs[s].phase = "query"
    /\ shown' = Emitted({chain})
    /\ JobEnds(s)
    /\ UNCHANGED <<kind, chain, page, store, failures>>

\* A call of the job fails: the worker stops itself, but a first job is
\* followed by the timer all the same.  The metrics go on.
JobFails(s) ==
    /\ jobs[s].phase # "none"
    /\ failures < MaxFailures
    /\ failures' = failures + 1
    /\ jobs' = [jobs EXCEPT ![s] = NoJob]
    /\ starting' = IF jobs[s].first THEN "done" ELSE starting
    /\ status' = "idle"
    /\ timer' = (jobs[s].first \/ (kind = "metrics" /\ timer))
    /\ UNCHANGED <<kind, chain, page, store, shown>>

Works(s) ==
    QueryDiffers(s) \/ QuerySame(s) \/ UpdateBalances(s) \/ SyncTransactions(s) \/ SyncValue(s)

Next ==
    \/ ChainGrows \/ Mount \/ StartTimer \/ Destroy \/ LoadIdentity \/ Tick
    \/ \E s \in Slots : Works(s) \/ JobFails(s)

Spec == Init /\ [][Next]_vars

\* The event loop of the worker runs its timers and the calls are answered,
\* and a query that differs from the last balance is answered in the end.
FairSpec ==
    /\ Spec
    /\ WF_vars(StartTimer) /\ WF_vars(LoadIdentity) /\ SF_vars(Tick)
    /\ \A s \in Slots : WF_vars(Works(s)) /\ SF_vars(QueryDiffers(s))
-----------------------------------------------------------------------------
TypeOK ==
    /\ kind \in Kinds /\ chain \in 1 .. MaxChain
    /\ page \in {"none", "opening", "open", "left"}
    /\ starting \in {"none", "created", "identity", "first", "done"}
    /\ timer \in BOOLEAN /\ status \in {"idle", "in_progress"}
    /\ \A s \in Slots : jobs[s].phase \in {"none", "query", "update"} /\ jobs[s].ids \subseteq 1 .. MaxChain
    /\ store \in 0 .. MaxChain /\ shown \subseteq 1 .. MaxChain
    /\ failures \in 0 .. MaxFailures

\* Calls are not duplicated: no two jobs of a worker run at the same time, even
\* if the page is left, or a job fails, between the first job and the timer.
OneJobAtATime == Cardinality(Running) <= 1

\* The transactions that a page got leave no gap, however many were made
\* between two jobs and in whatever pages the index returned them.
NoGap ==
    kind = "transactions" /\ shown # {} => shown = Min(shown) .. Max(shown)

\* While the page is open, what was emitted last is what the page shows.
PageFollowsStore ==
    page = "open" /\ kind \in {"balances", "transactions"} /\ store # 0
        => store \in shown /\ \A v \in shown : v <= store

\* The page shows the latest state of the chain; or it was left, a call failed or
\* no worker was started.
UpToDate ==
    \/ \E v \in shown : v >= chain
    \/ page # "open" \/ failures > 0 \/ starting = "none"

\* Whatever happens (the chain grows a bounded number of times) is shown in the
\* end while the page stays open and no call fails (TimerWorkerUtils.start).
EverythingIsShown == []<>UpToDate

\* timer.worker-utils.ts says that a job that failed is not called again.
NotCalledAfterError ==
    [][failures > 0 /\ kind # "metrics" => Running' \subseteq Running]_vars
=============================================================================
