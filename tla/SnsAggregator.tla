---------------------------- MODULE SnsAggregator ----------------------------
(***************************************************************************)
(* The SNS aggregator (src/rs/sns_aggregator): a canister that collects    *)
(* what the canisters of the SNS projects say and serves it as pages of a  *)
(* list.  A slow updater visits one project after the other; a fast one    *)
(* visits only the projects whose sale is open or about to open, and       *)
(* pauses when there is none.  Both wait for other canisters between what  *)
(* they read and what they store, and both may run several times at once.  *)
(*                                                                         *)
(* The data of a project is the phase of its swap; its other data is read  *)
(* and stored in the same steps.  Of the assets only the pages of the list *)
(* are kept.  An answer may hold any phase since the question was sent.    *)
(***************************************************************************)
EXTENDS Integers, SequencesExt

CONSTANTS
    Roots,          \* Roots[i + 1]: the rank of the root canister of project i
    FirstPhases,    \* FirstPhases[i + 1]: the phase in which project i is deployed
    OpenAt,         \* OpenAt[i + 1]: when the sale of project i opens
    SlowSlots,      \* bound on slow updates at one time
    FastSlots,      \* bound on fast updates at one time
    PageSize,       \* State::PAGE_SIZE
    StartBefore,    \* the fast updater starts so much before a sale
    FastBefore,     \* FAST_BEFORE_SECONDS
    MaxTime,        \* bound on the time
    MaxFailures,    \* bound on calls that fail
    MaxUpgrades     \* bound on upgrades

VARIABLES
    phases,         \* upstream: the phase of every project
    deployed,       \* upstream: the number of projects that are deployed
    all,            \* all_sns: a prefix of the projects, by its length
    toGet,          \* sns_to_get: the projects from 0 on that wait
    cache,          \* upstream_data
    maxIndex,       \* max_index
    pages,          \* the pages of the list that exist
    running,        \* whether the timer of the fast updater is set
    nextStart,      \* next_start_seconds, with a timer that fires then
    last,           \* last_sns_updated
    slow, fast,     \* the updates that wait for an answer
    now, failures, upgrades

vars == <<phases, deployed, all, toGet, cache, maxIndex, pages, running, nextStart, last,
          slow, fast, now, failures, upgrades>>
upstream == <<phases, deployed, now>>

MaxSns == Len(Roots)
Projects == 0 .. (MaxSns - 1)
Phases == <<"pending", "adopted", "open", "bought", "over">>  \* "bought": open, with a buyer
Absent == "absent"
Default == "default"    \* no answer about the swap so far
None == MaxTime + MaxSns + 1

PhaseNumber(v) == CHOOSE k \in DOMAIN Phases : Phases[k] = v
Since(v, w) == {Phases[k] : k \in PhaseNumber(v) .. PhaseNumber(w)}
IsOpen(v) == v \in {"open", "bought"}
Idle == [pc |-> "idle", index |-> None, list |-> 0, old |-> Absent, from |-> "pending"]
-----------------------------------------------------------------------------
(* The assets. *)

\* upstream_data.values(): the projects in the cache, by their root canisters
Values(c) ==
    SetToSortSeq({p \in Projects : c[p] # Absent}, LAMBDA p, q : Roots[p + 1] < Roots[q + 1])

PageOf(c, k) ==
    LET there == Values(c)
        first == k * PageSize
        end == IF Len(there) < first + PageSize THEN Len(there) ELSE first + PageSize
    IN  [j \in 1 .. (IF end > first THEN end - first ELSE 0) |->
            [sns |-> there[first + j], phase |-> c[there[first + j]]]]

\* ensure_last_page_is_not_full_v1
LastPageNotFull(ps, max) ==
    IF (max + 1) % PageSize = 0 THEN (((max + 1) \div PageSize) :> <<>>) @@ ps ELSE ps

InsertSns(i, v) ==
    LET c == [cache EXCEPT ![i] = v]
        ps == IF maxIndex < i THEN LastPageNotFull(pages, i) ELSE pages
    IN  /\ cache' = c
        /\ maxIndex' = IF maxIndex < i THEN i ELSE maxIndex
        /\ pages' = ((i \div PageSize) :> PageOf(c, i \div PageSize)) @@ ps
-----------------------------------------------------------------------------
(* The schedule of the fast updater. *)

StartTime(i) == OpenAt[i + 1] - StartBefore

\* Mutant: only a sale that is to open is watched.
MayStartForAdopted(i, v) == v = "adopted" /\ (nextStart # None => StartTime(i) < nextStart)

\* start_time_for_sns, when the fast updater does not run
MayStartFor(i, v) ==
    /\ v \in {"adopted", "open", "bought"}
    /\ nextStart # None => StartTime(i) < nextStart

NeedsUpdate(i) ==
    \/ IsOpen(cache[i])
    \/ cache[i] = "adopted" /\ OpenAt[i + 1] + FastBefore >= now

\* needs_update_iter from behind the last one, and then from the beginning
From(i, j) == [k \in 1 .. (IF i > j THEN 0 ELSE j - i + 1) |-> i + k - 1]
SearchOrder ==
    LET from == IF last = None THEN 0 ELSE last
    IN  From(from + 1, all - 1) \o From(0, IF from < all THEN from ELSE all - 1)

GlobalNext ==
    LET found == SelectSeq(SearchOrder, NeedsUpdate)
    IN  IF found = <<>> THEN None ELSE Head(found)

GlobalScheduleState ==
    LET starts == {StartTime(i) : i \in {p \in Projects : MayStartFor(p, cache[p])}}
    IN  nextStart' = IF starts = {} THEN nextStart
                     ELSE CHOOSE t \in starts : \A u \in starts : t <= u
-----------------------------------------------------------------------------
Init ==
    /\ phases = [i \in Projects |-> FirstPhases[i + 1]]
    /\ deployed = 1
    /\ all = 0 /\ toGet = 0
    /\ cache = [i \in Projects |-> Absent]
    /\ maxIndex = 0
    /\ pages = LastPageNotFull(<<>>, 0)
    /\ running = TRUE
    /\ nextStart = None
    /\ last = None
    /\ slow = [s \in SlowSlots |-> Idle]
    /\ fast = [f \in FastSlots |-> Idle]
    /\ now = 0
    /\ failures = 0 /\ upgrades = 0

(* The slow updater: update_cache. *)

\* The timer, or one of the two early calls of setup
SlowTick(s) ==
    /\ slow[s].pc = "idle"
    /\ IF toGet = 0
       THEN /\ slow' = [slow EXCEPT ![s] = [Idle EXCEPT !.pc = "listing", !.list = deployed]]
            /\ UNCHANGED toGet
       ELSE /\ slow' = [slow EXCEPT ![s] =
                [pc |-> "getting", index |-> toGet - 1, list |-> 0, old |-> cache[toGet - 1],
                 from |-> phases[toGet - 1]]]
            /\ toGet' = toGet - 1
    /\ UNCHANGED <<upstream, all, cache, maxIndex, pages, running, nextStart, last, fast,
                   failures, upgrades>>

\* set_list_of_sns_to_get
ListArrives(s) ==
    /\ slow[s].pc = "listing"
    /\ \E n \in slow[s].list .. deployed : all' = n /\ toGet' = n
    /\ slow' = [slow EXCEPT ![s] = Idle]
    /\ UNCHANGED <<upstream, cache, maxIndex, pages, running, nextStart, last, fast,
                   failures, upgrades>>
ListFails(s) ==
    /\ slow[s].pc = "listing"
    /\ failures < MaxFailures /\ failures' = failures + 1
    /\ slow' = [slow EXCEPT ![s] = Idle]
    /\ UNCHANGED <<upstream, all, toGet, cache, maxIndex, pages, running, nextStart, last,
                   fast, upgrades>>

\* get_sns_data with the answer v about the swap
Collected(s, v) ==
    LET i == slow[s].index
    IN  /\ nextStart' = IF ~running /\ MayStartFor(i, v) THEN StartTime(i) ELSE nextStart
        /\ InsertSns(i, v)
        /\ slow' = [slow EXCEPT ![s] = Idle]
        /\ UNCHANGED <<upstream, all, toGet, running, last, fast, upgrades>>
GetSnsData(s) ==
    /\ slow[s].pc = "getting"
    /\ \E v \in Since(slow[s].from, phases[slow[s].index]) : Collected(s, v)
    /\ UNCHANGED failures
\* The call to the swap fails: what was in the cache before is stored again.
GetSnsDataFails(s) ==
    /\ slow[s].pc = "getting"
    /\ failures < MaxFailures /\ failures' = failures + 1
    /\ Collected(s, IF slow[s].old = Absent THEN Default ELSE slow[s].old)

(* The fast updater: global_update_next. *)

FastTick(f) ==
    /\ running /\ fast[f] = Idle /\ GlobalNext # None
    /\ last' = GlobalNext
    /\ fast' = [fast EXCEPT ![f] =
            [Idle EXCEPT !.pc = "getting", !.index = GlobalNext, !.from = phases[GlobalNext]]]
    /\ UNCHANGED <<upstream, all, toGet, cache, maxIndex, pages, running, nextStart, slow,
                   failures, upgrades>>

\* Nothing to update: stop, and start again before the next sale.
FastPauses ==
    /\ running /\ GlobalNext = None
    /\ last' = None
    /\ running' = FALSE
    /\ GlobalScheduleState
    /\ UNCHANGED <<upstream, all, toGet, cache, maxIndex, pages, slow, fast, failures,
                   upgrades>>

\* global_start, called by the timer of global_start_at
GlobalStart ==
    /\ nextStart <= now
    /\ running' = TRUE /\ nextStart' = None
    /\ UNCHANGED <<upstream, all, toGet, cache, maxIndex, pages, last, slow, fast,
                   failures, upgrades>>

\* global_update: a failed answer keeps the cached value; the page is stored in any case.
GlobalUpdate(f) ==
    /\ fast[f] # Idle
    /\ LET i == fast[f].index
       IN  \/ \E v \in Since(fast[f].from, phases[i]) : InsertSns(i, v) /\ UNCHANGED failures
           \/ /\ failures < MaxFailures /\ failures' = failures + 1
              /\ InsertSns(i, cache[i])
    /\ fast' = [fast EXCEPT ![f] = Idle]
    /\ UNCHANGED <<upstream, all, toGet, running, nextStart, last, slow, upgrades>>

(* The surroundings. *)

\* The controllers stop the canister, upgrade it, and the state is restored or not.
\* post_upgrade and setup start both timers again.
Upgrade(restored) ==
    /\ upgrades < MaxUpgrades /\ upgrades' = upgrades + 1
    /\ \A s \in SlowSlots : slow[s] = Idle
    /\ \A f \in FastSlots : fast[f] = Idle
    /\ IF restored
       THEN pages' = LastPageNotFull(pages, maxIndex) /\ UNCHANGED <<all, toGet, cache, maxIndex>>
       ELSE /\ all' = 0 /\ toGet' = 0 /\ maxIndex' = 0
            /\ cache' = [i \in Projects |-> Absent]
            /\ pages' = LastPageNotFull(<<>>, 0)
    /\ running' = TRUE /\ nextStart' = None /\ last' = None
    /\ UNCHANGED <<upstream, slow, fast, failures>>

Deploy ==
    /\ deployed < MaxSns /\ deployed' = deployed + 1
    /\ UNCHANGED <<phases, all, toGet, cache, maxIndex, pages, running, nextStart, last, slow,
                   fast, now, failures, upgrades>>

\* A sale is adopted, opens at its time, is bought in and ends.
Evolve(i) ==
    /\ i < deployed /\ phases[i] # "over"
    /\ phases[i] = "pending" => now < OpenAt[i + 1]
    /\ phases[i] = "adopted" => now >= OpenAt[i + 1]
    /\ phases' = [phases EXCEPT ![i] = Phases[PhaseNumber(@) + 1]]
    /\ UNCHANGED <<deployed, all, toGet, cache, maxIndex, pages, running, nextStart, last,
                   slow, fast, now, failures, upgrades>>

TimePasses ==
    /\ now < MaxTime /\ now' = now + 1
    /\ UNCHANGED <<phases, deployed, all, toGet, cache, maxIndex, pages, running, nextStart,
                   last, slow, fast, failures, upgrades>>

SlowAnswered(s) == ListArrives(s) \/ ListFails(s) \/ GetSnsData(s) \/ GetSnsDataFails(s)
FastTicks == FastPauses \/ \E f \in FastSlots : FastTick(f)

Next ==
    \/ \E s \in SlowSlots : SlowTick(s) \/ SlowAnswered(s)
    \/ FastTicks
    \/ \E f \in FastSlots : GlobalUpdate(f)
    \/ GlobalStart \/ Deploy \/ TimePasses
    \/ \E i \in Projects : Evolve(i)
    \/ \E restored \in BOOLEAN : Upgrade(restored)
-----------------------------------------------------------------------------
\* querySnsAggregator of the frontend: page after page, up to one that is not full
RECURSIVE Read(_)
Read(k) ==
    IF k \notin DOMAIN pages THEN <<>>
    ELSE IF Len(pages[k]) = PageSize THEN pages[k] \o Read(k + 1) ELSE pages[k]
-----------------------------------------------------------------------------
\* Timers fire again and again, and every call is answered or fails.
FairSpec ==
    /\ Init /\ [][Next]_vars
    /\ \A s \in SlowSlots : WF_vars(SlowTick(s)) /\ WF_vars(SlowAnswered(s))
    /\ WF_vars(FastTicks) /\ \A f \in FastSlots : WF_vars(GlobalUpdate(f))
    /\ WF_vars(GlobalStart)
-----------------------------------------------------------------------------
TypeOK ==
    /\ phases \in [Projects -> ToSet(Phases)]
    /\ {deployed, all, toGet} \subseteq 0 .. MaxSns /\ toGet <= all
    /\ cache \in [Projects -> ToSet(Phases) \union {Absent, Default}]
    /\ maxIndex \in Projects
    /\ running \in BOOLEAN
    /\ nextStart \in (0 .. MaxTime) \union {None}
    /\ last \in Projects \union {None}

\* The list, read page by page, names every deployed project once, with the current phase
\* of its swap.
ListIsCurrent ==
    LET list == Read(0)
    IN  /\ Len(list) = deployed
        /\ ToSet(list) = {[sns |-> i, phase |-> phases[i]] : i \in 0 .. (deployed - 1)}

\* A sale that the cache shows as open is followed by the fast updater.
SalesAreFollowed == (\E i \in Projects : IsOpen(cache[i])) => running

(* Do not hold. *)

\* state.rs:142: page k holds the projects k * PAGE_SIZE to (k + 1) * PAGE_SIZE - 1.  It does
\* only if the root canisters are ordered as the projects are; otherwise the page that a fast
\* update writes is not the one that shows the sale.
PagesHoldIndices ==
    \A k \in DOMAIN pages : \A j \in DOMAIN pages[k] : pages[k][j].sns \div PageSize = k

\* fast_scheduler.rs:37: only a sale that is open or about to open is visited.
FastIsForSales ==
    \A f \in FastSlots : fast[f] # Idle /\ cache[fast[f].index] = "adopted" =>
        OpenAt[fast[f].index + 1] <= now + FastBefore

\* When every project was visited, the list names them all: the second page is stored before
\* the projects that come before it are known.
FirstCycleIsComplete ==
    (\A i \in 0 .. (deployed - 1) : cache[i] # Absent) => Len(Read(0)) >= deployed
=============================================================================
