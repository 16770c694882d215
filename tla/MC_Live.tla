------------------------------ MODULE MC_Live -------------------------------
(***************************************************************************)
(* What has to happen in the end, for TLC: the sync of the backend with the*)
(* ledger (which this module extends), the workers of the pages, the voting*)
(* page of the NNS, the pages of canisters, the SNS aggregator and the     *)
(* session of the user in the tabs of a browser.  They share no state: a   *)
(* behaviour is one of them, and the variables of the others keep the      *)
(* value 0.                                                                *)
(***************************************************************************)
EXTENDS LedgerSync, TLC

CONSTANTS
    Slots, MaxChain, PageLimit,
    Proposals, Neurons, Follows, Votes, MaxOpens, MaxVotes, MaxEvents,
    CanisterIds, MaxName, MaxCanisters, Forced, MaxLoads, MaxReads, MaxMoves, MaxDialogs,
    MaxTroubles, s1, s2, n1, n2, a,
    SlowSlots, FastSlots, PageSize, StartBefore, FastBefore, MaxTime, MaxUpgrades,
    Tabs, MaxSignIns, MaxReloads, MaxChecks

VARIABLES
    part,      \* the part that this behaviour is about
    kind, chain, page, starting, timer, status, jobs, emitted, shown, who, ballots, closed,
    ready, asking, url, updating, card, selected, loads, reg, stored, actionable, scans, off,
    asked, reported, opens, votes, events, linked, controllers, forced, listed, dialog, reads,
    given, moves, dialogs, elsewhere,
    phases, deployed, all, toGet, cache, maxIndex, pages, running, nextStart, last, slow, fast,
    now, upgrades,
    delegation, identity, worker, checks, messages, logout, automatic, toasts, signOuts, signIns,
    reloads

SecondFollowsFirst == {<<n2, n1>>}

T == INSTANCE TimerWorkers WITH
    Kinds <- {"balances", "transactions", "cycles", "metrics"},
    store <- emitted
V == INSTANCE Voting WITH
    Kinds <- {"nns"}
C == INSTANCE CanisterPages WITH
    People <- {"me", "dev"},
    Owned <- CanisterIds,
    Typed <- 0 .. MaxName + 2,
    store <- listed
A == INSTANCE SnsAggregator WITH
    Roots <- <<2, 0, 1>>,
    FirstPhases <- <<"over", "pending", "over">>,
    OpenAt <- <<1, 2, 1>>
S == INSTANCE Session

allVars == <<part, ledger, archives, cmc, failures, registered, wallets, synced, queue,
             attached, exceptional, pc, reply, local, base, times, paid, settled, kind,
             chain, page, starting, timer, status, jobs, emitted, shown, who, ballots,
             closed, ready, asking, url, updating, card, selected, loads, reg, stored,
             actionable, scans, off, asked, reported, opens, votes, events, linked,
             controllers, forced, listed, dialog, reads, given, moves, dialogs, elsewhere,
             phases, deployed, all, toGet, cache, maxIndex, pages, running, nextStart, last,
             slow, fast, now, upgrades, delegation, identity, worker, checks, messages,
             logout, automatic, toasts, signOuts, signIns, reloads>>
-----------------------------------------------------------------------------
SyncRest == <<kind, chain, page, starting, timer, status, jobs, emitted, shown, who,
              ballots, closed, ready, asking, url, updating, card, selected, loads, reg,
              stored, actionable, scans, off, asked, reported, opens, votes, events, linked,
              controllers, forced, listed, dialog, reads, given, moves, dialogs, elsewhere,
              phases, deployed, all, toGet, cache, maxIndex, pages, running, nextStart,
              last, slow, fast, now, upgrades, delegation, identity, worker, checks,
              messages, logout, automatic, toasts, signOuts, signIns, reloads>>
SyncInit ==
    /\ part = "sync" /\ Init
    /\ kind = 0 /\ chain = 0 /\ page = 0 /\ starting = 0 /\ timer = 0 /\ status = 0 /\
       jobs = 0 /\ emitted = 0 /\ shown = 0 /\ who = 0 /\ ballots = 0 /\ closed = 0 /\
       ready = 0 /\ asking = 0 /\ url = 0 /\ updating = 0 /\ card = 0 /\ selected = 0 /\
       loads = 0 /\ reg = 0 /\ stored = 0 /\ actionable = 0 /\ scans = 0 /\ off = 0 /\
       asked = 0 /\ reported = 0 /\ opens = 0 /\ votes = 0 /\ events = 0 /\ linked = 0 /\
       controllers = 0 /\ forced = 0 /\ listed = 0 /\ dialog = 0 /\ reads = 0 /\
       given = 0 /\ moves = 0 /\ dialogs = 0 /\ elsewhere = 0 /\ phases = 0 /\
       deployed = 0 /\ all = 0 /\ toGet = 0 /\ cache = 0 /\ maxIndex = 0 /\ pages = 0 /\
       running = 0 /\ nextStart = 0 /\ last = 0 /\ slow = 0 /\ fast = 0 /\ now = 0 /\
       upgrades = 0 /\ delegation = 0 /\ identity = 0 /\ worker = 0 /\ checks = 0 /\
       messages = 0 /\ logout = 0 /\ automatic = 0 /\ toasts = 0 /\ signOuts = 0 /\
       signIns = 0 /\ reloads = 0

TimerRest == <<ledger, archives, cmc, registered, wallets, synced, queue, attached,
               exceptional, pc, reply, local, base, times, paid, settled, who, ballots,
               closed, ready, asking, url, updating, card, selected, loads, reg, stored,
               actionable, scans, off, asked, reported, opens, votes, events, linked,
               controllers, forced, listed, dialog, reads, given, moves, dialogs, elsewhere,
               phases, deployed, all, toGet, cache, maxIndex, pages, running, nextStart,
               last, slow, fast, now, upgrades, delegation, identity, worker, checks,
               messages, logout, automatic, toasts, signOuts, signIns, reloads>>
TimerInit ==
    /\ part = "timer" /\ T!Init
    /\ ledger = 0 /\ archives = 0 /\ cmc = 0 /\ registered = 0 /\ wallets = 0 /\
       synced = 0 /\ queue = 0 /\ attached = 0 /\ exceptional = 0 /\ pc = 0 /\ reply = 0 /\
       local = 0 /\ base = 0 /\ times = 0 /\ paid = 0 /\ settled = 0 /\ who = 0 /\
       ballots = 0 /\ closed = 0 /\ ready = 0 /\ asking = 0 /\ url = 0 /\ updating = 0 /\
       card = 0 /\ selected = 0 /\ loads = 0 /\ reg = 0 /\ stored = 0 /\ actionable = 0 /\
       scans = 0 /\ off = 0 /\ asked = 0 /\ reported = 0 /\ opens = 0 /\ votes = 0 /\
       events = 0 /\ linked = 0 /\ controllers = 0 /\ forced = 0 /\ listed = 0 /\
       dialog = 0 /\ reads = 0 /\ given = 0 /\ moves = 0 /\ dialogs = 0 /\ elsewhere = 0 /\
       phases = 0 /\ deployed = 0 /\ all = 0 /\ toGet = 0 /\ cache = 0 /\ maxIndex = 0 /\
       pages = 0 /\ running = 0 /\ nextStart = 0 /\ last = 0 /\ slow = 0 /\ fast = 0 /\
       now = 0 /\ upgrades = 0 /\ delegation = 0 /\ identity = 0 /\ worker = 0 /\
       checks = 0 /\ messages = 0 /\ logout = 0 /\ automatic = 0 /\ toasts = 0 /\
       signOuts = 0 /\ signIns = 0 /\ reloads = 0

VoteRest == <<ledger, archives, cmc, failures, registered, wallets, synced, queue, attached,
              exceptional, pc, reply, local, base, times, paid, settled, chain, starting,
              timer, status, jobs, emitted, shown, linked, controllers, forced, listed,
              dialog, reads, given, moves, dialogs, elsewhere, phases, deployed, all, toGet,
              cache, maxIndex, pages, running, nextStart, last, slow, fast, now, upgrades,
              delegation, identity, worker, checks, messages, logout, automatic, toasts,
              signOuts, signIns, reloads>>
VoteInit ==
    /\ part = "vote" /\ V!Init
    /\ ledger = 0 /\ archives = 0 /\ cmc = 0 /\ failures = 0 /\ registered = 0 /\
       wallets = 0 /\ synced = 0 /\ queue = 0 /\ attached = 0 /\ exceptional = 0 /\
       pc = 0 /\ reply = 0 /\ local = 0 /\ base = 0 /\ times = 0 /\ paid = 0 /\
       settled = 0 /\ chain = 0 /\ starting = 0 /\ timer = 0 /\ status = 0 /\ jobs = 0 /\
       emitted = 0 /\ shown = 0 /\ linked = 0 /\ controllers = 0 /\ forced = 0 /\
       listed = 0 /\ dialog = 0 /\ reads = 0 /\ given = 0 /\ moves = 0 /\ dialogs = 0 /\
       elsewhere = 0 /\ phases = 0 /\ deployed = 0 /\ all = 0 /\ toGet = 0 /\ cache = 0 /\
       maxIndex = 0 /\ pages = 0 /\ running = 0 /\ nextStart = 0 /\ last = 0 /\ slow = 0 /\
       fast = 0 /\ now = 0 /\ upgrades = 0 /\ delegation = 0 /\ identity = 0 /\
       worker = 0 /\ checks = 0 /\ messages = 0 /\ logout = 0 /\ automatic = 0 /\
       toasts = 0 /\ signOuts = 0 /\ signIns = 0 /\ reloads = 0

CanisterRest == <<ledger, archives, cmc, registered, wallets, synced, queue, attached,
                  exceptional, pc, reply, local, base, times, paid, settled, kind, chain,
                  starting, timer, status, jobs, emitted, shown, who, ballots, closed,
                  ready, asking, url, updating, card, reg, stored, actionable, scans, off,
                  asked, reported, opens, votes, events, phases, deployed, all, toGet,
                  cache, maxIndex, pages, running, nextStart, last, slow, fast, now,
                  upgrades, delegation, identity, worker, checks, messages, logout,
                  automatic, toasts, signOuts, signIns, reloads>>
CanisterInit ==
    /\ part = "canister" /\ C!PagesInit
    /\ ledger = 0 /\ archives = 0 /\ cmc = 0 /\ registered = 0 /\ wallets = 0 /\
       synced = 0 /\ queue = 0 /\ attached = 0 /\ exceptional = 0 /\ pc = 0 /\ reply = 0 /\
       local = 0 /\ base = 0 /\ times = 0 /\ paid = 0 /\ settled = 0 /\ kind = 0 /\
       chain = 0 /\ starting = 0 /\ timer = 0 /\ status = 0 /\ jobs = 0 /\ emitted = 0 /\
       shown = 0 /\ who = 0 /\ ballots = 0 /\ closed = 0 /\ ready = 0 /\ asking = 0 /\
       url = 0 /\ updating = 0 /\ card = 0 /\ reg = 0 /\ stored = 0 /\ actionable = 0 /\
       scans = 0 /\ off = 0 /\ asked = 0 /\ reported = 0 /\ opens = 0 /\ votes = 0 /\
       events = 0 /\ phases = 0 /\ deployed = 0 /\ all = 0 /\ toGet = 0 /\ cache = 0 /\
       maxIndex = 0 /\ pages = 0 /\ running = 0 /\ nextStart = 0 /\ last = 0 /\ slow = 0 /\
       fast = 0 /\ now = 0 /\ upgrades = 0 /\ delegation = 0 /\ identity = 0 /\
       worker = 0 /\ checks = 0 /\ messages = 0 /\ logout = 0 /\ automatic = 0 /\
       toasts = 0 /\ signOuts = 0 /\ signIns = 0 /\ reloads = 0

SnsRest == <<ledger, archives, cmc, registered, wallets, synced, queue, attached,
             exceptional, pc, reply, local, base, times, paid, settled, kind, chain, page,
             starting, timer, status, jobs, emitted, shown, who, ballots, closed, ready,
             asking, url, updating, card, selected, loads, reg, stored, actionable, scans,
             off, asked, reported, opens, votes, events, linked, controllers, forced, listed,
             dialog, reads, given, moves, dialogs, elsewhere, delegation, identity, worker,
             checks, messages, logout, automatic, toasts, signOuts, signIns, reloads>>
SnsInit ==
    /\ part = "sns" /\ A!Init
    /\ ledger = 0 /\ archives = 0 /\ cmc = 0 /\ registered = 0 /\ wallets = 0 /\
       synced = 0 /\ queue = 0 /\ attached = 0 /\ exceptional = 0 /\ pc = 0 /\ reply = 0 /\
       local = 0 /\ base = 0 /\ times = 0 /\ paid = 0 /\ settled = 0 /\ kind = 0 /\
       chain = 0 /\ page = 0 /\ starting = 0 /\ timer = 0 /\ status = 0 /\ jobs = 0 /\
       emitted = 0 /\ shown = 0 /\ who = 0 /\ ballots = 0 /\ closed = 0 /\ ready = 0 /\
       asking = 0 /\ url = 0 /\ updating = 0 /\ card = 0 /\ selected = 0 /\ loads = 0 /\
       reg = 0 /\ stored = 0 /\ actionable = 0 /\ scans = 0 /\ off = 0 /\ asked = 0 /\
       reported = 0 /\ opens = 0 /\ votes = 0 /\ events = 0 /\ linked = 0 /\
       controllers = 0 /\ forced = 0 /\ listed = 0 /\ dialog = 0 /\ reads = 0 /\
       given = 0 /\ moves = 0 /\ dialogs = 0 /\ elsewhere = 0 /\ delegation = 0 /\
       identity = 0 /\ worker = 0 /\ checks = 0 /\ messages = 0 /\ logout = 0 /\
       automatic = 0 /\ toasts = 0 /\ signOuts = 0 /\ signIns = 0 /\ reloads = 0

SessionRest == <<ledger, archives, cmc, failures, registered, wallets, synced, queue,
                 attached, exceptional, pc, reply, local, base, times, paid, settled, kind,
                 chain, page, starting, status, jobs, emitted, shown, who, ballots, closed,
                 asking, updating, card, selected, reg, stored, actionable, scans, off,
                 asked, reported, opens, votes, events, linked, controllers, forced, listed,
                 dialog, reads, given, moves, dialogs, elsewhere, phases, deployed, all,
                 toGet, cache, maxIndex, pages, running, nextStart, last, slow, fast, now,
                 upgrades>>
SessionInit ==
    /\ part = "session" /\ S!Init
    /\ ledger = 0 /\ archives = 0 /\ cmc = 0 /\ failures = 0 /\ registered = 0 /\
       wallets = 0 /\ synced = 0 /\ queue = 0 /\ attached = 0 /\ exceptional = 0 /\
       pc = 0 /\ reply = 0 /\ local = 0 /\ base = 0 /\ times = 0 /\ paid = 0 /\
       settled = 0 /\ kind = 0 /\ chain = 0 /\ page = 0 /\ starting = 0 /\ status = 0 /\
       jobs = 0 /\ emitted = 0 /\ shown = 0 /\ who = 0 /\ ballots = 0 /\ closed = 0 /\
       asking = 0 /\ updating = 0 /\ card = 0 /\ selected = 0 /\ reg = 0 /\ stored = 0 /\
       actionable = 0 /\ scans = 0 /\ off = 0 /\ asked = 0 /\ reported = 0 /\ opens = 0 /\
       votes = 0 /\ events = 0 /\ linked = 0 /\ controllers = 0 /\ forced = 0 /\
       listed = 0 /\ dialog = 0 /\ reads = 0 /\ given = 0 /\ moves = 0 /\ dialogs = 0 /\
       elsewhere = 0 /\ phases = 0 /\ deployed = 0 /\ all = 0 /\ toGet = 0 /\ cache = 0 /\
       maxIndex = 0 /\ pages = 0 /\ running = 0 /\ nextStart = 0 /\ last = 0 /\ slow = 0 /\
       fast = 0 /\ now = 0 /\ upgrades = 0

AllInit == SyncInit \/ TimerInit \/ VoteInit \/ CanisterInit \/ SnsInit \/ SessionInit

AllNext ==
    \/ part = "sync" /\ Next /\ UNCHANGED <<part, SyncRest>>
    \/ part = "timer" /\ T!Next /\ UNCHANGED <<part, TimerRest>>
    \/ part = "vote" /\ V!Next /\ UNCHANGED <<part, VoteRest>>
    \/ part = "canister" /\ C!PagesNext /\ UNCHANGED <<part, CanisterRest>>
    \/ part = "sns" /\ A!Next /\ UNCHANGED <<part, SnsRest>>
    \/ part = "session" /\ S!Next /\ UNCHANGED <<part, SessionRest>>

\* The fairness of each part: see LedgerSync!Fairness and FairSpec of the others.
AllSpec ==
    /\ AllInit /\ [][AllNext]_allVars
    /\ \A t \in Tasks :
        /\ WF_allVars(part = "sync" /\ Heartbeat(t) /\ UNCHANGED <<part, SyncRest>>)
        /\ WF_allVars(part = "sync" /\ Answer(t) /\ UNCHANGED <<part, SyncRest>>)
        /\ WF_allVars(part = "sync" /\ Deliver(t) /\ UNCHANGED <<part, SyncRest>>)
    /\ \A h \in Heights : WF_allVars(part = "sync" /\ CmcComplete(h) /\ UNCHANGED <<part, SyncRest>>)
    /\ WF_allVars(part = "timer" /\ T!StartTimer /\ UNCHANGED <<part, TimerRest>>)
    /\ WF_allVars(part = "timer" /\ T!LoadIdentity /\ UNCHANGED <<part, TimerRest>>)
    /\ SF_allVars(part = "timer" /\ T!Tick /\ UNCHANGED <<part, TimerRest>>)
    /\ \A s \in Slots :
        /\ WF_allVars(part = "timer" /\ T!Works(s) /\ UNCHANGED <<part, TimerRest>>)
        /\ SF_allVars(part = "timer" /\ T!QueryDiffers(s) /\ UNCHANGED <<part, TimerRest>>)
    /\ \A p \in Proposals, n \in Neurons :
        /\ WF_allVars(part = "vote" /\ V!RegisterVote(p, n) /\ UNCHANGED <<part, VoteRest>>)
        /\ WF_allVars(part = "vote" /\ V!VoteAnswered(p, n) /\ UNCHANGED <<part, VoteRest>>)
    /\ WF_allVars(part = "vote" /\ V!NeuronsAnswered(TRUE) /\ UNCHANGED <<part, VoteRest>>)
    /\ WF_allVars(part = "vote" /\ (\E l \in loads : V!PostAnswered(l) \/ V!PostFails(l))
                    /\ UNCHANGED <<part, VoteRest>>)
    /\ WF_allVars(part = "canister" /\ C!Browser /\ UNCHANGED <<part, CanisterRest>>)
    /\ \A s \in SlowSlots :
        /\ WF_allVars(part = "sns" /\ A!SlowTick(s) /\ UNCHANGED <<part, SnsRest>>)
        /\ WF_allVars(part = "sns" /\ A!SlowAnswered(s) /\ UNCHANGED <<part, SnsRest>>)
    /\ WF_allVars(part = "sns" /\ A!FastTicks /\ UNCHANGED <<part, SnsRest>>)
    /\ \A f \in FastSlots :
        WF_allVars(part = "sns" /\ A!GlobalUpdate(f) /\ UNCHANGED <<part, SnsRest>>)
    /\ WF_allVars(part = "sns" /\ A!GlobalStart /\ UNCHANGED <<part, SnsRest>>)
    /\ \A t \in Tabs :
        WF_allVars(part = "session" /\ S!Browser(t) /\ UNCHANGED <<part, SessionRest>>)
-----------------------------------------------------------------------------
\* Again and again the backend is level with the ledger (sync_transactions), and every payment
\* that was queued is settled, though it may be queued again many times
\* (handle_create_canister_v2).
EverythingIsSettled ==
    /\ []<>(part = "sync" => Level)
    /\ []<>(part = "sync" => paid \subseteq settled)

\* What a worker observes is shown in the end.
EverythingIsShown == []<>(part = "timer" => T!UpToDate)

\* The registration of votes ends, and so do the dialogs of the canister pages and
\* the loader of a canister's page. A tab does not go on showing a session that is over.
PagesSettle ==
    []<>(/\ part = "vote" => ~V!Registering
         /\ part = "canister" => ~C!Busy /\ ~C!Loading
         /\ part = "session" => S!InSession)

\* The list of the projects that the aggregator serves becomes right, with open sales
\* followed, whatever the slow and the fast updater stored before.
SnsListBecomesCurrent == []<>(part = "sns" => A!ListIsCurrent /\ A!SalesAreFollowed)

\* The state of the parts is what it may be: a worker runs one job at a time, what its page
\* shows has no gap, and the page shows what was emitted last; a tab with an identity is
\* watched, loads the private data once, and shows the message of a sign-out once.
PartsAreSound ==
    /\ part = "sync" => TypeOK
    /\ part = "timer" => T!TypeOK /\ T!OneJobAtATime /\ T!NoGap /\ T!PageFollowsStore
    /\ part = "sns" => A!TypeOK
    /\ part = "session" => S!SessionIsSound
=============================================================================
