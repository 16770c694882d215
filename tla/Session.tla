------------------------------- MODULE Session -------------------------------
(***************************************************************************)
(* The session of a user in the tabs of a browser (stores/auth.store.ts,   *)
(* services/auth.services.ts, workers/auth.worker.ts, routes/+layout).     *)
(* The delegation of the user is in a database (IndexedDB) that the tabs   *)
(* share; each tab reads it when it boots and keeps the identity in memory.*)
(* What happens to the delegation later a tab learns from its worker only, *)
(* which looks at the database once a second, and signs the tab out.       *)
(*                                                                         *)
(* The database and Internet Identity are external.                        *)
(***************************************************************************)
EXTENDS Naturals

CONSTANTS
    Tabs,
    MaxSignIns,     \* bound: how often the user signs in
    MaxReloads,     \* bound: how often the user reloads a tab
    MaxChecks       \* bound: checks of a worker that overlap

VARIABLES
    delegation,     \* what the database holds: "none", "valid", "expired"
    identity,       \* authStore of each tab: "undefined", "null", "user"
    worker,         \* auth.worker is loaded
    timer,          \* its interval is set
    checks,         \* onIdleSignOut that read a session that is over
    messages,       \* nnsSignOut posted to the tab
    logout,         \* logout() of the tab: "no", "clearing" the database, "cleared"
    automatic,      \* that logout has a message
    ready,          \* `ready` of the layout
    loads,          \* how often this page loaded the private data
    url,            \* the message is in the URL
    toasts,         \* history: how often the message was shown
    signOuts,       \* history: how often the tab was signed out with a message
    signIns, reloads

vars == <<delegation, identity, worker, timer, checks, messages, logout, automatic, ready,
          loads, url, toasts, signOuts, signIns, reloads>>

page == <<worker, timer, checks, messages, logout, automatic, url, toasts, signOuts>>

Init ==
    /\ delegation \in {"none", "valid"}
    /\ identity = [t \in Tabs |-> "undefined"]
    /\ worker = [t \in Tabs |-> FALSE] /\ timer = [t \in Tabs |-> FALSE]
    /\ checks = [t \in Tabs |-> 0] /\ messages = [t \in Tabs |-> 0]
    /\ logout = [t \in Tabs |-> "no"] /\ automatic = [t \in Tabs |-> FALSE]
    /\ ready = [t \in Tabs |-> FALSE] /\ loads = [t \in Tabs |-> 0]
    /\ url = [t \in Tabs |-> FALSE]
    /\ toasts = [t \in Tabs |-> 0] /\ signOuts = [t \in Tabs |-> 0]
    /\ signIns = 0 /\ reloads = 0
-----------------------------------------------------------------------------
(***************************************************************************)
(* The layout.                                                             *)
(***************************************************************************)

\* syncAuth of the layout, whenever the auth store changes and when the worker is loaded: it
\* starts or stops the worker's timer, and loads the private data of the user once.
SyncAuth(t, id, loaded) ==
    /\ timer' = [timer EXCEPT ![t] = IF loaded THEN id = "user" ELSE @]
    /\ ready' = [ready EXCEPT ![t] = id = "user"]
    /\ loads' = [loads EXCEPT ![t] = IF id = "user" /\ ~ready[t] THEN @ + 1 ELSE @]

\* initAppAuth: sync, and displayAndCleanLogoutMsg.  An auth client that finds a delegation
\* which is not valid any more removes it.
InitAppAuth(t) ==
    /\ identity[t] = "undefined"
    /\ LET id == IF delegation = "valid" THEN "user" ELSE "null"
       IN  identity' = [identity EXCEPT ![t] = id] /\ SyncAuth(t, id, worker[t])
    /\ delegation' = IF delegation = "expired" THEN "none" ELSE delegation
    /\ toasts' = [toasts EXCEPT ![t] = IF url[t] THEN @ + 1 ELSE @]
    /\ url' = [url EXCEPT ![t] = FALSE]
    /\ UNCHANGED <<worker, checks, messages, logout, automatic, signOuts, signIns, reloads>>

\* initAuthWorker, which the layout waits for.
WorkerLoaded(t) ==
    /\ ~worker[t] /\ worker' = [worker EXCEPT ![t] = TRUE]
    /\ SyncAuth(t, identity[t], TRUE)
    /\ UNCHANGED <<delegation, identity, checks, messages, logout, automatic, url, toasts,
                   signOuts, signIns, reloads>>

\* login: Internet Identity gives a new delegation, which the auth client stores.
SignIn(t) ==
    /\ identity[t] = "null" /\ logout[t] = "no"
    /\ signIns < MaxSignIns /\ signIns' = signIns + 1
    /\ delegation' = "valid"
    /\ identity' = [identity EXCEPT ![t] = "user"]
    /\ SyncAuth(t, "user", worker[t])
    /\ UNCHANGED <<worker, checks, messages, logout, automatic, url, toasts, signOuts, reloads>>
-----------------------------------------------------------------------------
(***************************************************************************)
(* The worker.                                                             *)
(***************************************************************************)

\* onIdleSignOut, once a second while the timer is set, reads that there is no valid
\* delegation. (While there is one it posts the time that remains.)
Check(t) ==
    /\ timer[t] /\ delegation # "valid"
    /\ checks[t] < MaxChecks /\ checks' = [checks EXCEPT ![t] = @ + 1]
    /\ delegation' = "none"
    /\ UNCHANGED <<identity, worker, timer, messages, logout, automatic, ready, loads, url,
                   toasts, signOuts, signIns, reloads>>

\* ... and the logout of the worker, which stops its timer first.
PostSignOut(t) ==
    /\ checks[t] > 0 /\ checks' = [checks EXCEPT ![t] = @ - 1]
    /\ timer' = [timer EXCEPT ![t] = FALSE]
    /\ messages' = [messages EXCEPT ![t] = @ + 1]
    /\ UNCHANGED <<delegation, identity, worker, logout, automatic, ready, loads, url, toasts,
                   signOuts, signIns, reloads>>
-----------------------------------------------------------------------------
(***************************************************************************)
(* The end of a session.                                                   *)
(***************************************************************************)

\* logout of auth.services, for the message of the worker or because the user signs out.
StartLogout(t, withMessage) ==
    /\ logout' = [logout EXCEPT ![t] = "clearing"]
    /\ automatic' = [automatic EXCEPT ![t] = @ \/ withMessage]
    /\ UNCHANGED <<delegation, identity, worker, timer, checks, ready, loads, url, toasts,
                   signOuts, signIns, reloads>>

ReceiveSignOut(t) ==
    /\ messages[t] > 0 /\ messages' = [messages EXCEPT ![t] = @ - 1]
    /\ StartLogout(t, TRUE)

\* The busy screen hides the button afterwards.
SignOut(t) ==
    /\ identity[t] = "user" /\ logout[t] = "no"
    /\ StartLogout(t, FALSE) /\ UNCHANGED messages

\* The auth client clears the database, whatever is in it now; then the store is set.
ClearSession(t) ==
    /\ logout[t] = "clearing"
    /\ delegation' = "none"
    /\ logout' = [logout EXCEPT ![t] = "cleared"]
    /\ identity' = [identity EXCEPT ![t] = "null"]
    /\ SyncAuth(t, "null", worker[t])
    /\ UNCHANGED <<worker, checks, messages, automatic, url, toasts, signOuts, signIns, reloads>>

\* A page is loaded: nothing of the old one is left but the URL.
NewPage(t) ==
    /\ identity' = [identity EXCEPT ![t] = "undefined"]
    /\ worker' = [worker EXCEPT ![t] = FALSE] /\ timer' = [timer EXCEPT ![t] = FALSE]
    /\ checks' = [checks EXCEPT ![t] = 0] /\ messages' = [messages EXCEPT ![t] = 0]
    /\ logout' = [logout EXCEPT ![t] = "no"] /\ automatic' = [automatic EXCEPT ![t] = FALSE]
    /\ ready' = [ready EXCEPT ![t] = FALSE] /\ loads' = [loads EXCEPT ![t] = 0]
    /\ UNCHANGED <<delegation, toasts, signIns>>

\* appendMsgToUrl, and the reload.
FinishLogout(t) ==
    /\ logout[t] = "cleared"
    /\ NewPage(t)
    /\ url' = [url EXCEPT ![t] = @ \/ automatic[t]]
    /\ signOuts' = [signOuts EXCEPT ![t] = IF automatic[t] THEN @ + 1 ELSE @]
    /\ UNCHANGED reloads

\* The user reloads the tab.
Reload(t) ==
    /\ reloads < MaxReloads /\ reloads' = reloads + 1
    /\ NewPage(t)
    /\ UNCHANGED <<url, signOuts>>

\* AUTH_SESSION_DURATION is over.
Expire ==
    /\ delegation = "valid" /\ delegation' = "expired"
    /\ UNCHANGED <<identity, ready, loads, signIns, reloads>> /\ UNCHANGED page
-----------------------------------------------------------------------------
Browser(t) ==
    \/ InitAppAuth(t) \/ WorkerLoaded(t) \/ Check(t) \/ PostSignOut(t)
    \/ ReceiveSignOut(t) \/ ClearSession(t) \/ FinishLogout(t)

Next == Expire \/ \E t \in Tabs : Browser(t) \/ SignIn(t) \/ SignOut(t) \/ Reload(t)

Spec == Init /\ [][Next]_vars

\* A tab goes on: its promises, its worker and its interval.
FairSpec == Spec /\ \A t \in Tabs : WF_vars(Browser(t))
-----------------------------------------------------------------------------
\* A tab with the identity of a user: its session is there, or it is being signed out.
SignedIn(t) == identity[t] = "user"
InSession == \A t \in Tabs : SignedIn(t) => delegation = "valid"

\* The worker of a tab with an identity watches the session, or has told the tab that it is
\* over: no order of loading the worker and syncing the store leaves the tab unwatched.
SessionIsWatched ==
    \A t \in Tabs :
        SignedIn(t) /\ worker[t] => timer[t] \/ messages[t] > 0 \/ logout[t] # "no"

\* A page loads the private data of its user once, though syncAuth is called by the store
\* and by the worker (`ready`).
DataIsLoadedOnce == \A t \in Tabs : loads[t] <= 1 /\ (SignedIn(t) => loads[t] = 1)

\* The message of an automatic sign-out is shown exactly once, in the page after it, however
\* often the worker posts and the user reloads.
MessageIsShownOnce ==
    \A t \in Tabs : signOuts[t] = IF url[t] THEN toasts[t] + 1 ELSE toasts[t]

SessionIsSound == SessionIsWatched /\ DataIsLoadedOnce /\ MessageIsShownOnce

\* In the end no tab shows a session that is over.
SessionsEnd == []<>InSession
=============================================================================
