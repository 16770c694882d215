---------------------------- MODULE CanisterPages ----------------------------
(***************************************************************************)
(* The pages of the user's canisters (pages/Canisters.svelte and           *)
(* pages/CanisterDetail.svelte): the list that the backend keeps, the      *)
(* settings that the management canister keeps, and the dialogs that       *)
(* change both.  CreateCanister and TopUpCanister model what happens to a  *)
(* payment; here it succeeds or fails.                                     *)
(*                                                                         *)
(* A call that reads may return any value that was current since it was    *)
(* sent.  While a dialog works, the screen is busy and takes no clicks,    *)
(* but the user may still go back and forth in the history of the browser. *)
(***************************************************************************)
EXTENDS CanisterList, QueryAndUpdate

CONSTANTS
    People,         \* possible controllers, "me" among them
    Owned,          \* bound: the canisters that the user opens, links or creates
    Typed,          \* bound: the names that the user types
    Forced,         \* FORCE_CALL_STRATEGY, of {"query", "query_and_update"}
    MaxLoads,       \* bound on calls of get_canisters at one time
    MaxReads,       \* bound on calls of canister_status at one time
    MaxMoves,       \* bound on pages opened
    MaxDialogs,     \* bound on dialogs confirmed
    MaxTroubles     \* bound on calls that fail and on changes made elsewhere

ASSUME CanisterPagesAssumption ==
    /\ "me" \in People /\ Owned \subseteq CanisterIds /\ 0 \notin CanisterIds
    /\ Typed \subseteq RequestNames /\ Forced \subseteq {"query", "query_and_update"}
    /\ MaxLoads \in Nat /\ MaxReads \in Nat

VARIABLES
    linked,         \* the backend's list of the user's canisters
    controllers,    \* of each canister
    forced,         \* the strategy of this session
    store,          \* canistersStore: <<>> when undefined
    page,           \* where the user is
    selected,       \* selectedCanisterStore and the other state of CanisterDetail
    dialog,         \* the dialog that works
    loads,          \* listCanisters that are not answered
    reads,          \* reloadDetails that are not answered
    given,          \* history: controllers that were confirmed for a canister
    moves, dialogs, elsewhere, failures

pagesVars == <<linked, controllers, forced, store, page, selected, dialog, loads, reads, given,
               moves, dialogs, elsewhere, failures>>
bounds == <<moves, dialogs, elsewhere, failures>>

Nothing == 0
Unborn == {"unborn"}    \* in place of the controllers of a canister that does not exist
NoPage == [path |-> "elsewhere", id |-> Nothing]
NoSelection == [info |-> <<>>, details |-> <<>>, controller |-> "undefined", loading |-> TRUE,
                ready |-> FALSE, leaving |-> FALSE, notify |-> Nothing]
NoDialog == [kind |-> "none", phase |-> "none", id |-> Nothing, name |-> EmptyName,
             controller |-> "me", from |-> {}]
NoLoad == [by |-> "none", request |-> Sent("query"), seen |-> {}]
NoRead == [by |-> "none", id |-> Nothing, here |-> FALSE, seen |-> {}]
-----------------------------------------------------------------------------
(* The calls. *)

Free(slots, empty) == {s \in DOMAIN slots : slots[s] = empty}
First(free) == CHOOSE s \in free : \A t \in free : s <= t

\* queryCanisters, sent by the page or by a dialog
QueryCanisters(ls, by) ==
    [ls EXCEPT ![First(Free(ls, NoLoad))] =
        [by |-> by, request |-> Sent(forced), seen |-> {linked}]]

\* queryCanisterDetails
QueryCanisterDetails(rs, by, c) ==
    [rs EXCEPT ![First(Free(rs, NoRead))] =
        [by |-> by, id |-> c, here |-> TRUE, seen |-> {controllers[c]}]]

\* The calls that are not answered may return the new list or the new settings.
ListIsNow(l) ==
    /\ linked' = l
    /\ loads' = [s \in DOMAIN loads |-> IF loads[s] = NoLoad THEN NoLoad
                                         ELSE [loads[s] EXCEPT !.seen = @ \cup {l}]]

ControllersAreNow(c, s) ==
    /\ controllers' = [controllers EXCEPT ![c] = s]
    /\ reads' = [r \in DOMAIN reads |-> IF reads[r].id # c THEN reads[r]
                                         ELSE [reads[r] EXCEPT !.seen = @ \cup {s}]]
-----------------------------------------------------------------------------
(* CanisterDetail. *)

GetCanisterFromStore(c, st) ==
    IF st = <<>> \/ ~Has(st[1], c) THEN <<>> ELSE <<st[1][FindCanisterIndex(st[1], c)]>>

\* toHex of a principal is never the toText of one.
SameCanister(a, b) == FALSE

\* The reactive block.  Every setCanisters makes new objects, and so every one
\* of them selects the canister anew.
Selects(sel, c, st) ==
    LET info == GetCanisterFromStore(c, st)
        same == SameCanister(sel.info, info)
    IN  [sel EXCEPT !.ready = TRUE, !.info = info,
                    !.details = IF same THEN @ ELSE <<>>,
                    !.controller = IF same THEN @ ELSE "undefined",
                    !.loading = @ \/ info # <<>>,
                    !.leaving = @ \/ info = <<>>]

CanistersStoreReady(sel, st) == sel.ready \/ st # <<>>

\* notifyIfNeeded asks once for each page that is opened.
NotifyIfNeeded(sel) ==
    IF sel.notify = Nothing /\ sel.info # <<>> THEN [sel EXCEPT !.notify = sel.info[1].id] ELSE sel

\* What a change of the store or of the canister in the URL does to the page.
React(sel, p, st, rs) ==
    IF p.path # "canister" \/ ~CanistersStoreReady(sel, st) THEN selected' = sel /\ reads' = rs
    ELSE /\ selected' = NotifyIfNeeded(Selects(sel, p.id, st))
         /\ reads' = IF selected'.info = <<>> THEN rs ELSE QueryCanisterDetails(rs, "page", p.id)

\* Mutant of Loaded: an error leaves the loader.
LoadedForever(sel, answer) ==
    [sel EXCEPT !.details = IF answer.kind = "ok" THEN <<answer.details>> ELSE <<>>,
                !.controller = CASE answer.kind = "ok" -> "true"
                                 [] answer.kind = "not_controller" -> "false"
                                 [] OTHER -> "undefined",
                !.loading = @ /\ answer.kind # "ok"]

\* reloadDetails after its answer, whichever canister the page shows by now
Loaded(sel, answer) ==
    [sel EXCEPT !.details = IF answer.kind = "ok" THEN <<answer.details>> ELSE <<>>,
                !.controller = CASE answer.kind = "ok" -> "true"
                                 [] answer.kind = "not_controller" -> "false"
                                 [] OTHER -> "undefined",
                !.loading = FALSE]

\* toCanisterDetails
ToCanisterDetails(c, s) == [id |-> c, controllers |-> s]

\* mapError: IC0512 says that the user is not a controller.
MapError(c, s) ==
    [kind |-> IF "me" \in s THEN "ok" ELSE IF s = Unborn THEN "error" ELSE "not_controller", details |-> ToCanisterDetails(c, s)]

\* The page shows the controllers, an error in their place, or a skeleton.
ControllersCard == selected.details # <<>>

ErrorKey == selected.controller = "false" \/ (selected.controller = "undefined" /\ ~selected.loading)
SkeletonCard == ~ControllersCard /\ ~ErrorKey
-----------------------------------------------------------------------------
(* Navigation. *)

Busy == dialog.phase # "none"
IsRoute(path) == page.path = path

\* The calls of a page that is gone answer to nobody.
Orphaned ==
    [s \in DOMAIN reads |-> IF reads[s].by = "page" THEN NoRead
                            ELSE IF reads[s] = NoRead THEN NoRead
                            ELSE [reads[s] EXCEPT !.here = FALSE]]

Moves == moves < MaxMoves /\ moves' = moves + 1

\* reloadRouteData: coming back from a canister keeps a list that is not empty.
ReloadRouteData(st) == st \in {<<>>, << <<>> >>} \/ ~IsRoute("canister")

\* goto(AppPath.Canisters): Canisters is mounted, unless the user is there already.
CanistersPage(st, ls) ==
    /\ page' = [path |-> "canisters", id |-> Nothing]
    /\ selected' = NoSelection
    /\ reads' = Orphaned
    /\ IF ~IsRoute("canisters") /\ ReloadRouteData(st)
       THEN store' = <<>> /\ Free(ls, NoLoad) # {} /\ loads' = QueryCanisters(ls, "page")
       ELSE store' = st /\ loads' = ls

OpenCanisters ==
    /\ Moves /\ ~IsRoute("canisters")
    /\ CanistersPage(store, loads)
    /\ UNCHANGED <<linked, controllers, forced, dialog, given, dialogs, elsewhere, failures>>

\* goBack, when the canister of the URL is not in the list
GoBack ==
    /\ IsRoute("canister") /\ selected.leaving
    /\ CanistersPage(store, loads)
    /\ UNCHANGED <<linked, controllers, forced, dialog, given, bounds>>

\* A card of the list, or a URL of any canister.  CanisterDetail is mounted ...
OpenCanister(c) ==
    /\ Moves /\ ~IsRoute("canister") /\ Free(Orphaned, NoRead) # {}
    /\ page' = [path |-> "canister", id |-> c]
    /\ React(NoSelection, page', store, Orphaned)
    /\ IF store = <<>> THEN Free(loads, NoLoad) # {} /\ loads' = QueryCanisters(loads, "page")
                       ELSE UNCHANGED loads
    /\ UNCHANGED <<linked, controllers, forced, store, dialog, given, dialogs, elsewhere, failures>>

\* ... or shows another canister, after a jump in the history.
SwitchCanister(c) ==
    /\ Moves /\ IsRoute("canister") /\ page.id # c /\ Free(reads, NoRead) # {}
    /\ page' = [page EXCEPT !.id = c]
    /\ React(selected, page', store, reads)
    /\ UNCHANGED <<linked, controllers, forced, store, dialog, loads, given, dialogs, elsewhere, failures>>

Leave ==
    /\ Moves /\ page # NoPage
    /\ page' = NoPage /\ selected' = NoSelection /\ reads' = Orphaned
    /\ UNCHANGED <<linked, controllers, forced, store, dialog, loads, given, dialogs, elsewhere, failures>>
-----------------------------------------------------------------------------
(* Answers. *)

MayFail == failures + elsewhere < MaxTroubles /\ failures' = failures + 1
ListKinds == {"link", "rename", "unlink", "create"}

\* What a dialog does when its last await returns: stopBusy, nnsClose.
Ends == dialog' = NoDialog

\* A query or an update of listCanisters was answered.
Remaining(s, certified) ==
    LET r == Answered(loads[s].request, certified)
    IN  [loads EXCEPT ![s] = IF r.waiting = {} THEN NoLoad ELSE [@ EXCEPT !.request = r]]

\* The promise that a dialog awaits is resolved by the first answer.
IsAwaited(s) ==
    loads[s].by = "op" /\ dialog.phase = "list" /\ loads[s].request.waiting = CallsOf(forced)

\* What follows when the store is st after an answer: the page reacts, and the
\* dialog that waited ends, UnlinkCanisterModal by going to the list.
Continue(s, certified, st) ==
    /\ certified \in loads[s].request.waiting /\ loads[s] # NoLoad
    /\ IF IsAwaited(s) THEN Ends ELSE UNCHANGED dialog
    /\ IF IsAwaited(s) /\ dialog.kind = "unlink" THEN CanistersPage(st, Remaining(s, certified))
       ELSE /\ store' = st /\ loads' = Remaining(s, certified)
            /\ UNCHANGED page
            /\ IF st = store THEN UNCHANGED <<selected, reads>>
               ELSE Free(reads, NoRead) # {} /\ React(selected, page, st, reads)
    /\ UNCHANGED <<linked, controllers, forced, given, moves, dialogs, elsewhere>>

\* setCanisters
ListAnswers(s, certified) ==
    /\ \E value \in loads[s].seen :
          Continue(s, certified, IF Heard(loads[s].request) THEN <<value>> ELSE store)
    /\ UNCHANGED failures

\* isLastCall
IsLastCall(strategy, certified) == strategy = "query" \/ certified

\* The list is empty when the last call failed.
ListFails(s, certified) ==
    /\ MayFail
    /\ Continue(s, certified, IF Heard(loads[s].request) /\ IsLastCall(forced, certified)
                             THEN << <<>> >> ELSE store)

\* The details come.
ReadEnds(s, answer) ==
    /\ reads[s] # NoRead
    /\ reads' = [reads EXCEPT ![s] = NoRead]
    /\ selected' = IF reads[s].here THEN Loaded(selected, answer) ELSE selected
    /\ IF reads[s].by = "op" THEN Ends ELSE UNCHANGED dialog
    /\ UNCHANGED <<linked, controllers, forced, store, page, loads, given, moves, dialogs, elsewhere>>

DetailsAnswer(s) ==
    /\ \E value \in reads[s].seen : ReadEnds(s, MapError(reads[s].id, value))
    /\ UNCHANGED failures

DetailsFail(s) == MayFail /\ ReadEnds(s, [kind |-> "error"])

\* notifyTopUpIfNeeded answered, and did or did not notify the CMC.
NotifyAnswers ==
    /\ selected.notify \in CanisterIds
    /\ \/ UNCHANGED reads
       \/ Free(reads, NoRead) # {} /\ reads' = QueryCanisterDetails(reads, "page", selected.notify)
    /\ selected' = [selected EXCEPT !.notify = -1, !.loading = @ \/ reads' # reads]
    /\ UNCHANGED <<linked, controllers, forced, store, page, dialog, loads, given, bounds>>
-----------------------------------------------------------------------------
(* Dialogs. *)

\* errorCanisterNameMessage: too many characters disable the button.
ErrorCanisterNameMessage(n) == n = LongName

Confirms(kind, id, name, controller, from) ==
    /\ ~Busy /\ dialogs < MaxDialogs
    /\ dialogs' = dialogs + 1
    /\ dialog' = [kind |-> kind, phase |-> "call", id |-> id, name |-> name,
                  controller |-> controller, from |-> from]
    /\ UNCHANGED <<linked, controllers, forced, store, page, selected, loads, reads,
                   moves, elsewhere, failures>>

LinkCanisterModal(c, n) ==
    /\ IsRoute("canisters") /\ ~ErrorCanisterNameMessage(n)
    /\ Confirms("link", c, n, "me", {})
    /\ UNCHANGED given

RenameCanisterModal(n) ==
    /\ IsRoute("canister") /\ selected.info # <<>> /\ ~ErrorCanisterNameMessage(n)
    /\ Confirms("rename", selected.info[1].id, n, "me", {})
    /\ UNCHANGED given

UnlinkCanisterModal ==
    /\ IsRoute("canister") /\ selected.info # <<>>
    /\ Confirms("unlink", selected.info[1].id, EmptyName, "me", {})
    /\ UNCHANGED given

\* areEnoughCyclesSelected: the amount buys cycles, and the minimum if there is one.
SelectCyclesCanister(cycles, minimum) == cycles >= minimum /\ cycles > 0

CreateCanisterModal(n, cycles) ==
    /\ IsRoute("canisters") /\ ~ErrorCanisterNameMessage(n) /\ SelectCyclesCanister(cycles, 2)
    /\ \E c \in Owned : ~Has(linked, c) /\ controllers[c] = Unborn
    /\ Confirms("create", Nothing, n, "me", {})
    /\ UNCHANGED given

AddCyclesModal(cycles) ==
    /\ IsRoute("canister") /\ selected.info # <<>> /\ SelectCyclesCanister(cycles, 0)
    /\ Confirms("cycles", selected.info[1].id, EmptyName, "me", {})
    /\ UNCHANGED given

\* ControllersCard is shown with the details.  The dialog names the canister of
\* the details, and so that is the one that the user confirms.
IsController(p) == p \in selected.details[1].controllers

\* Mutant of SettingsOf: the canister in the URL
SettingsOfUrl == page.id

\* The canister whose settings are replaced
SettingsOf == selected.details[1].id

\* addController and removeController
WithController(p) == selected.details[1].controllers \cup {p}
WithoutController(p) == selected.details[1].controllers \ {p}

NewControllerReview(p) ==
    /\ IsRoute("canister") /\ ControllersCard /\ ~IsController(p)
    /\ Confirms("add", SettingsOf, EmptyName, p, WithController(p))
    /\ given' = given \cup {<<selected.details[1].id, p>>}

RemoveCanisterControllerModal(p) ==
    /\ IsRoute("canister") /\ ControllersCard /\ IsController(p)
    /\ Confirms("remove", SettingsOf, EmptyName, p, WithoutController(p))
    /\ UNCHANGED given

\* Mutant of ReloadsList: the list is loaded before the call only.
ReloadsListNever == dialog' = NoDialog /\ UNCHANGED loads

\* await listCanisters({ clearBeforeQuery: false })
ReloadsList ==
    /\ dialog' = [dialog EXCEPT !.phase = "list"]
    /\ Free(loads, NoLoad) # {}
    /\ loads' = QueryCanisters(loads, "op")

\* The call failed: a toast, and the dialog stays open for another attempt.
CallFails == dialog' = NoDialog

\* The api refuses a name with too many characters.
AttachIsSent == dialog.name # LongName
RenameIsSent == dialog.name # LongName

\* The wrapper of the backend throws unless the answer is Ok.
AttachIsOk == AttachResponse(linked, dialog.name, dialog.id) = "Ok"
RenameIsOk == RenameResponse(linked, dialog.name, dialog.id) = "Ok"
DetachIsOk == Has(linked, dialog.id)

\* The backend executes a call, or refuses it.
Executes(kind, accepted, after) ==
    /\ dialog.phase = "call" /\ dialog.kind = kind
    /\ IF accepted
       THEN dialog' = [dialog EXCEPT !.phase = "done"] /\ \E l \in after : ListIsNow(l)
       ELSE CallFails /\ UNCHANGED <<linked, loads>>
    /\ UNCHANGED <<controllers, forced, store, page, selected, reads, given, bounds>>

\* attachCanister, renameCanister and detachCanister
LinkExecutes ==
    Executes("link", AttachIsSent /\ AttachIsOk, AfterAttach(linked, dialog.name, dialog.id))

RenameExecutes ==
    Executes("rename", RenameIsSent /\ RenameIsOk, AfterRename(linked, dialog.name, dialog.id))

UnlinkExecutes == Executes("unlink", DetachIsOk, {AfterDetach(linked, dialog.id)})

\* createCanister makes a new canister and attaches it; if it may not have that
\* name, the periodic task of the backend attaches it without one.
CreateExecutes(c) ==
    /\ dialog.phase = "call" /\ dialog.kind = "create"
    /\ ~Has(linked, c) /\ controllers[c] = Unborn
    /\ controllers' = [controllers EXCEPT ![c] = {"me"}]
    /\ given' = given \cup {<<c, "me">>}
    /\ IF AttachResponse(linked, dialog.name, c) = "Ok"
       THEN /\ dialog' = [dialog EXCEPT !.phase = "done", !.id = c]
            /\ \E l \in AfterAttach(linked, dialog.name, c) : ListIsNow(l)
       ELSE CallFails /\ \E l \in AfterNewlyCreated(linked, c) : ListIsNow(l)
    /\ UNCHANGED <<forced, store, page, selected, reads, bounds>>

\* updateSettings replaces all controllers by the ones of the page; only a controller may do that.
SettingsExecute ==
    /\ dialog.phase = "call" /\ dialog.kind \in {"add", "remove"}
    /\ IF "me" \in controllers[dialog.id]
       THEN /\ dialog' = [dialog EXCEPT !.phase = "done"]
            /\ ControllersAreNow(dialog.id, dialog.from)
       ELSE CallFails /\ UNCHANGED <<controllers, reads>>
    /\ UNCHANGED <<linked, forced, store, page, selected, loads, given, bounds>>

CyclesExecute ==
    /\ dialog.phase = "call" /\ dialog.kind = "cycles"
    /\ dialog' = [dialog EXCEPT !.phase = "done"]
    /\ UNCHANGED <<linked, controllers, forced, store, page, selected, loads, reads, given, bounds>>

\* The answer arrives.
ListCallAnswers ==
    /\ dialog.phase = "done" /\ dialog.kind \in ListKinds
    /\ ReloadsList
    /\ UNCHANGED <<linked, controllers, forced, store, page, selected, reads, given, bounds>>

SettingsAnswer ==
    /\ dialog.phase = "done" /\ dialog.kind \notin ListKinds
    /\ dialog' = [dialog EXCEPT !.phase = "reload"]
    /\ Free(reads, NoRead) # {}
    /\ LET rs == QueryCanisterDetails(reads, "op", dialog.id)
       IN  IF IsRoute("canister")
           THEN reads' = rs /\ selected' = [selected EXCEPT !.loading = TRUE]
           ELSE /\ reads' = [s \in DOMAIN rs |-> [rs[s] EXCEPT !.here = FALSE]]
                /\ UNCHANGED selected
    /\ UNCHANGED <<linked, controllers, forced, store, page, loads, given, bounds>>

\* The call failed before or after it was executed.
CallIsLost ==
    /\ MayFail
    /\ dialog.phase \in {"call", "done"}
    /\ CallFails
    /\ UNCHANGED <<linked, controllers, forced, store, page, selected, loads, reads, given,
                   moves, dialogs, elsewhere>>

\* In another tab, or with another tool
Elsewhere ==
    /\ failures + elsewhere < MaxTroubles /\ elsewhere' = elsewhere + 1
    /\ \/ /\ \E c \in {x.id : x \in Elems(linked)} : ListIsNow(AfterDetach(linked, c))
          /\ UNCHANGED <<controllers, reads, given>>
       \/ /\ \E c \in CanisterIds, p \in People :
                /\ p \notin controllers[c] /\ controllers[c] # Unborn
                /\ ControllersAreNow(c, controllers[c] \cup {p})
                /\ given' = given \cup {<<c, p>>}
          /\ UNCHANGED <<linked, loads>>
    /\ UNCHANGED <<forced, store, page, selected, dialog, moves, dialogs, failures>>
-----------------------------------------------------------------------------
\* The user has one canister or two, and may not control the second one.
PagesInit ==
    /\ \E c, d \in Owned :
          /\ c < d
          /\ \/ /\ linked = <<[name |-> EmptyName, id |-> c]>>
                /\ controllers = [x \in CanisterIds |-> IF x = c THEN {"me"} ELSE Unborn]
             \/ /\ linked = <<[name |-> EmptyName, id |-> c], [name |-> EmptyName, id |-> d]>>
                /\ \E s \in {{"me"}, People \ {"me"}} :
                      controllers = [x \in CanisterIds |-> IF x = c THEN {"me"}
                                                          ELSE IF x = d THEN s ELSE Unborn]
    /\ forced \in Forced
    /\ store = <<>> /\ page = NoPage /\ selected = NoSelection /\ dialog = NoDialog
    /\ loads = [s \in 1 .. MaxLoads |-> NoLoad]
    /\ reads = [s \in 1 .. MaxReads |-> NoRead]
    /\ given = {x \in CanisterIds \X People : x[2] \in controllers[x[1]]}
    /\ moves = 0 /\ dialogs = 0 /\ elsewhere = 0 /\ failures = 0

Browser ==
    \/ \E s \in DOMAIN loads, certified \in BOOLEAN : ListAnswers(s, certified) \/ ListFails(s, certified)
    \/ \E s \in DOMAIN reads : DetailsAnswer(s) \/ DetailsFail(s)
    \/ GoBack \/ NotifyAnswers \/ LinkExecutes \/ RenameExecutes \/ UnlinkExecutes \/ SettingsExecute \/ CyclesExecute
    \/ \E c \in Owned : CreateExecutes(c)
    \/ ListCallAnswers \/ SettingsAnswer \/ CallIsLost

User ==
    \/ OpenCanisters \/ Leave \/ UnlinkCanisterModal \/ Elsewhere
    \/ \E cycles \in 0 .. 2 : AddCyclesModal(cycles)
    \/ \E c \in Owned : OpenCanister(c) \/ SwitchCanister(c)
    \/ \E n \in Typed :
          \/ RenameCanisterModal(n) \/ \E cycles \in 0 .. 2 : CreateCanisterModal(n, cycles)
          \/ \E c \in Owned : LinkCanisterModal(c, n)
    \/ \E p \in People : NewControllerReview(p) \/ RemoveCanisterControllerModal(p)

PagesNext == Browser \/ User

PagesSpec == PagesInit /\ [][PagesNext]_pagesVars

\* Every call is answered or fails.
FairPages == PagesSpec /\ WF_pagesVars(Browser)
-----------------------------------------------------------------------------
Paths == {"elsewhere", "canisters", "canister"}
Phases == {"none", "call", "done", "list", "reload"}
Kinds == {"none", "link", "rename", "unlink", "create", "cycles", "add", "remove"}
Details == [id : CanisterIds, controllers : SUBSET People]
Selections ==
    [info : Seq(NamedCanister), details : Seq(Details), controller : {"true", "false", "undefined"},
     loading : BOOLEAN, ready : BOOLEAN, leaving : BOOLEAN, notify : CanisterIds \cup {Nothing, -1}]
Dialogs ==
    [kind : Kinds, phase : Phases, id : CanisterIds \cup {Nothing}, name : RequestNames,
     controller : People, from : SUBSET People]
Loads == [by : {"none", "page", "op"}, request : Requests, seen : SUBSET Seq(NamedCanister)]
Reads ==
    [by : {"none", "page", "op"}, id : CanisterIds \cup {Nothing}, here : BOOLEAN,
     seen : SUBSET ((SUBSET People) \cup {Unborn})]

PagesTypeOK ==
    /\ linked \in Seq(NamedCanister)
    /\ controllers \in [CanisterIds -> (SUBSET People) \cup {Unborn}]
    /\ forced \in Forced
    /\ store \in Seq(Seq(NamedCanister))
    /\ page \in [path : Paths, id : CanisterIds \cup {Nothing}]
    /\ selected \in Selections
    /\ dialog \in Dialogs
    /\ loads \in [1 .. MaxLoads -> Loads]
    /\ reads \in [1 .. MaxReads -> Reads]
    /\ given \subseteq CanisterIds \X People

\* A canister has no controllers but those that were confirmed for it, although
\* the page may show the details of a canister whose answer came late, under the
\* heading of another one: the dialogs replace all the settings of a canister by
\* the ones that are shown.
ControllersWereConfirmed ==
    \A c \in CanisterIds : controllers[c] # Unborn => {c} \X controllers[c] \subseteq given

\* What the pages and the settings are, at every moment
SettingsAreSound == PagesTypeOK /\ ControllersWereConfirmed

\* When a dialog reports success, the list shows what it did, or was changed
\* elsewhere since, or could not be loaded; or the list is still on its way.
ShownIn(l, d) ==
    CASE d.kind = "unlink" -> ~Has(l, d.id)
      [] d.kind = "link" -> Has(l, d.id)
      [] OTHER -> \E x \in Elems(l) : x.id = d.id /\ (d.kind = "rename" => x.name = d.name)

SuccessStep ==
    (dialog.phase \in {"done", "list"} /\ dialog.kind \in ListKinds /\ dialog'.phase = "none"
        /\ failures' = failures /\ elsewhere = 0)
    => \/ store' # <<>> /\ ShownIn(store'[1], dialog)
       \/ \E s \in DOMAIN loads' : loads'[s] # NoLoad

SuccessIsShown == [][SuccessStep]_pagesVars

\* The screen does not stay busy, and the page of a canister does not stay with
\* its loader: it shows the controllers or an error, or is left.
Loading == IsRoute("canister") /\ SkeletonCard
Settles == []<>(~Busy /\ ~Loading)

\* "if we reload the details of the same canister, we keep the current list to
\* avoid a flickering of the screen" (CanisterDetail.svelte, line 145).  Violated:
\* the ids are compared in two different formats.
DetailsAreKept ==
    [][(/\ store' # store
        /\ selected.info # <<>> /\ selected'.info # <<>>
        /\ selected.info[1].id = selected'.info[1].id
        /\ selected.details # <<>>) => selected'.details # <<>>]_pagesVars
=============================================================================
