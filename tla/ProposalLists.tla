---------------------------- MODULE ProposalLists ----------------------------
(***************************************************************************)
(* The lists of proposals of one universe: filters, pages loaded while the *)
(* user scrolls, and the scan for proposals that the user can vote on.     *)
(* The list of the NNS is in a queued store and starts anew with every     *)
(* filter; the list of an SNS project is one set for all filters.          *)
(*                                                                         *)
(* A proposal is its id and has a topic (in an SNS project the topic is    *)
(* the function it calls).  The filter by status works like the filter by  *)
(* topic and is left out, and so is everything that a card shows.          *)
(***************************************************************************)
EXTENDS QueryAndUpdate, QueuedStore, FiniteSets, FiniteSetsExt

CONSTANTS
    Kinds,             \* the universes to check, of {"nns", "sns"}
    Forced,            \* FORCE_CALL_STRATEGY of a session, of {"query", "query_and_update"}
    MaxId,             \* bound on proposals
    TopicOf,           \* 1 .. MaxId -> topics
    Native, Generic,   \* functions of an SNS project
    Limit,             \* DEFAULT_LIST_PAGINATION_LIMIT, DEFAULT_SNS_PROPOSALS_PAGE_SIZE
    MaxPages,          \* MAX_ACTIONABLE_REQUEST_COUNT
    MaxRequests, MaxSnsRequests, MaxFilters, MaxOpens, MaxFailures   \* bounds

VARIABLES
    kind, forced,
    top,         \* governance: proposals 1 .. top exist
    voting,      \* governance: those that accept votes
    functions,   \* governance of the SNS: the functions that exist
    filter,      \* proposalsFiltersStore: topics; all of them if empty
    types,       \* snsFiltersStore: function or "generic" -> checked
    store,       \* proposalsStore, a queued store of Ids -> listed
    snsStore,    \* snsProposalsStore: [proposals, completed, loaded]
    page,        \* the component of the list
    debounced,   \* the component whose findProposals waits 250 ms, 0 if none
    requests,    \* requests that are not answered completely
    scan,        \* the search for actionable proposals
    answered,    \* history: what the answers of the SNS brought
    listedFor,   \* history: the filter of the last request for a first page
    sent, filters, opens, failures

governance == <<kind, forced, top, voting, functions>>
history == <<answered, listedFor>>
counters == <<sent, filters, opens, failures>>
vars == <<governance, filter, types, store, snsStore, page, debounced, requests, scan, history, counters>>

Ids == 1 .. MaxId
Topics == {TopicOf[p] : p \in Ids}
Listed(data) == {p \in Ids : data[p]}
NoScan == [phase |-> "off", found |-> {}, pages |-> 0, start |-> {}, seen |-> {}]
-----------------------------------------------------------------------------
(* Filters.                                                                 *)

\* hideProposal's condition, the other way round.
MatchFilters(p, topics) == topics = {} \/ TopicOf[p] \in topics

\* The entry of the types filter for a function: one for all generic ones.
TypeId(f) == IF f \in Generic THEN "generic" ELSE f
Checked == {id \in DOMAIN types : types[id]}

\* Mutant: the generic functions are taken for native ones.
ToExcludeTypeParameterById(checked, fs) == IF checked = {} THEN {} ELSE fs \ checked

\* The functions whose proposals the request for a page leaves out.
ToExcludeTypeParameter(checked, fs) ==
    IF checked = {} THEN {}
    ELSE {f \in fs \cap Native : f \notin checked}
         \cup (IF "generic" \in checked THEN {} ELSE fs \cap Generic)

\* snsFilteredProposalsStore: what is shown of the store.
SnsMatch(p) == Checked = {} \/ TypeId(TopicOf[p]) \in Checked

\* New types are checked, known ones stay as they are.
GenerateSnsProposalTypesFilterData(fs) ==
    [id \in {TypeId(f) : f \in fs} |-> id \in DOMAIN types => types[id]]

\* The operations of snsFiltersStore: types are set as a whole, or the checks
\* of those that are there.
SetTypes(new) == types' = new
SetCheckTypes(checked) == types' = [id \in DOMAIN types |-> id \in checked]

\* Everything is checked or nothing is known before the filters are loaded.
LoadSnsFilters == SetTypes(GenerateSnsProposalTypesFilterData(functions))
-----------------------------------------------------------------------------
(* Pages.                                                                   *)

\* The newest Limit proposals of those in s that are older than before.
PageOf(s, before) ==
    LET older == {p \in s : before = 0 \/ p < before} IN
    {p \in older : Cardinality({q \in older : q > p}) < Limit}

\* list_proposals of NNS governance for the filter of a request.
QueryProposals(t, r) == PageOf({p \in 1 .. t : MatchFilters(p, r.topics)}, r.before)

\* list_proposals of an SNS governance.
QuerySnsProposals(t, r) == PageOf({p \in 1 .. t : TopicOf[p] \notin r.excluded}, r.before)

\* The last proposal of the sorted list; 0 stands for undefined.
LastProposalId(list) == IF list = {} THEN 0 ELSE Min(list)

\* The order in which proposals are shown and walked through.
PreviousId(list, p) == LET newer == {q \in list : q > p} IN IF newer = {} THEN 0 ELSE Min(newer)
NextId(list, p) == LET older == {q \in list : q < p} IN IF older = {} THEN 0 ELSE Max(older)

NoPage == [open |-> FALSE, mount |-> 0, loading |-> FALSE, over |-> FALSE,
           initialized |-> FALSE, token |-> 0, proposal |-> 0]

SortedProposals == Listed(store.exposed)
FilteredProposals == {p \in SortedProposals : MatchFilters(p, filter)}
SnsFilteredProposals == {p \in snsStore.proposals : SnsMatch(p)}

\* What the page shows: only a list can be scrolled.
NnsProposalsList ==
    CASE page.loading /\ SortedProposals = {} -> "skeleton"
      [] FilteredProposals = {}               -> "none"
      [] OTHER                                -> "list"
SnsProposalsList ==
    CASE ~snsStore.loaded            -> "skeleton"
      [] SnsFilteredProposals = {}   -> "none"
      [] OTHER                       -> "list"

\* The choices of the filter modals: any topics, any types.
NnsProposalsFilterModal == SUBSET Topics
SnsProposalsFilters == SUBSET DOMAIN types
-----------------------------------------------------------------------------
Request(before, strategy) ==
    [key |-> sent + 1, before |-> before, topics |-> filter,
     excluded |-> ToExcludeTypeParameter(Checked, functions),
     top |-> top, query |-> {}, mount |-> page.mount, calls |-> Sent(strategy)]

\* listProposals and listNextProposals reserve a spot whose strategy is
\* query and update, and send the request with the session's strategy.
ListProposals(before, mount) ==
    /\ sent < MaxRequests
    /\ sent' = sent + 1
    /\ store' = GetSingleMutationStore(store, sent + 1, "query_and_update")
    /\ requests' = requests \cup {[Request(before, forced) EXCEPT !.mount = mount]}
    /\ listedFor' = IF before = 0 THEN filter ELSE listedFor

LoadSnsProposals(before) ==
    /\ sent < MaxSnsRequests
    /\ sent' = sent + 1
    /\ requests' = requests \cup {Request(before, "query_and_update")}

SetProposals(proposals) == [p \in Ids |-> p \in proposals]
PushProposals(proposals) == [p \in proposals |-> TRUE]
RemoveProposals(proposals) == [p \in proposals |-> FALSE]
ProposalsHaveSameIds(a, b) == a = b
ExcludeProposals(proposals, exclusion) == proposals \ exclusion

\* What the query brought and the update did not.
ValidateResponses(trusted, untrusted) ==
    IF ProposalsHaveSameIds(trusted, untrusted) THEN {}
    ELSE ExcludeProposals(untrusted, trusted)

\* The store after an answer.  Removing untrusted proposals takes the spot's
\* certified mutation, and what follows throws.
OnLoad(s, r, proposals, certified) ==
    LET removed == IF certified /\ r.query # {}
                   THEN ValidateResponses(proposals, UNION r.query) ELSE {}
        validated == IF removed = {} THEN s
                     ELSE AddMutation(s, r.key, TRUE, RemoveProposals(removed))
        mutation == IF r.before = 0 THEN SetProposals(proposals) ELSE PushProposals(proposals)
        unchanged == r.before # 0 /\ proposals = {}
    IN  [store |-> IF ~unchanged /\ MayAdd(validated, r.key, certified)
                   THEN AddMutation(validated, r.key, certified, mutation) ELSE validated,
         finished |-> unchanged \/ MayAdd(validated, r.key, certified)]

\* The last call of the strategy failed: the list is emptied.
HandleFindProposalsError(s, r, certified) ==
    IF (certified \/ r.calls.strategy = "query") /\ MayAdd(s, r.key, certified)
    THEN AddMutation(s, r.key, certified, SetProposals({})) ELSE s

\* wrapProposalLoading ends with the first answer of its request, and so
\* does the first load of a component.
WrapProposalLoading(r, over) ==
    IF r.mount # page.mount \/ ~page.open THEN page
    ELSE [page EXCEPT !.over = IF over = {} THEN @ ELSE CHOOSE o \in over : TRUE,
                      !.loading = @ /\ page.token # r.key,
                      !.initialized = TRUE]

Rest(r, call) ==
    (requests \ {r}) \cup {q \in {call} : q.calls.waiting # {}}
-----------------------------------------------------------------------------
(* The page of the NNS.                                                     *)

\* A component is mounted: the list is loaded unless the user comes back
\* from a proposal and there is a list.  A page is not left and opened again
\* within the 250 ms of a debounced search.
ReloadRouteData == page.proposal = 0 \/ SortedProposals = {}
Mount ==
    /\ kind = "nns" /\ scan.phase = "off" /\ ~page.open /\ debounced = 0 /\ opens < MaxOpens
    /\ opens' = opens + 1
    /\ page' = [NoPage EXCEPT !.open = TRUE, !.mount = opens + 1, !.loading = TRUE,
                              !.initialized = ~ReloadRouteData, !.token = sent + 1]
    /\ IF ReloadRouteData THEN ListProposals(0, opens + 1)
       ELSE UNCHANGED <<store, requests, listedFor, sent>>
    /\ UNCHANGED <<governance, filter, types, snsStore, debounced, scan, answered, filters, failures>>

\* The user leaves the page, for a proposal of the list or for another page.
Leave(p) ==
    /\ page.open
    /\ page' = [NoPage EXCEPT !.mount = page.mount, !.proposal = p]
    /\ UNCHANGED <<governance, filter, types, store, snsStore, debounced, requests, scan, history, counters>>

\* The user walks to the neighbour in the list, from one proposal to another.
Navigate ==
    /\ ~page.open /\ page.proposal # 0
    /\ LET list == IF kind = "nns" THEN FilteredProposals ELSE SnsFilteredProposals IN
       \E p \in {PreviousId(list, page.proposal), NextId(list, page.proposal)} \ {0} :
          page' = [page EXCEPT !.proposal = p]
    /\ UNCHANGED <<governance, filter, types, store, snsStore, debounced, requests, scan, history, counters>>

\* The list is shown, its end is not known and nothing is loading.
FindNextProposals ==
    /\ kind = "nns" /\ page.open /\ ~page.over /\ ~page.loading /\ NnsProposalsList = "list"
    /\ ListProposals(LastProposalId(SortedProposals), page.mount)
    /\ page' = [page EXCEPT !.loading = TRUE, !.token = sent + 1]
    /\ UNCHANGED <<governance, filter, types, snsStore, debounced, scan, answered, filters, opens, failures>>

\* The user confirms the filter modal.  applyFilter empties the list and
\* calls findProposals later; it does nothing while the first load runs.
ApplyFilter(topics) ==
    /\ kind = "nns" /\ page.open /\ filters < MaxFilters /\ topics # filter
    /\ filters' = filters + 1
    /\ filter' = topics
    /\ IF page.initialized
       THEN /\ sent' = sent + 1
            /\ store' = AddMutation(GetSingleMutationStore(store, sent + 1, "query_and_update"),
                                    sent + 1, TRUE, SetProposals({}))
            /\ page' = [page EXCEPT !.over = FALSE, !.loading = TRUE]
            /\ debounced' = page.mount
       ELSE UNCHANGED <<sent, store, page, debounced>>
    /\ UNCHANGED <<governance, types, snsStore, requests, scan, history, opens, failures>>

DebounceFindProposals ==
    /\ debounced # 0
    /\ ListProposals(0, debounced)
    /\ debounced' = 0
    /\ page' = IF debounced = page.mount /\ page.open
               THEN [page EXCEPT !.loading = TRUE, !.token = sent + 1] ELSE page
    /\ UNCHANGED <<governance, filter, types, snsStore, scan, answered, filters, opens, failures>>

\* An answer of list_proposals, computed at any time since it was asked.
FindProposals(r, certified) ==
    /\ kind = "nns" /\ certified \in r.calls.waiting
    /\ \E t \in r.top .. top :
       LET proposals == QueryProposals(t, r)
           loaded == OnLoad(store, r, proposals, certified)
           call == [r EXCEPT !.calls = Answered(@, certified),
                             !.query = IF certified THEN @ ELSE {proposals}]
       IN  /\ requests' = Rest(r, call)
           /\ store' = IF Heard(r.calls) THEN loaded.store ELSE store
           /\ page' = WrapProposalLoading(r, IF Heard(r.calls) /\ loaded.finished
                                             THEN {Cardinality(proposals) < Limit} ELSE {})
    /\ UNCHANGED <<governance, filter, types, snsStore, debounced, scan, history, counters>>

FindProposalsFails(r, certified) ==
    /\ kind = "nns" /\ certified \in r.calls.waiting /\ failures < MaxFailures
    /\ failures' = failures + 1
    /\ requests' = Rest(r, [r EXCEPT !.calls = Answered(@, certified)])
    /\ store' = IF Heard(r.calls) THEN HandleFindProposalsError(store, r, certified) ELSE store
    /\ page' = WrapProposalLoading(r, {})
    /\ UNCHANGED <<governance, filter, types, snsStore, debounced, scan, history, sent, filters, opens>>
-----------------------------------------------------------------------------
(* The page of an SNS project.                                              *)

\* The project's page is opened: filters for new functions, then a first page.
SnsMount ==
    /\ kind = "sns" /\ scan.phase = "off" /\ ~page.open /\ opens < MaxOpens
    /\ opens' = opens + 1
    /\ page' = [NoPage EXCEPT !.open = TRUE, !.mount = opens + 1]
    /\ LoadSnsFilters
    /\ LoadSnsProposals(0)
    /\ UNCHANGED <<governance, filter, store, snsStore, debounced, scan, history, filters, failures>>

\* The user confirms; the proposals are fetched at once.
SnsFilterTypesModal(checked) ==
    /\ kind = "sns" /\ page.open /\ filters < MaxFilters
    /\ filters' = filters + 1
    /\ SetCheckTypes(checked)
    /\ LET exclude == ToExcludeTypeParameter(checked, functions) IN
       /\ sent < MaxSnsRequests
       /\ sent' = sent + 1
       /\ requests' = requests \cup {[Request(0, "query_and_update") EXCEPT !.excluded = exclude]}
    /\ UNCHANGED <<governance, filter, store, snsStore, page, debounced, scan, history, opens, failures>>

LoadNextPage ==
    /\ kind = "sns" /\ page.open /\ ~snsStore.completed /\ SnsProposalsList = "list"
    /\ LoadSnsProposals(LastProposalId(snsStore.proposals))
    /\ UNCHANGED <<governance, filter, types, store, snsStore, page, debounced, scan, history, filters, opens, failures>>

AddProposals(s, proposals) ==
    [proposals |-> s.proposals \cup proposals,
     completed |-> Cardinality(proposals) < Limit, loaded |-> TRUE]

SnsAnswer(r, certified) ==
    /\ kind = "sns" /\ certified \in r.calls.waiting
    /\ \E t \in r.top .. top :
       LET proposals == QuerySnsProposals(t, r) IN
       /\ snsStore' = IF Heard(r.calls) THEN AddProposals(snsStore, proposals) ELSE snsStore
       /\ answered' = IF Heard(r.calls) THEN answered \cup proposals ELSE answered
    /\ requests' = Rest(r, [r EXCEPT !.calls = Answered(@, certified)])
    /\ UNCHANGED <<governance, filter, types, store, page, debounced, scan, listedFor, counters>>

SnsFails(r, certified) ==
    /\ kind = "sns" /\ certified \in r.calls.waiting /\ failures < MaxFailures
    /\ failures' = failures + 1
    /\ requests' = Rest(r, [r EXCEPT !.calls = Answered(@, certified)])
    /\ UNCHANGED <<governance, filter, types, store, snsStore, page, debounced, scan, history, sent, filters, opens>>
-----------------------------------------------------------------------------
(* The search for proposals that accept votes, page after page.  The NNS    *)
(* has a second round for the proposals that manage neurons.  The search    *)
(* and the lists share nothing: a behaviour has one or the other.           *)

\* include_reward_status and topics of a round.
InRound(p, phase) ==
    kind = "nns" => (phase = "management" <=> TopicOf[p] = "management")

LoadActionableProposals ==
    /\ scan.phase = "idle"
    /\ scan' = [NoScan EXCEPT !.phase = "votes", !.start = voting, !.seen = voting]
    /\ UNCHANGED <<governance, filter, types, store, snsStore, page, debounced, requests, history, counters>>

FoundInRound == {p \in scan.found : InRound(p, scan.phase)}
NextRound == IF kind = "nns" /\ scan.phase = "votes" THEN "management" ELSE "done"

QueryActionablePage ==
    /\ scan.phase \in {"votes", "management"}
    /\ LET round == {p \in voting : InRound(p, scan.phase)}
           found == PageOf(round, LastProposalId(FoundInRound))
           more == Cardinality(found) = Limit /\ scan.pages + 1 < MaxPages
       IN  scan' = [scan EXCEPT !.found = @ \cup found,
                                !.pages = IF more THEN @ + 1 ELSE 0,
                                !.phase = IF more THEN @ ELSE NextRound]
    /\ UNCHANGED <<governance, filter, types, store, snsStore, page, debounced, requests, history, counters>>
-----------------------------------------------------------------------------
(* Governance.                                                              *)

Submit ==
    /\ top < MaxId
    /\ kind = "sns" => TopicOf[top + 1] \in functions
    /\ top' = top + 1
    /\ voting' = voting \cup {top + 1}
    /\ scan' = [scan EXCEPT !.seen = @ \cup {top + 1}]
    /\ UNCHANGED <<kind, forced, functions, filter, types, store, snsStore, page, debounced, requests, history, counters>>

Decide(p) ==
    /\ scan.phase # "off"
    /\ voting' = voting \ {p}
    /\ scan' = [scan EXCEPT !.start = @ \ {p}]
    /\ UNCHANGED <<kind, forced, top, functions, filter, types, store, snsStore, page, debounced, requests, history, counters>>

AddFunction(f) ==
    /\ kind = "sns"
    /\ functions' = functions \cup {f}
    /\ UNCHANGED <<kind, forced, top, voting, filter, types, store, snsStore, page, debounced, requests, scan, history, counters>>
-----------------------------------------------------------------------------
Init ==
    /\ kind \in Kinds /\ forced \in (IF kind = "nns" THEN Forced ELSE {"query_and_update"})
    /\ top \in {Limit, Limit + 1} /\ voting = 1 .. top
    /\ functions = {TopicOf[p] : p \in 1 .. top}
    /\ filter = {} /\ types = <<>>
    /\ store = QueuedStoreOf([p \in Ids |-> FALSE])
    /\ snsStore = [proposals |-> {}, completed |-> FALSE, loaded |-> FALSE]
    /\ page = NoPage /\ debounced = 0 /\ requests = {}
    /\ scan \in {NoScan, [NoScan EXCEPT !.phase = "idle"]}
    /\ answered = {} /\ listedFor = {}
    /\ sent = 0 /\ filters = 0 /\ opens = 0 /\ failures = 0

Next ==
    \/ Mount \/ FindNextProposals \/ DebounceFindProposals
    \/ \E topics \in NnsProposalsFilterModal : ApplyFilter(topics)
    \/ \E p \in FilteredProposals \cup SnsFilteredProposals \cup {0} : Leave(p)
    \/ Navigate
    \/ \E r \in requests, certified \in BOOLEAN :
         \/ FindProposals(r, certified) \/ FindProposalsFails(r, certified)
         \/ SnsAnswer(r, certified) \/ SnsFails(r, certified)
    \/ SnsMount \/ LoadNextPage
    \/ \E checked \in SnsProposalsFilters : SnsFilterTypesModal(checked)
    \/ LoadActionableProposals \/ QueryActionablePage
    \/ Submit
    \/ \E p \in voting : Decide(p)
    \/ \E f \in (Native \cup Generic) \ functions : AddFunction(f)

Spec == Init /\ [][Next]_vars
-----------------------------------------------------------------------------
TypeOK ==
    /\ top \in 0 .. MaxId /\ voting \subseteq 1 .. top
    /\ filter \subseteq Topics /\ snsStore.proposals \subseteq Ids
    /\ \A r \in requests : r.calls \in Requests
    /\ Len(store.mutationQueue) <= sent

Settled == page.open /\ page.initialized /\ debounced = 0 /\ requests = {}

\* The list of the NNS is of its filter and has no gap: whatever the order in
\* which answers for old and new filters and pages come, and with proposals
\* submitted meanwhile, no proposal of an earlier filter gets into it, and
\* between two listed proposals every proposal of the filter is listed.  In
\* sessions that only query, and once the filter was fetched.
NoGap ==
    Settled /\ kind = "nns" /\ forced = "query" /\ listedFor = filter =>
        \A p, q \in SortedProposals : \A m \in p .. q :
            MatchFilters(m, filter) <=> m \in SortedProposals

\* What an answer brought to the list of an SNS stays there, although pages,
\* filters and certified answers come in any order.
SnsAnswersAreKept == kind = "sns" => answered \subseteq snsStore.proposals

\* The request to an SNS and the filter of its list agree on every function
\* that exists and that the filter knows.
FiltersAgree ==
    kind = "sns" => \A p \in Ids :
        TopicOf[p] \in functions /\ TypeId(TopicOf[p]) \in DOMAIN types =>
            (SnsMatch(p) <=> TopicOf[p] \notin ToExcludeTypeParameter(Checked, functions))

\* The search finds every proposal that accepted votes all the time, unless
\* it ran into the limit of pages, and none that never did.
ScanIsComplete ==
    scan.phase = "done" =>
        /\ scan.found \subseteq scan.seen
        /\ Cardinality(scan.seen) <= Limit * MaxPages => scan.start \subseteq scan.found

\* "Whether all proposals have been loaded" (sns-proposals.store.ts).
CompletedIsAll ==
    kind = "sns" /\ page.open /\ requests = {} /\ snsStore.completed =>
        \A p \in 1 .. top : SnsMatch(p) => p \in snsStore.proposals

\* "trigger a search when the filter changes" (proposals.store.ts): the list
\* of a page that is not loading was fetched with its filter.
FilterIsFetched == Settled /\ kind = "nns" => listedFor = filter
=============================================================================
