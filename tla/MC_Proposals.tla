---------------------------- MODULE MC_Proposals ----------------------------
(***************************************************************************)
(* Proposals, for TLC: voting, the lists of proposals, and the decision on *)
(* a proposal of an SNS. The three share no state here: a behaviour is one *)
(* of them, and the variables of the others keep the value 0 (those of     *)
(* SnsDecision and of what the properties of Voting are about, an initial  *)
(* value).                                                                 *)
(***************************************************************************)
EXTENDS Voting, SnsDecision, TLC

CONSTANTS
    Forced, MaxId, TopicOf, Native, Generic, Limit, MaxPages,
    MaxRequests, MaxSnsRequests, MaxFilters, MaxFailures, n1, n2, a, b

VARIABLES
    part,      \* the part that this behaviour is about
    forced, top, voting, functions, filter, types, store, snsStore, listPage, debounced,
    requests, scan, answered, listedFor, sent, filters, failures

Symmetry == Permutations(Proposals)
SecondFollowsFirst == {<<n2, n1>>}

\* Topics by turns
TopicList == <<"upgrade", "management", "upgrade", "generic1", "generic2">>

\* Every pair of thresholds, to the precision of Whole
AllThresholds ==
    {t \in [ofTotal : 0 .. Whole, ofExercised : 0 .. Whole] : t.ofTotal <= t.ofExercised}

L == INSTANCE ProposalLists WITH page <- listPage

listsVars == <<forced, top, voting, functions, filter, types, store, snsStore, listPage,
               debounced, requests, scan, answered, listedFor, sent, filters, failures>>
allVars == <<part, vars, listsVars, decisionVars>>
-----------------------------------------------------------------------------
\* Initial values for what the properties of Voting and of SnsDecision are about
ParkedVoting ==
    /\ page = {} /\ card = {} /\ actionable = {} /\ asked = {}
    /\ who = 0 /\ ballots = 0 /\ closed = 0 /\ ready = 0 /\ asking = 0 /\ url = 0 /\ updating = 0 /\
       selected = 0 /\ loads = 0 /\ reg = 0 /\ stored = 0 /\ scans = 0 /\ off = 0 /\ reported = 0 /\
       votes = 0 /\ events = 0
ParkedDecision ==
    /\ total = 1 /\ threshold = [ofTotal |-> 0, ofExercised |-> Whole]
    /\ yes = 0 /\ no = 0 /\ decision = "open" /\ outcome = "none" /\ now = 0 /\ deadline = 1 /\
       eligible = FALSE /\ settled = FALSE
ParkedLists ==
    /\ forced = 0 /\ top = 0 /\ voting = 0 /\ functions = 0 /\ filter = 0 /\ types = 0 /\ store = 0 /\
       snsStore = 0 /\ listPage = 0 /\ debounced = 0 /\ requests = 0 /\ scan = 0 /\ answered = 0 /\
       listedFor = 0 /\ sent = 0 /\ filters = 0 /\ failures = 0

VotingRest == <<listsVars, decisionVars>>
ListsRest == <<who, ballots, closed, ready, asking, url, updating, page, card, selected, loads,
               reg, stored, actionable, scans, off, asked, reported, votes, events, decisionVars>>
DecisionRest == <<vars, listsVars>>

AllInit ==
    \/ part = "voting" /\ Init /\ ParkedLists /\ ParkedDecision
    \/ part = "lists" /\ L!Init /\ ParkedVoting /\ ParkedDecision
    \/ part = "decision" /\ InitDecision /\ kind = "none" /\ opens = 0 /\ ParkedVoting /\ ParkedLists

AllNext ==
    \/ part = "voting" /\ Next /\ UNCHANGED <<part, VotingRest>>
    \/ part = "lists" /\ L!Next /\ UNCHANGED <<part, ListsRest>>
    \/ part = "decision" /\ NextDecision /\ UNCHANGED <<part, DecisionRest>>

AllSpec == AllInit /\ [][AllNext]_allVars
-----------------------------------------------------------------------------
\* The search for actionable proposals finds all of them. Pages, filters and late answers leave
\* no gap in a list, lose no answer, and agree on what the filter of types means.
ListsAreComplete ==
    /\ part = "voting" => TypeOK
    /\ part = "lists" =>
        L!TypeOK /\ L!ScanIsComplete /\ L!NoGap /\ L!SnsAnswersAreKept /\ L!FiltersAgree
=============================================================================
