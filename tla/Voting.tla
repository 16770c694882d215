------------------------------- MODULE Voting -------------------------------
(***************************************************************************)
(* Voting on the proposals of one universe: the page of a proposal, the    *)
(* selection of neurons, the registration of the votes and what is shown   *)
(* and stored of them.  The NNS and the SNS projects share the services of *)
(* vote-registration.services.ts and differ in what surrounds them: kind   *)
(* says which one this is.                                                 *)
(*                                                                         *)
(* A read returns the ballots of the time when it was sent or of the time  *)
(* when it is answered.  The toast of a registration comes and goes with   *)
(* its entry in the store.  Voting power, names and deadlines are left out *)
(* but for this: votes on a closed proposal are refused, and the page may  *)
(* not know yet that it is closed.                                         *)
(***************************************************************************)
EXTENDS QueryAndUpdate, Naturals, FiniteSets

CONSTANTS
    Kinds,         \* the universes to check, of {"nns", "sns"}
    Proposals,
    Neurons,
    Follows,       \* pairs of a neuron and a neuron that it follows
    Votes,         \* "yes", "no"
    MaxOpens,      \* bound on pages opened
    MaxVotes,      \* bound on registrations
    MaxEvents      \* bound on failing calls, votes from elsewhere, closed proposals

ASSUME VotesAssumption == Votes \subseteq {"yes", "no"}

VARIABLES
    kind,
    who,         \* the user's neurons: eligible, or why they are not
    ballots,     \* governance: per proposal the vote of each neuron
    closed,      \* governance: proposals that take no more votes
    ready,       \* the neurons are in their store
    asking,      \* calls for the neurons that are not answered
    url,         \* the proposal in the address, {} if the page is not open
    updating,    \* SnsProposalDetail's update: "no", "neurons", "proposal"
    page,        \* the page's proposal: {} or one [proposal, ballots]
    card,        \* the proposal of the voting card, {} while it is not there
    selected,    \* votingNeuronSelectStore, and initialSelectionDone
    loads,       \* requests for a proposal that are not answered
    reg,         \* voteRegistrationStore and the service's locals
    stored,      \* ballots in proposalsStore or snsProposalsStore
    actionable,  \* actionable proposals: {} or a set of one set
    scans,       \* their loads that are not answered: the ballots at the start
    off,         \* history: neurons that the user deselected on this page
    asked,       \* history: <<proposal, neuron>> that votes were sent for
    reported,    \* history: <<proposal, neuron>> whose failure was shown
    opens, votes, events

governance == <<kind, who, ballots, closed>>
pageVars == <<url, updating, page, card, selected>>
history == <<asked, reported>>
counters == <<opens, votes, events>>
vars == <<governance, ready, asking, pageVars, loads, reg, stored, actionable, scans, off, history, counters>>

Reasons == {"eligible", "since", "no-permission"}
NoRegistration ==
    [status |-> "none", vote |-> "none", neurons |-> {}, calls |-> {}, voted |-> {}, failed |-> {},
     live |-> FALSE, page |-> FALSE, base |-> [n \in Neurons |-> "none"]]
NoSelection == [neurons |-> {}, ids |-> {}, done |-> FALSE]
-----------------------------------------------------------------------------
(* Which neurons may vote, did vote, or may not, by the ballots b.          *)

\* votableNeurons of the NNS library: the neuron has an empty ballot.
VotableNeurons(b) == {n \in Neurons : b[n] = "unspecified"}
VotedNeurons(b) == {n \in Neurons : b[n] \in {"yes", "no"}}

NeuronsIneligibilityReasons(n, b) ==
    CASE who[n] = "since"         -> "since"
      [] who[n] = "no-permission" -> "no-permission"
      [] b[n] = "none"            -> "short"
      [] OTHER                    -> "eligible"
IneligibleSnsNeurons(b) == {n \in Neurons : NeuronsIneligibilityReasons(n, b) # "eligible"}
FilterIneligibleNnsNeurons(b) == {n \in Neurons : b[n] = "none"}
VotableSnsNeurons(b) ==
    {n \in Neurons : b[n] = "unspecified"} \ IneligibleSnsNeurons(b)

Votable(b) == IF kind = "nns" THEN VotableNeurons(b) ELSE VotableSnsNeurons(b)

\* The lists of the card, for the ballots that it shows.  The vote of an NNS neuron is that
\* of its recent ballots, from the store of the neurons, or else that of the proposal's
\* ballots (getVote).  A neuron that voted has one in the latter, and so it is in the list
\* whatever the age of the store; a vote is cast once, and which one is shown is left out.
VotedNeuronDetails(b) == VotedNeurons(b)
VotedSnsNeuronDetails(b) == {n \in Neurons : b[n] \in {"yes", "no"}}
VotedNeuronList(b) == IF kind = "nns" THEN VotedNeuronDetails(b) ELSE VotedSnsNeuronDetails(b)
IneligibleNeuronList(b) == IF kind = "nns" THEN FilterIneligibleNnsNeurons(b) ELSE IneligibleSnsNeurons(b)
VotableNeuronList == selected.neurons
VotingCard(b) == <<VotableNeuronList, VotedNeuronList(b), IneligibleNeuronList(b)>>
-----------------------------------------------------------------------------
(* The selection (stores/vote-registration.store.ts).                       *)

PreserveNeuronSelectionAfterUpdate(ids, old, new) == (ids \cap new) \cup (new \ old)

SetNeurons(new) == [neurons |-> new, ids |-> new, done |-> TRUE]
UpdateNeurons(sel, new) ==
    [sel EXCEPT !.neurons = new, !.ids = PreserveNeuronSelectionAfterUpdate(@, sel.neurons, new)]

\* The card's reactive statement: the first time all neurons are selected.
UpdateVotingNeuronSelectedStore(sel, new) ==
    IF ~sel.done THEN SetNeurons(new) ELSE UpdateNeurons(sel, new)

\* The neurons of the store that the card offers for what it shows.
Offered(c, loaded) == IF loaded THEN UNION {Votable(v.ballots) : v \in c} ELSE {}

\* The card now shows c, and the store of neurons is loaded or not.
ShowCard(c, loaded) ==
    /\ card' = c
    /\ selected' = IF c = {} THEN [selected EXCEPT !.done = FALSE]
                   ELSE UpdateVotingNeuronSelectedStore(selected, Offered(c, loaded))
-----------------------------------------------------------------------------
(* Governance (external). *)

\* A neuron votes, and with it the neurons that follow it.
Cast(b, n, v) ==
    [m \in Neurons |-> IF m = n \/ (<<m, n>> \in Follows /\ b[m] = "unspecified") THEN v ELSE b[m]]

Voted(p, n) == ballots[p][n] \in {"yes", "no"}

Event == events < MaxEvents /\ events' = events + 1

\* The user or a followee votes from elsewhere.
VoteElsewhere(p, n, v) ==
    /\ Event
    /\ p \notin closed /\ ballots[p][n] = "unspecified"
    /\ ballots' = [ballots EXCEPT ![p] = Cast(@, n, v)]
    /\ UNCHANGED <<kind, who, closed, ready, asking, pageVars, loads, reg, stored, actionable, scans, off, history, opens, votes>>

Close(p) ==
    /\ Event
    /\ p \notin closed
    /\ closed' = closed \cup {p}
    /\ UNCHANGED <<kind, who, ballots, ready, asking, pageVars, loads, reg, stored, actionable, scans, off, history, opens, votes>>
-----------------------------------------------------------------------------
Init ==
    /\ kind \in Kinds
    /\ who \in [Neurons -> Reasons]
    /\ \E n \in Neurons : who[n] = "eligible"
    /\ kind = "nns" => \A n \in Neurons : who[n] # "no-permission"
    /\ ballots = [p \in Proposals |->
                    [n \in Neurons |-> IF who[n] = "since" THEN "none" ELSE "unspecified"]]
    /\ closed = {} /\ ready = FALSE /\ asking = {}
    /\ url = {} /\ updating = "no" /\ page = {} /\ card = {} /\ selected = NoSelection
    /\ loads = {} /\ reg = [p \in Proposals |-> NoRegistration]
    /\ stored = ballots /\ actionable = {} /\ scans = {}
    /\ off = {} /\ asked = {} /\ reported = {}
    /\ opens = 0 /\ votes = 0 /\ events = 0

\* A request for p.  role: which code waits for its answer.
Load(p, role) ==
    [proposal |-> p, role |-> role, sent |-> ballots[p],
     request |-> Sent(IF role = "post" THEN "update" ELSE "query_and_update")]

\* Callbacks of a card that is gone have no effect.
Unmounted == [p \in Proposals |-> [reg[p] EXCEPT !.live = FALSE]]

\* SnsProposalDetail's update, unless one runs: the neurons first if they are
\* not there.  The card is gone while it runs.
Update(p) ==
    /\ updating' = IF ready THEN "proposal" ELSE "neurons"
    /\ asking' = IF ready THEN asking ELSE BOOLEAN
    /\ loads' = IF ready THEN loads \cup {Load(p, "update")} ELSE loads

\* NnsProposalDetail: the address changed, findProposal.
FindProposal(p) ==
    /\ updating' = "no"
    /\ loads' = loads \cup {Load(p, "page")}

OpenPage(p) ==
    /\ opens < MaxOpens /\ url = {}
    /\ opens' = opens + 1
    /\ url' = {p} /\ page' = {} /\ ShowCard({}, ready)
    /\ \/ kind = "nns" /\ FindProposal(p) /\ asking' = BOOLEAN
       \/ kind = "sns" /\ Update(p)
    /\ off' = {}
    /\ UNCHANGED <<governance, ready, reg, stored, actionable, scans, history, votes, events>>

\* The address names another proposal; the page stays mounted.
Navigate(p) ==
    /\ opens < MaxOpens /\ url # {} /\ url # {p}
    /\ opens' = opens + 1
    /\ url' = {p}
    /\ \/ kind = "nns" /\ FindProposal(p) /\ page' = {} /\ ShowCard({}, ready) /\ UNCHANGED asking
       \/ kind = "sns" /\ updating = "no" /\ Update(p) /\ ShowCard({}, ready) /\ UNCHANGED page
       \/ kind = "sns" /\ updating # "no" /\ UNCHANGED <<updating, asking, loads, page, card, selected>>
    /\ reg' = Unmounted
    /\ off' = {}
    /\ UNCHANGED <<governance, ready, stored, actionable, scans, history, votes, events>>

\* The page is gone, and what is answered for it later changes nothing.
GoBack ==
    /\ url' = {} /\ page' = {} /\ ShowCard({}, ready)
    /\ loads' = {l \in loads : l.role = "post"}
    /\ updating' = "no" /\ off' = {}
    /\ reg' = [p \in Proposals |-> [Unmounted[p] EXCEPT !.page = FALSE]]

Leave ==
    /\ url # {}
    /\ GoBack
    /\ UNCHANGED <<governance, ready, asking, stored, actionable, scans, history, counters>>

\* The query or the update of the list of neurons is answered.
NeuronsAnswered(certified) ==
    /\ certified \in asking
    /\ ready' = TRUE
    /\ LET still == IF certified THEN {} ELSE asking \ {certified} IN
       \/ /\ kind = "nns" \/ url = {} \/ updating = "proposal"
          /\ asking' = still
          /\ IF card # {} THEN ShowCard(card, TRUE) ELSE UNCHANGED <<card, selected>>
          /\ UNCHANGED <<updating, loads, reg>>
       \/ /\ kind = "sns" /\ url # {} /\ updating # "proposal"
          /\ asking' = still
          /\ updating' = "proposal"
          /\ loads' = loads \cup {Load(p, "update") : p \in url}
          /\ ShowCard({}, TRUE)
          /\ reg' = Unmounted
    /\ UNCHANGED <<governance, url, page, stored, actionable, scans, off, history, counters>>
-----------------------------------------------------------------------------
(* Loads of the page: loadProposal and getSnsProposalById.                  *)

\* The load once its call was answered; a load without calls is gone.
After(l, certified) ==
    LET next == [l EXCEPT !.request = Answered(@, certified)] IN
    (loads \ {l}) \cup IF next.request.waiting = {} \/ next.request.certifiedDone THEN {} ELSE {next}

\* The page takes the answer if it is still the page of this proposal.
ForPage(l) == url = {l.proposal}

\* The first answer of an update ends it: Promise.race.
EndsUpdate(l) == l.role = "update" /\ l.request.waiting = BOOLEAN

\* What the page shows: skeletons while an update runs.
SnsProposalDetail(update, shown) == IF update = "no" THEN shown ELSE {}

LoadAnswered(l, certified) ==
    /\ l.role # "post" /\ certified \in l.request.waiting
    /\ \E b \in {l.sent, ballots[l.proposal]} :
           page' = IF ForPage(l) THEN {[proposal |-> l.proposal, ballots |-> b]} ELSE page
    /\ updating' = IF EndsUpdate(l) THEN "no" ELSE updating
    /\ IF ForPage(l) \/ EndsUpdate(l) THEN ShowCard(SnsProposalDetail(updating', page'), ready)
       ELSE UNCHANGED <<card, selected>>
    /\ loads' = After(l, certified)
    /\ UNCHANGED <<governance, ready, asking, url, reg, stored, actionable, scans, off, history, counters>>

\* A certified failure of the NNS is ignored; any other one leaves the page.
LoadFails(l, certified) ==
    /\ Event
    /\ l.role # "post" /\ certified \in l.request.waiting
    /\ \/ (kind = "sns" \/ ~certified) /\ GoBack
       \/ kind = "nns" /\ certified /\ loads' = After(l, certified) /\ UNCHANGED <<pageVars, reg, off>>
    /\ UNCHANGED <<governance, ready, asking, stored, actionable, scans, history, opens, votes>>
-----------------------------------------------------------------------------
(* The card. *)

VotingNeuronSelectList == \A c \in card : reg[c.proposal].status = "none"

\* A checkbox of the list.
ToggleSelection(n) ==
    /\ card # {} /\ VotingNeuronSelectList
    /\ n \in selected.neurons
    /\ IF n \in selected.ids
       THEN selected' = [selected EXCEPT !.ids = @ \ {n}] /\ off' = off \cup {n}
       ELSE selected' = [selected EXCEPT !.ids = @ \cup {n}] /\ off' = off \ {n}
    /\ UNCHANGED <<governance, ready, asking, url, updating, page, card, loads, reg, stored, actionable, scans, history, counters>>

\* The buttons of VotingConfirmationToolbar are enabled.
VotingConfirmationToolbar(p) == selected.ids # {} /\ reg[p].status = "none"

\* userSelectedNeurons: an SNS card takes only those that it offers.
UserSelectedNeurons == selected.ids \cap Offered(card, ready)

\* The neurons that the cards vote with, at most one set.  The card of an SNS
\* project does nothing without a neuron that may vote.
NnsVotingCard == {selected.ids}
SnsVotingCard == {neurons \in {UserSelectedNeurons} : Offered(card, ready) # {}}

\* The entry of a registration, and a call for each neuron.
AddRegistration(c, neurons, v) ==
    [NoRegistration EXCEPT !.status = "voting", !.vote = v, !.neurons = neurons,
        !.calls = {<<n, "sent">> : n \in neurons}, !.live = TRUE, !.page = TRUE, !.base = c.ballots]

\* manageVotesRegistration begins.
Vote(v) ==
    /\ votes < MaxVotes
    /\ \E c \in card, neurons \in IF kind = "nns" THEN NnsVotingCard ELSE SnsVotingCard :
       /\ VotingConfirmationToolbar(c.proposal)
       /\ reg' = [reg EXCEPT ![c.proposal] = AddRegistration(c, neurons, v)]
       /\ asked' = asked \cup {<<c.proposal, n>> : n \in neurons}
       /\ reported' = reported \ {<<c.proposal, n>> : n \in neurons}
    /\ votes' = votes + 1
    /\ UNCHANGED <<governance, ready, asking, pageVars, loads, stored, actionable, scans, off, opens, events>>

\* Governance gets a vote.  It may be refused, or its answer may be lost.
RegisterVote(p, n) ==
    /\ <<n, "sent">> \in reg[p].calls
    /\ LET answer(a) == reg' = [reg EXCEPT ![p].calls = (@ \ {<<n, "sent">>}) \cup {<<n, a>>}]
           accepts == p \notin closed /\ ballots[p][n] = "unspecified"
           cast == ballots' = [ballots EXCEPT ![p] = Cast(@, n, reg[p].vote)]
       IN \/ accepts /\ cast /\ answer("ok") /\ UNCHANGED events
          \/ accepts /\ cast /\ answer("error") /\ Event
          \/ Voted(p, n) /\ answer("already") /\ UNCHANGED <<ballots, events>>
          \/ ~Voted(p, n) /\ p \in closed /\ answer("error") /\ UNCHANGED <<ballots, events>>
          \/ answer("error") /\ Event /\ UNCHANGED ballots
    /\ UNCHANGED <<kind, who, closed, ready, asking, pageVars, loads, stored, actionable, scans, off, history, opens, votes>>

-----------------------------------------------------------------------------
(* The answers (nns- and sns-vote-registration.services.ts).                *)

IsAlreadyVotedError(a) == a = "already"

\* The neuron is added to the registration's successfully voted neurons.  An SNS
\* project takes the answer that it had voted for a success, the NNS does not.
RegisterNnsNeuronsVote(a) == a = "ok"
RegisterSnsNeuronsVote(a) == a = "ok" \/ IsAlreadyVotedError(a)

\* Mutant: any answer will do.
SuccessAlways(a) == TRUE

Success(a) == IF kind = "nns" THEN RegisterNnsNeuronsVote(a) ELSE RegisterSnsNeuronsVote(a)

\* updateToastAfterNeuronRegistration, snsNeuronRegistrationComplete.
AddSuccessfullyVotedNeuronId(r, n) == [r EXCEPT !.voted = @ \cup {n}]

\* An answer that the toast has a detail for.
RegisterVoteErrorDetails(a) == a # "ok"

\* Mutant: failures are taken for votes that were cast before.
ProcessRegisterVoteErrorsNone(a) == FALSE

\* processRegisterVoteErrors shows the failure.
ProcessRegisterVoteErrors(a) == RegisterVoteErrorDetails(a) /\ ~IsAlreadyVotedError(a)

ProposalAfterVote(b, neurons, v) == [n \in Neurons |-> IF n \in neurons THEN v ELSE b[n]]

\* onSuccessVote: a card that is still there shows the votes that are cast.
ShowOptimistic(p, r) ==
    IF kind = "sns" /\ r.live
    THEN ShowCard({[proposal |-> p, ballots |-> ProposalAfterVote(r.base, r.voted, r.vote)]}, ready)
    ELSE UNCHANGED <<card, selected>>

\* updateAfterNnsVoteRegistration: the proposal and the neurons are read again.
UpdateAfterNnsVoteRegistration(p, r) ==
    /\ loads' = loads \cup {Load(p, "post")}
    /\ asking' = asking \cup {TRUE}

\* postRegistration of registerSnsVotes, and the card then reloads its page's
\* proposal.  All neurons of the registration are stored as voted.
PostSnsRegistration(p, r) ==
    /\ stored' = [stored EXCEPT ![p] = ProposalAfterVote(r.base, r.neurons, r.vote)]
    /\ scans' = scans \cup {ballots}
    /\ loads' = loads \cup
         {Load(q, "reload") : q \in IF r.page THEN url ELSE {}}

\* All calls are settled: the failures are shown, then the rest is done.
Settle(p, r) ==
    /\ reported' = reported \cup {<<p, n>> : n \in r.failed}
    /\ \/ /\ kind = "nns"
          /\ UpdateAfterNnsVoteRegistration(p, r)
          /\ reg' = [reg EXCEPT ![p] = [r EXCEPT !.status = "post"]]
          /\ UNCHANGED <<stored, scans>>
       \/ /\ kind = "sns"
          /\ PostSnsRegistration(p, r)
          /\ reg' = [reg EXCEPT ![p] = NoRegistration]
          /\ UNCHANGED asking

\* A call of registerVote is answered; the last one settles the registration.
VoteAnswered(p, n) ==
    /\ \E a \in {"ok", "already", "error"} :
       /\ <<n, a>> \in reg[p].calls
       /\ LET settled == [reg[p] EXCEPT !.calls = @ \ {<<n, a>>},
                                        !.failed = IF ProcessRegisterVoteErrors(a) THEN @ \cup {n} ELSE @]
              r == IF Success(a) THEN AddSuccessfullyVotedNeuronId(settled, n) ELSE settled
          IN /\ IF Success(a) THEN ShowOptimistic(p, r) ELSE UNCHANGED <<card, selected>>
             /\ \/ r.calls = {} /\ Settle(p, r)
                \/ /\ r.calls # {}
                   /\ reg' = [reg EXCEPT ![p] = r]
                   /\ UNCHANGED <<reported, loads, asking, stored, scans>>
    /\ UNCHANGED <<governance, ready, url, updating, page, actionable, off, asked, counters>>

\* registerNnsVotes ends: the certified proposal replaces the one in the list and,
\* if the page still shows it, the one on the page.  The entry is removed.
PostAnswered(l) ==
    /\ l.role = "post" /\ TRUE \notin asking
    /\ \E b \in {l.sent, ballots[l.proposal]} :
       /\ stored' = [stored EXCEPT ![l.proposal] = b]
       /\ IF reg[l.proposal].page /\ ForPage(l)
          THEN /\ page' = {[proposal |-> l.proposal, ballots |-> b]}
               /\ ShowCard(page', ready)
          ELSE UNCHANGED <<page, card, selected>>
    /\ reg' = [reg EXCEPT ![l.proposal] = NoRegistration]
    /\ scans' = scans \cup {ballots}
    /\ loads' = loads \ {l}
    /\ UNCHANGED <<governance, ready, asking, url, updating, actionable, off, history, counters>>

\* The promise of reloadProposal is never settled, and the entry stays.
PostFails(l) ==
    /\ Event
    /\ l.role = "post"
    /\ loads' = loads \ {l}
    /\ reg' = [reg EXCEPT ![l.proposal].status = "stuck"]
    /\ UNCHANGED <<governance, ready, asking, pageVars, stored, actionable, scans, off, history, opens, votes>>
-----------------------------------------------------------------------------
(* The actionable proposals: those with a neuron that may vote.             *)

\* At the start of the session.
LoadActionableProposals ==
    /\ actionable = {} /\ scans = {} /\ opens = 0
    /\ scans' = {ballots}
    /\ asking' = IF ready THEN asking ELSE asking \cup {FALSE}
    /\ UNCHANGED <<governance, ready, pageVars, loads, reg, stored, actionable, off, history, counters>>

HasVotableNeuron(b) == Votable(b) # {}

ActionableLoaded(s) ==
    /\ s \in scans /\ ready
    /\ \E b \in {s, ballots} : actionable' = {{p \in Proposals \ closed : HasVotableNeuron(b[p])}}
    /\ scans' = scans \ {s}
    /\ UNCHANGED <<governance, ready, asking, pageVars, loads, reg, stored, off, history, counters>>

\* failedActionableSnsesStore: the list stays as it was.
ActionableFails(s) ==
    /\ Event
    /\ s \in scans
    /\ scans' = scans \ {s}
    /\ UNCHANGED <<governance, ready, asking, pageVars, loads, reg, stored, actionable, off, history, opens, votes>>

Next ==
    \/ \E p \in Proposals : OpenPage(p) \/ Navigate(p) \/ Close(p)
    \/ \E p \in Proposals, n \in Neurons, v \in Votes : VoteElsewhere(p, n, v)
    \/ Leave
    \/ \E c \in BOOLEAN : NeuronsAnswered(c)
    \/ \E l \in loads, c \in BOOLEAN : LoadAnswered(l, c) \/ LoadFails(l, c)
    \/ \E n \in Neurons : ToggleSelection(n)
    \/ \E v \in Votes : Vote(v)
    \/ \E p \in Proposals, n \in Neurons : RegisterVote(p, n) \/ VoteAnswered(p, n)
    \/ \E l \in loads : PostAnswered(l) \/ PostFails(l)
    \/ LoadActionableProposals
    \/ \E s \in scans : ActionableLoaded(s) \/ ActionableFails(s)

Spec == Init /\ [][Next]_vars

\* Calls are answered or fail in the end.
FairSpec ==
    /\ Spec
    /\ \A p \in Proposals, n \in Neurons : WF_vars(RegisterVote(p, n)) /\ WF_vars(VoteAnswered(p, n))
    /\ WF_vars(NeuronsAnswered(TRUE))
    /\ WF_vars(\E l \in loads : PostAnswered(l) \/ PostFails(l))
-----------------------------------------------------------------------------
(* Properties. *)

Ballots == [Neurons -> {"none", "unspecified", "yes", "no"}]
Calls == Neurons \X {"sent", "ok", "already", "error"}
Shown == [proposal : Proposals, ballots : Ballots]
Loads == [proposal : Proposals, role : {"page", "update", "reload", "post"}, sent : Ballots,
          request : Requests]
Registrations ==
    [status : {"none", "voting", "post", "stuck"}, vote : Votes \cup {"none"}, neurons : SUBSET Neurons,
     calls : SUBSET Calls, voted : SUBSET Neurons, failed : SUBSET Neurons,
     live : BOOLEAN, page : BOOLEAN, base : Ballots]
Selections == [neurons : SUBSET Neurons, ids : SUBSET Neurons, done : BOOLEAN]

TypeOK ==
    /\ kind \in Kinds /\ who \in [Neurons -> Reasons] /\ closed \subseteq Proposals
    /\ ballots \in [Proposals -> Ballots] /\ stored \in [Proposals -> Ballots]
    /\ ready \in BOOLEAN /\ asking \subseteq BOOLEAN
    /\ \A p, q \in url : p \in Proposals /\ p = q
    /\ updating \in {"no", "neurons", "proposal"}
    /\ page \subseteq Shown /\ card \subseteq Shown /\ selected \in Selections
    /\ loads \subseteq Loads /\ reg \in [Proposals -> Registrations]
    /\ actionable \subseteq SUBSET Proposals /\ scans \subseteq [Proposals -> Ballots]
    /\ off \subseteq Neurons
    /\ asked \subseteq Proposals \X Neurons /\ reported \subseteq Proposals \X Neurons
    /\ opens \in Nat /\ votes \in Nat /\ events \in Nat

\* A neuron that the user voted with has voted once its registration is over, or
\* the failure was shown (registerNnsNeuronsVote, registerSnsNeuronsVote,
\* processRegisterVoteErrors): no vote is lost without a word, although answers that
\* the neuron had voted before are not shown.
NoVoteLostSilently ==
    \A p \in Proposals, n \in Neurons :
        (<<p, n>> \in asked /\ reg[p].status # "voting") => (Voted(p, n) \/ <<p, n>> \in reported)

\* What the page and its card show as voted has voted, also what an SNS card shows
\* before it is read again (proposalAfterVote in onSuccessVote).
ShownVotesAreCast ==
    \A c \in page \cup card : \A n \in Neurons :
        c.ballots[n] \in {"yes", "no"} => Voted(c.proposal, n)

\* A neuron that the user deselected and that has not voted is not selected again
\* by answers that come later: "To avoid removing of user selection after second
\* queryAndUpdate callback" (NnsVotingCard.svelte, SnsVotingCard.svelte).
SelectionIsKept ==
    \A c \in card : \A n \in off : Voted(c.proposal, n) \/ n \notin selected.ids

\* The same for the NNS alone.
NnsSelectionIsKept == kind = "nns" => SelectionIsKept

\* Every neuron is in a list of the card, and one that may vote is in one only:
\* the votable ones come from votingNeuronSelectStore, which outlives the card, the
\* others from what the card shows (NnsVotingCard.svelte, SnsVotingCard.svelte).
NeuronsAreListed ==
    \A c \in card : ready =>
        LET lists == VotingCard(c.ballots)
            listed(n) == Cardinality({i \in 1 .. 3 : n \in lists[i]})
        IN \A n \in Neurons : listed(n) >= 1 /\ (who[n] = "eligible" => listed(n) = 1)

\* A proposal that a neuron of the user may still vote on is not missing from the
\* actionable proposals, whatever answers came in which order
\* (loadActionableProposals, loadActionableProposalsForSns).
VotableIsActionable ==
    \A list \in actionable : \A p \in Proposals \ closed : Votable(ballots[p]) # {} => p \in list

\* What the pages show of voting is right: votes that are shown were cast, every neuron
\* is listed, a choice is kept, and what can be voted on is among what is actionable
\* (the four properties above).
VotingIsShown ==
    ShownVotesAreCast /\ NeuronsAreListed /\ NnsSelectionIsKept /\ VotableIsActionable

\* A ballot that is stored as voted was cast: the stores get optimistic values
\* "after every successful neuron vote registration" (sns-vote-registration.services.ts).
StoredVotesAreCast ==
    \A p \in Proposals, n \in Neurons : stored[p][n] \in {"yes", "no"} => Voted(p, n)

\* Once nothing is awaited, the page shows the proposal that its address names:
\* "The `update` function cares about the necessary data to be refetched"
\* (SnsProposalDetail.svelte).
PageShowsItsProposal ==
    (loads = {} /\ asking = {}) => \A p \in url : \E c \in page : c.proposal = p

\* A registration ends, unless the proposal cannot be read again after it
\* (manageVotesRegistration, updateAfterNnsVoteRegistration).
Registering == \E p \in Proposals : reg[p].status \in {"voting", "post"}
VotingSettles == []<>~Registering
=============================================================================
