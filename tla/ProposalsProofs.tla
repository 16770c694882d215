-------------------------- MODULE ProposalsProofs ---------------------------
(***************************************************************************)
(* SNS decisions: the status that the frontend computes from the latest    *)
(* tally of an SNS proposal is the decision that governance took, for      *)
(* every voting power and every pair of thresholds, and the card for votes *)
(* is there exactly while governance takes votes.                          *)
(*                                                                         *)
(* Votes that come after an early decision change the tally, so the        *)
(* argument needs what made the decision: an early decision stands on a    *)
(* proportion of the total, which more votes cannot take back, and a       *)
(* decision at the deadline stands on a tally that stays as it is.  What   *)
(* is undecided is not over yet, and what has its rewards is.              *)
(*                                                                         *)
(* Voting: no vote is lost without a word and what is shown of voting is   *)
(* right.  A ballot is empty until it is cast and is never taken back, so  *)
(* whatever was read and is still on its way, shown or used by a           *)
(* registration is behind the ballots of governance; the rest of the       *)
(* invariant says what a registration and its reload may be doing, and     *)
(* where a vote that was asked for is.                                     *)
(***************************************************************************)
EXTENDS Voting, SnsDecision, Integers, FiniteSetTheorems, TLAPS

\* What a decision stands on.
DecisionStands ==
    /\ decision = "yes" =>
        \/ yes * Whole > total * threshold.ofExercised
        \/ now >= deadline /\ IsAccepted
    /\ decision = "no" =>
        \/ no * Whole >= total * (Whole - threshold.ofExercised)
        \/ now >= deadline /\ ~IsAccepted

\* What goes on and what is over.
VotingPeriod ==
    /\ decision = "open" => now < deadline
    /\ settled => now >= deadline

DecisionInv == DecisionTypeOK /\ DecisionStands /\ VotingPeriod

\* Multiplication is monotonic.
LEMMA ProductGrows ==
    ASSUME NEW m \in Nat, NEW n \in Nat, NEW k \in Nat, m <= n
    PROVE  m * k <= n * k
<1>1. PICK d \in Nat : n = m + d
    <2>1. n - m \in Nat /\ n = m + (n - m)  OBVIOUS
    <2>. QED  BY <2>1
<1>2. n * k = m * k + d * k  BY <1>1
<1>3. d * k >= 0 /\ m * k \in Nat /\ d * k \in Nat  OBVIOUS
<1>. QED  BY <1>2, <1>3

\* The thresholds of a proposal are proportions of Whole.
LEMMA ThresholdType ==
    ASSUME DecisionTypeOK
    PROVE  /\ total \in Nat /\ Whole \in Nat /\ Whole > 0
           /\ threshold.ofTotal \in Nat /\ threshold.ofExercised \in Nat
           /\ threshold.ofTotal <= threshold.ofExercised /\ threshold.ofExercised <= Whole
BY DecisionAssumption DEF DecisionTypeOK

\* A yes of more than the proportion of the total is accepted whatever the noes.
LEMMA EarlyYesIsAccepted ==
    ASSUME DecisionTypeOK, yes * Whole > total * threshold.ofExercised
    PROVE  IsAccepted
<1> DEFINE e == threshold.ofExercised
           t == threshold.ofTotal
<1>1. total \in Nat /\ Whole \in Nat /\ e \in Nat /\ t \in Nat /\ t <= e  BY ThresholdType
<1>2. yes \in Nat /\ no \in Nat /\ yes + no \in Nat /\ yes + no <= total  BY DEF DecisionTypeOK
<1>3. yes * Whole > total * e  OBVIOUS
<1> HIDE DEF e, t
<1>4. (yes + no) * e <= total * e  BY <1>1, <1>2, ProductGrows
<1>5. t * total <= e * total  BY <1>1, ProductGrows
<1>6. total * t <= total * e  BY <1>1, <1>5
<1>7. total * e \in Nat /\ total * t \in Nat /\ (yes + no) * e \in Nat /\ yes * Whole \in Nat
    BY <1>1, <1>2
<1>8. yes * Whole > (yes + no) * e /\ yes * Whole >= total * t
    BY <1>3, <1>4, <1>6, <1>7
<1>. QED
    BY <1>8 DEF IsAccepted, MajorityDecision, MinimumYesProportionOfExercised,
                MinimumYesProportionOfTotal, e, t

\* A no of at least the rest of the total is never accepted.
LEMMA EarlyNoIsRejected ==
    ASSUME DecisionTypeOK, no * Whole >= total * (Whole - threshold.ofExercised)
    PROVE  ~IsAccepted
<1> DEFINE e == threshold.ofExercised
           r == Whole - e
<1>1. total \in Nat /\ Whole \in Nat /\ e \in Nat /\ r \in Nat /\ Whole = e + r
    BY ThresholdType
<1>2. yes \in Nat /\ no \in Nat /\ yes + no \in Nat /\ yes + no <= total  BY DEF DecisionTypeOK
<1>3. no * Whole >= total * r  OBVIOUS
<1> HIDE DEF e, r
<1>4. (yes + no) * r <= total * r  BY <1>1, <1>2, ProductGrows
<1>5. no * Whole >= (yes + no) * r
    <2>1. no * Whole \in Nat /\ total * r \in Nat /\ (yes + no) * r \in Nat  BY <1>1, <1>2
    <2>. QED  BY <2>1, <1>3, <1>4
<1>6. no * e >= yes * r
    <2>1. no * Whole = no * e + no * r  BY <1>1, <1>2
    <2>2. (yes + no) * r = yes * r + no * r  BY <1>1, <1>2
    <2>3. no * e \in Nat /\ no * r \in Nat /\ yes * r \in Nat  BY <1>1, <1>2
    <2>. QED  BY <1>5, <2>1, <2>2, <2>3
<1>7. (yes + no) * e >= yes * Whole
    <2>1. yes * Whole = yes * e + yes * r  BY <1>1, <1>2
    <2>2. (yes + no) * e = yes * e + no * e  BY <1>1, <1>2
    <2>3. no * e \in Nat /\ yes * e \in Nat /\ yes * r \in Nat  BY <1>1, <1>2
    <2>. QED  BY <1>6, <2>1, <2>2, <2>3
<1>8. ~(yes * Whole > (yes + no) * e)
    <2>1. yes * Whole \in Nat /\ (yes + no) * e \in Nat  BY <1>1, <1>2
    <2>. QED  BY <1>7, <2>1
<1>9. MajorityDecision(yes, no, yes + no, e) # "yes"  BY <1>8 DEF MajorityDecision
<1>. QED  BY <1>9 DEF IsAccepted, MinimumYesProportionOfExercised, e

-----------------------------------------------------------------------------

\* The invariant holds when the proposal is made.
LEMMA InitDecisionInv == InitDecision => DecisionInv
<1> SUFFICES ASSUME InitDecision PROVE DecisionInv  OBVIOUS
<1>1. settled = FALSE /\ eligible \in BOOLEAN  BY DEF InitDecision
<1>2. settled \in BOOLEAN  BY <1>1
<1>3. DecisionTypeOK  BY <1>1, <1>2, DecisionAssumption DEF InitDecision, DecisionTypeOK
<1>4. DecisionStands  BY DEF InitDecision, DecisionStands
<1>5. VotingPeriod  BY DEF InitDecision, VotingPeriod
<1>. QED  BY <1>3, <1>4, <1>5 DEF DecisionInv

\* Votes count up, and only before the deadline.
LEMMA CastVotesKeeps ==
    ASSUME DecisionInv, NEW y \in Nat, NEW n \in Nat, CastVotes(y, n)
    PROVE  DecisionInv'
<1> USE DEF DecisionInv
<1>0. total \in Nat /\ Whole \in Nat /\ threshold.ofExercised \in Nat /\ now \in Nat
        /\ deadline \in Nat /\ yes \in Nat /\ no \in Nat
    BY ThresholdType DEF DecisionTypeOK
<1>1. UNCHANGED <<total, threshold, outcome, now, eligible, settled>> /\ yes' = yes + y /\ no' = no + n
        /\ now < deadline
    BY DEF CastVotes
<1>2. decision' \in {"open", "yes", "no"}  BY DEF CastVotes, Early, DecisionTypeOK
<1>3. deadline' \in Nat /\ deadline' >= deadline  BY <1>0 DEF CastVotes
<1>9. VotingPeriod'  BY <1>0, <1>1, <1>3 DEF VotingPeriod
<1>4. DecisionTypeOK'  BY <1>0, <1>1, <1>2, <1>3 DEF DecisionTypeOK, CastVotes
<1>5. yes * Whole <= yes' * Whole  BY <1>0, <1>1, ProductGrows
<1>6. no * Whole <= no' * Whole  BY <1>0, <1>1, ProductGrows
<1>7. CASE decision = "open"
    <2>1. decision' = Early(yes', no')  BY <1>7 DEF CastVotes
    <2>2. decision' = "yes" => yes' * Whole > total' * threshold'.ofExercised
        BY <2>1, <1>1 DEF Early
    <2>3. decision' = "no" => no' * Whole >= total' * (Whole - threshold'.ofExercised)
        BY <2>1, <1>1 DEF Early
    <2>. QED  BY <1>4, <1>9, <2>2, <2>3 DEF DecisionStands
<1>8. CASE decision # "open"
    <2>1. decision' = decision  BY <1>8 DEF CastVotes
    <2>2. ~(now >= deadline)  BY <1>0, <1>1
    <2>3. CASE decision = "yes"
        <3>1. yes * Whole > total * threshold.ofExercised  BY <2>2, <2>3 DEF DecisionStands
        <3>2. yes' * Whole > total' * threshold'.ofExercised
            <4>1. yes * Whole \in Nat /\ yes' * Whole \in Nat /\ total * threshold.ofExercised \in Nat
                BY <1>0, <1>1
            <4>. QED  BY <4>1, <3>1, <1>5, <1>1
        <3>. QED  BY <1>4, <1>9, <2>1, <2>3, <3>2 DEF DecisionStands
    <2>4. CASE decision = "no"
        <3>1. no * Whole >= total * (Whole - threshold.ofExercised)
            BY <2>2, <2>4 DEF DecisionStands
        <3>2. no' * Whole >= total' * (Whole - threshold'.ofExercised)
            <4>1. no * Whole \in Int /\ no' * Whole \in Int
                    /\ total * (Whole - threshold.ofExercised) \in Int
                BY <1>0, <1>1
            <4>. QED  BY <4>1, <3>1, <1>6, <1>1
        <3>. QED  BY <1>4, <1>9, <2>1, <2>4, <3>2 DEF DecisionStands
    <2>. QED  BY <2>3, <2>4, <1>8 DEF DecisionTypeOK
<1>. QED  BY <1>7, <1>8

\* Time passes, and the deadline decides what is still open.
LEMMA TickKeeps == ASSUME DecisionInv, Tick PROVE DecisionInv'
<1> USE DEF DecisionInv
<1>0. now \in Nat /\ deadline \in Nat  BY DEF DecisionTypeOK
<1>1. UNCHANGED <<total, threshold, yes, no, outcome, deadline, eligible, settled>> /\ now' = now + 1
    BY DEF Tick
<1>2. DecisionTypeOK'  BY <1>1 DEF DecisionTypeOK, Tick, AtDeadline
<1>3. IsAccepted' <=> IsAccepted
    BY <1>1 DEF IsAccepted, MajorityDecision, MinimumYesProportionOfExercised,
                MinimumYesProportionOfTotal
<1>6. VotingPeriod'
    <2>1. settled' => now' >= deadline'  BY <1>0, <1>1 DEF VotingPeriod
    <2>2. ASSUME decision' = "open" PROVE now' < deadline'
        <3>1. decision = "open" /\ now' # deadline  BY <2>2 DEF Tick, AtDeadline
        <3>. QED  BY <3>1, <1>0, <1>1 DEF VotingPeriod
    <2>. QED  BY <2>1, <2>2 DEF VotingPeriod
<1>4. CASE decision = "open" /\ now' = deadline
    <2>1. decision' = IF IsAccepted THEN "yes" ELSE "no"
        BY <1>4 DEF Tick, AtDeadline, IsAccepted, MajorityDecision,
                MinimumYesProportionOfExercised, MinimumYesProportionOfTotal
    <2>2. now' >= deadline'  BY <1>0, <1>1, <1>4
    <2>. QED  BY <1>2, <1>3, <1>6, <2>1, <2>2 DEF DecisionStands
<1>5. CASE ~(decision = "open" /\ now' = deadline)
    <2>1. decision' = decision  BY <1>5 DEF Tick
    <2>2. now >= deadline => now' >= deadline'  BY <1>0, <1>1
    <2>. QED  BY <1>1, <1>2, <1>3, <1>6, <2>1, <2>2 DEF DecisionStands
<1>. QED  BY <1>4, <1>5

\* The execution of an adopted proposal changes its outcome only.
LEMMA ExecuteKeeps == ASSUME DecisionInv, Execute PROVE DecisionInv'
BY DEF DecisionInv, Execute, DecisionTypeOK, DecisionStands, VotingPeriod, IsAccepted, MajorityDecision,
       MinimumYesProportionOfExercised, MinimumYesProportionOfTotal

\* Rewards are for proposals whose voting is over.
LEMMA DistributeRewardsKeeps == ASSUME DecisionInv, DistributeRewards PROVE DecisionInv'
BY DEF DecisionInv, DistributeRewards, DecisionTypeOK, DecisionStands, VotingPeriod,
       IsAccepted, MajorityDecision,
       MinimumYesProportionOfExercised, MinimumYesProportionOfTotal

\* Votes, the passing of time and the decision keep the invariant.
LEMMA NextDecisionInv == DecisionInv /\ [NextDecision]_decisionVars => DecisionInv'
<1> SUFFICES ASSUME DecisionInv, [NextDecision]_decisionVars PROVE DecisionInv'  OBVIOUS
<1>1. ASSUME NEW y \in 0 .. total, NEW n \in 0 .. total, CastVotes(y, n) PROVE DecisionInv'
    <2>1. total \in Nat  BY ThresholdType DEF DecisionInv
    <2>2. y \in Nat /\ n \in Nat  BY <2>1
    <2>. QED  BY <1>1, <2>2, CastVotesKeeps
<1>2. CASE Tick  BY <1>2, TickKeeps
<1>3. CASE Execute  BY <1>3, ExecuteKeeps
<1>4. CASE UNCHANGED decisionVars
    BY <1>4 DEF decisionVars, DecisionInv, DecisionTypeOK, DecisionStands, VotingPeriod,
        IsAccepted, MajorityDecision,
                MinimumYesProportionOfExercised, MinimumYesProportionOfTotal
<1>5. CASE DistributeRewards  BY <1>5, DistributeRewardsKeeps
<1>. QED  BY <1>1, <1>2, <1>3, <1>4, <1>5 DEF NextDecision

\* The inductive invariant holds in every state.
LEMMA DecisionInvHolds == SpecDecision => []DecisionInv
BY InitDecisionInv, NextDecisionInv, PTL DEF SpecDecision

\* The card for votes is there exactly before the deadline.
LEMMA AcceptingBeforeDeadline == ASSUME DecisionInv PROVE SnsProposalAcceptingVotes <=> now < deadline
<1>1. now \in Nat /\ deadline \in Nat /\ eligible \in BOOLEAN /\ settled \in BOOLEAN
    BY DEF DecisionInv, DecisionTypeOK
<1>2. CASE settled
    <2>1. SnsRewardStatus = "settled"  BY <1>2 DEF SnsRewardStatus
    <2>2. ~(now < deadline)  BY <1>1, <1>2 DEF DecisionInv, VotingPeriod
    <2>. QED  BY <2>1, <2>2 DEF SnsProposalAcceptingVotes
<1>3. CASE ~settled /\ now < deadline
    <2>1. SnsRewardStatus = "accept-votes"  BY <1>3 DEF SnsRewardStatus
    <2>. QED  BY <1>3, <2>1 DEF SnsProposalAcceptingVotes
<1>4. CASE ~settled /\ ~(now < deadline)
    <2>1. SnsRewardStatus = IF eligible THEN "ready-to-settle" ELSE "settled"
        BY <1>4 DEF SnsRewardStatus
    <2>2. SnsRewardStatus # "accept-votes"  BY <2>1
    <2>. QED  BY <1>4, <2>2 DEF SnsProposalAcceptingVotes
<1>. QED  BY <1>1, <1>2, <1>3, <1>4

\* The invariant implies that what the page computes is what governance decided.
LEMMA DecisionInvGivesStatus == DecisionInv => StatusIsGovernances
<1> SUFFICES ASSUME DecisionInv PROVE StatusIsGovernances  OBVIOUS
<1>1. DecisionTypeOK /\ DecisionStands /\ VotingPeriod  BY DEF DecisionInv
<1>2. decision = "yes" => IsAccepted  BY <1>1, EarlyYesIsAccepted DEF DecisionStands
<1>3. decision = "no" => ~IsAccepted  BY <1>1, EarlyNoIsRejected DEF DecisionStands
<1>4. outcome \in {"none", "executed", "failed"}  BY <1>1 DEF DecisionTypeOK
<1>5. SnsProposalAcceptingVotes <=> now < deadline  BY AcceptingBeforeDeadline
<1>6. decision = "yes" => SnsDecisionStatus \in {"adopted", "executed", "failed"}
    BY <1>2, <1>4 DEF SnsDecisionStatus
<1>7. decision = "no" => SnsDecisionStatus = "rejected"  BY <1>3 DEF SnsDecisionStatus
<1>8. decision = "open" => SnsDecisionStatus = "open" /\ SnsProposalAcceptingVotes
    BY <1>1, <1>5 DEF SnsDecisionStatus, VotingPeriod
<1>. QED  BY <1>5, <1>6, <1>7, <1>8 DEF StatusIsGovernances

-----------------------------------------------------------------------------
\* The status that snsDecisionStatus shows is the decision of governance, for every
\* voting power and all thresholds: late votes never turn an adopted proposal into a
\* rejected one or the other way round; and snsRewardStatus lets the user vote for as
\* long as governance takes votes (sns-proposals.utils.ts).
THEOREM StatusCorrect == SpecDecision => []StatusIsGovernances
BY DecisionInvHolds, DecisionInvGivesStatus, PTL

-----------------------------------------------------------------------------
(* Voting: what is read is behind the ballots, and votes are never taken    *)
(* back.                                                                    *)

\* The ballots x were read before the ballots y: a ballot may only have been cast since.
Behind(x, y) ==
    \A n \in Neurons :
        /\ x[n] = "none" <=> y[n] = "none"
        /\ x[n] \in {"yes", "no"} => y[n] \in {"yes", "no"}

\* Everything that was read of a proposal is behind its ballots.
ReadsAreBehind ==
    /\ \A l \in loads : Behind(l.sent, ballots[l.proposal])
    /\ \A c \in page \cup card : Behind(c.ballots, ballots[c.proposal])
    /\ \A s \in scans, p \in Proposals : Behind(s[p], ballots[p])

\* Calls belong to a registration that runs, and a reload after it to one that waits.
RegistrationsRun ==
    /\ \A p \in Proposals :
        /\ reg[p].calls # {} => reg[p].status = "voting"
        /\ reg[p].status = "voting" => reg[p].vote \in Votes /\ Behind(reg[p].base, ballots[p])
        /\ \A n \in Neurons :
            (<<n, "ok">> \in reg[p].calls \/ <<n, "already">> \in reg[p].calls \/ n \in reg[p].voted)
                => Voted(p, n)
    /\ \A l \in loads : l.role = "post" => reg[l.proposal].status = "post"
    /\ \A l, m \in loads :
        l.role = "post" /\ m.role = "post" /\ l.proposal = m.proposal => l = m

\* A vote that was asked for was cast, has failed visibly, or is still on its way.
UnderWay(p, n) ==
    /\ reg[p].status = "voting"
    /\ n \in reg[p].failed \/ <<n, "sent">> \in reg[p].calls \/ <<n, "error">> \in reg[p].calls
VotesArePending ==
    \A p \in Proposals, n \in Neurons :
        <<p, n>> \in asked => Voted(p, n) \/ <<p, n>> \in reported \/ UnderWay(p, n)

\* The card offers the neurons that may vote by what it shows.
CardOffersVotes ==
    /\ \A c, d \in page : c = d
    /\ \A c, d \in card : c = d
    /\ \A c \in card :
        /\ selected.done
        /\ selected.neurons = IF ready THEN Votable(c.ballots) ELSE {}

\* The page of the NNS shows the proposal of its address, and deselected neurons are
\* offered still, or have voted.
NnsChoice ==
    kind = "nns" =>
        /\ updating = "no"
        /\ \A l \in loads : l.role # "update"
        /\ \A c \in card : c.proposal \in url
        /\ off # {} => card # {}
        /\ \A c \in card : \A n \in off :
            Voted(c.proposal, n) \/ (n \in selected.neurons /\ n \notin selected.ids)

VotingInv ==
    /\ TypeOK /\ ReadsAreBehind /\ RegistrationsRun /\ VotesArePending
    /\ CardOffersVotes /\ NnsChoice /\ VotableIsActionable

-----------------------------------------------------------------------------
\* Ballots are behind themselves, and behind is transitive.
LEMMA BehindItself == ASSUME NEW x PROVE Behind(x, x)
BY DEF Behind

\* Ballots that are behind others are behind what those are behind.
LEMMA BehindTransitive ==
    ASSUME NEW x, NEW y, NEW z, Behind(x, y), Behind(y, z)
    PROVE  Behind(x, z)
BY DEF Behind

\* A vote that is cast moves the ballots forward.
LEMMA CastGoesForward ==
    ASSUME NEW x \in Ballots, NEW n \in Neurons, NEW v \in Votes, x[n] = "unspecified"
    PROVE  /\ Cast(x, n, v) \in Ballots
           /\ Behind(x, Cast(x, n, v))
           /\ Cast(x, n, v)[n] \in {"yes", "no"}
<1>1. v \in {"yes", "no"}  BY VotesAssumption
<1>2. \A m \in Neurons : Cast(x, n, v)[m] =
        IF m = n \/ (<<m, n>> \in Follows /\ x[m] = "unspecified") THEN v ELSE x[m]
    BY DEF Cast
<1>3. \A m \in Neurons : x[m] \in {"none", "unspecified", "yes", "no"}  BY DEF Ballots
<1>4. Cast(x, n, v) \in Ballots  BY <1>1, <1>3 DEF Cast, Ballots
<1>5. Behind(x, Cast(x, n, v))  BY <1>1, <1>2, <1>3 DEF Behind
<1>. QED  BY <1>1, <1>2, <1>4, <1>5

\* What is shown of a registration is behind the ballots if its neurons have voted.
LEMMA AfterVoteIsBehind ==
    ASSUME NEW x \in Ballots, NEW y, NEW neurons, NEW v \in Votes, Behind(x, y),
           \A n \in Neurons : n \in neurons => y[n] \in {"yes", "no"}
    PROVE  Behind(ProposalAfterVote(x, neurons, v), y)
<1>1. v \in {"yes", "no"}  BY VotesAssumption
<1>2. \A n \in Neurons : ProposalAfterVote(x, neurons, v)[n] = IF n \in neurons THEN v ELSE x[n]
    BY DEF ProposalAfterVote
<1>. QED  BY <1>1, <1>2 DEF Behind

\* What is shown of a registration (proposalAfterVote) are ballots.
LEMMA AfterVoteType ==
    ASSUME NEW x \in Ballots, NEW neurons, NEW v \in Votes \cup {"none"}
    PROVE  ProposalAfterVote(x, neurons, v) \in Ballots
<1>1. v \in {"none", "unspecified", "yes", "no"}  BY VotesAssumption
<1>2. \A n \in Neurons : x[n] \in {"none", "unspecified", "yes", "no"}  BY DEF Ballots
<1>. QED  BY <1>1, <1>2 DEF ProposalAfterVote, Ballots

\* Neurons that may vote are neurons, and ballots that go forward leave fewer of them.
LEMMA VotableType == ASSUME NEW x PROVE Votable(x) \subseteq Neurons
BY DEF Votable, VotableNeurons, VotableSnsNeurons

\* Neurons that may vote have not voted.
LEMMA VotableIsUnspecified ==
    ASSUME NEW x, NEW n \in Votable(x) PROVE n \in Neurons /\ x[n] = "unspecified"
BY DEF Votable, VotableNeurons, VotableSnsNeurons

\* Ballots that go forward leave fewer neurons that may vote.
LEMMA VotableShrinks ==
    ASSUME NEW x \in Ballots, NEW y \in Ballots, Behind(x, y)
    PROVE  Votable(y) \subseteq Votable(x)
<1>1. \A n \in Neurons : x[n] \in {"none", "unspecified", "yes", "no"}
                       /\ y[n] \in {"none", "unspecified", "yes", "no"}
    BY DEF Ballots
<1>2. \A n \in Neurons : y[n] = "unspecified" => x[n] = "unspecified"  BY <1>1 DEF Behind
<1>3. \A n \in Neurons : y[n] = "unspecified"
        => (NeuronsIneligibilityReasons(n, x) = NeuronsIneligibilityReasons(n, y))
    BY <1>2 DEF NeuronsIneligibilityReasons
<1>4. VotableNeurons(y) \subseteq VotableNeurons(x)  BY <1>2 DEF VotableNeurons
<1>5. VotableSnsNeurons(y) \subseteq VotableSnsNeurons(x)
    BY <1>2, <1>3 DEF VotableSnsNeurons, IneligibleSnsNeurons
<1>. QED  BY <1>4, <1>5 DEF Votable

-----------------------------------------------------------------------------
\* The card goes away.
LEMMA NothingIsShown ==
    ASSUME selected \in Selections, NEW loaded, ShowCard({}, loaded)
    PROVE  card' = {} /\ selected' \in Selections
BY DEF ShowCard, Selections

\* The card shows x: it offers what may vote, and what was deselected stays so.
LEMMA OneIsShown ==
    ASSUME selected \in Selections, NEW x, NEW loaded \in BOOLEAN, ShowCard({x}, loaded)
    PROVE  /\ card' = {x}
           /\ selected' \in Selections
           /\ selected'.done
           /\ selected'.neurons = IF loaded THEN Votable(x.ballots) ELSE {}
           /\ \A n : selected.done /\ n \in selected.neurons /\ n \notin selected.ids
                        => n \notin selected'.ids
<1> DEFINE new == Offered({x}, loaded)
<1>1. new = IF loaded THEN Votable(x.ballots) ELSE {}
    <2>1. UNION {Votable(v.ballots) : v \in {x}} = Votable(x.ballots)  OBVIOUS
    <2>. QED  BY <2>1 DEF Offered
<1>2. new \subseteq Neurons  BY <1>1, VotableType
<1>3. card' = {x} /\ selected' = UpdateVotingNeuronSelectedStore(selected, new)
    <2>1. {x} # {}  OBVIOUS
    <2>. QED  BY <2>1 DEF ShowCard
<1> HIDE DEF new
<1>4. CASE ~selected.done
    <2>1. selected' = SetNeurons(new)  BY <1>3, <1>4 DEF UpdateVotingNeuronSelectedStore
    <2>2. selected' \in Selections /\ selected'.done /\ selected'.neurons = new
        BY <2>1, <1>2 DEF SetNeurons, Selections
    <2>. QED  BY <2>2, <1>1, <1>3, <1>4
<1>5. CASE selected.done
    <2>1. selected' = UpdateNeurons(selected, new)  BY <1>3, <1>5 DEF UpdateVotingNeuronSelectedStore
    <2>2. /\ selected' \in Selections /\ selected'.done = selected.done /\ selected'.neurons = new
          /\ selected'.ids = (selected.ids \cap new) \cup (new \ selected.neurons)
        BY <2>1, <1>2 DEF UpdateNeurons, Selections, PreserveNeuronSelectionAfterUpdate
    <2>. QED  BY <2>2, <1>1, <1>3, <1>5
<1>6. selected.done \in BOOLEAN  BY DEF Selections
<1>. QED  BY <1>4, <1>5, <1>6

\* Requests have their type and are behind the ballots.
LEMMA RequestsAreSent ==
    ASSUME NEW strategy \in Strategies PROVE Sent(strategy) \in Requests
BY DEF Sent, Requests, CallsOf, Strategies

\* A request for a proposal carries the ballots of its time.
LEMMA LoadIsTyped ==
    ASSUME TypeOK, NEW p \in Proposals, NEW role \in {"page", "update", "reload", "post"}
    PROVE  /\ Load(p, role) \in Loads
           /\ Load(p, role).proposal = p /\ Load(p, role).role = role
           /\ Load(p, role).sent = ballots[p]
<1>1. Sent(IF role = "post" THEN "update" ELSE "query_and_update") \in Requests
    BY RequestsAreSent DEF Strategies
<1>2. ballots[p] \in Ballots  BY DEF TypeOK
<1>. QED  BY <1>1, <1>2 DEF Load, Loads

\* A request that is answered once is still a request.
LEMMA AnsweredType ==
    ASSUME NEW r \in Requests, NEW certified \in BOOLEAN PROVE Answered(r, certified) \in Requests
<1>1. certified \in BOOLEAN /\ r.certifiedDone \in BOOLEAN  BY DEF Requests
<1>2. CASE certified = TRUE  BY <1>1, <1>2 DEF Requests, Answered
<1>3. CASE certified = FALSE  BY <1>1, <1>3 DEF Requests, Answered
<1>. QED  BY <1>1, <1>2, <1>3

\* An answer leaves of a load what it is for, and never removes one after a registration.
Stems(m) ==
    \E k \in loads : /\ m.proposal = k.proposal /\ m.role = k.role /\ m.sent = k.sent
                     /\ m.role = "post" => m = k

\* What is left of a load after its answer belongs to a load that was there.
LEMMA AfterIsTyped ==
    ASSUME TypeOK, NEW l \in loads, l.role # "post", NEW certified \in BOOLEAN
    PROVE  /\ After(l, certified) \subseteq Loads
           /\ \A m \in After(l, certified) : Stems(m)
<1> DEFINE next == [l EXCEPT !.request = Answered(@, certified)]
<1>1. l \in Loads /\ loads \subseteq Loads  BY DEF TypeOK
<1>2. Answered(l.request, certified) \in Requests  BY <1>1, AnsweredType DEF Loads
<1>3. /\ next \in Loads /\ next.proposal = l.proposal /\ next.role = l.role /\ next.sent = l.sent
    BY <1>1, <1>2 DEF Loads
<1>4. After(l, certified) \subseteq (loads \ {l}) \cup {next}  BY DEF After
<1> HIDE DEF next
<1>5. After(l, certified) \subseteq Loads  BY <1>1, <1>3, <1>4
<1>6. ASSUME NEW m \in After(l, certified) PROVE Stems(m)
    <2>1. CASE m = next  BY <2>1, <1>3 DEF Stems
    <2>2. CASE m \in loads  BY <2>2 DEF Stems
    <2>. QED  BY <1>4, <2>1, <2>2
<1>. QED  BY <1>5, <1>6

-----------------------------------------------------------------------------
(* What stays as it is keeps its part of the invariant.                     *)

\* A registration that differs only in what its callbacks may still show.
SameRun(r, s) ==
    /\ s.status = r.status /\ s.vote = r.vote /\ s.base = r.base
    /\ s.calls = r.calls /\ s.voted = r.voted /\ s.failed = r.failed
SameRuns == \A p \in Proposals : SameRun(reg[p], reg'[p])

\* Registrations run on while no call of theirs is answered.
LEMMA RunsStay ==
    ASSUME TypeOK, RegistrationsRun, ballots' = ballots, SameRuns,
           \A m \in loads' : m.role = "post" => m \in loads
    PROVE  RegistrationsRun'
<1>1. ASSUME NEW p \in Proposals
      PROVE  /\ reg'[p].calls # {} => reg'[p].status = "voting"
             /\ reg'[p].status = "voting" => reg'[p].vote \in Votes /\ Behind(reg'[p].base, ballots[p])
             /\ \A n \in Neurons :
                (<<n, "ok">> \in reg'[p].calls \/ <<n, "already">> \in reg'[p].calls \/ n \in reg'[p].voted)
                    => Voted(p, n)
    BY DEF SameRuns, SameRun, RegistrationsRun
<1>2. ASSUME NEW m \in loads', m.role = "post" PROVE reg'[m.proposal].status = "post"
    <2>1. m \in loads /\ m.proposal \in Proposals  BY <1>2 DEF TypeOK, Loads
    <2>. QED  BY <1>2, <2>1 DEF SameRuns, SameRun, RegistrationsRun
<1>3. ASSUME NEW l \in loads', NEW m \in loads', l.role = "post", m.role = "post", l.proposal = m.proposal
      PROVE  l = m
    BY <1>3 DEF RegistrationsRun
<1>. QED  BY <1>1, <1>2, <1>3 DEF RegistrationsRun, Voted, Behind

\* What was asked for stays on its way while the registrations run on.
LEMMA PendingStays ==
    ASSUME VotesArePending, ballots' = ballots, SameRuns, asked' = asked, reported' = reported
    PROVE  VotesArePending'
BY DEF VotesArePending, UnderWay, Voted, SameRuns, SameRun

\* What is read stays behind while the ballots stay as they are.
LEMMA ReadsStay ==
    ASSUME TypeOK, ReadsAreBehind, ballots' = ballots,
           \A m \in loads' : Stems(m) \/ Behind(m.sent, ballots[m.proposal]),
           \A c \in page' \cup card' : c \in page \cup card \/ Behind(c.ballots, ballots[c.proposal]),
           \A s \in scans' : s \in scans \/ s = ballots
    PROVE  ReadsAreBehind'
<1>1. ASSUME NEW m \in loads' PROVE Behind(m.sent, ballots[m.proposal])
    BY <1>1 DEF Stems, ReadsAreBehind
<1>2. ASSUME NEW c \in page' \cup card' PROVE Behind(c.ballots, ballots[c.proposal])
    BY <1>2 DEF ReadsAreBehind
<1>3. ASSUME NEW s \in scans', NEW p \in Proposals PROVE Behind(s[p], ballots[p])
    BY <1>3, BehindItself DEF ReadsAreBehind
<1>. QED  BY <1>1, <1>2, <1>3 DEF ReadsAreBehind, Behind

\* The actionable proposals are right while nobody votes and none is closed.
LEMMA ActionableStays ==
    ASSUME VotableIsActionable, UNCHANGED <<kind, who, ballots, closed, actionable>>
    PROVE  VotableIsActionable'
BY DEF VotableIsActionable, Votable, VotableNeurons, VotableSnsNeurons, IneligibleSnsNeurons,
       NeuronsIneligibilityReasons

\* Callbacks of a card that is gone.
LEMMA UnmountedRuns ==
    ASSUME TypeOK
    PROVE  /\ Unmounted \in [Proposals -> Registrations]
           /\ \A p \in Proposals : SameRun(reg[p], Unmounted[p])
<1>1. ASSUME NEW p \in Proposals
      PROVE  Unmounted[p] \in Registrations /\ SameRun(reg[p], Unmounted[p])
    <2>1. reg[p] \in Registrations /\ Unmounted[p] = [reg[p] EXCEPT !.live = FALSE]
        BY DEF TypeOK, Unmounted
    <2>. QED  BY <2>1 DEF Registrations, SameRun
<1>. QED  BY <1>1 DEF Unmounted

\* The page is left.
LEMMA GoneBack ==
    ASSUME TypeOK, GoBack
    PROVE  /\ reg' \in [Proposals -> Registrations] /\ SameRuns
           /\ url' = {} /\ page' = {} /\ card' = {} /\ selected' \in Selections
           /\ loads' \subseteq loads /\ updating' = "no" /\ off' = {}
<1>1. ASSUME NEW p \in Proposals
      PROVE  reg'[p] \in Registrations /\ SameRun(reg[p], reg'[p])
    <2>1. /\ Unmounted[p] \in Registrations /\ reg'[p] = [Unmounted[p] EXCEPT !.page = FALSE]
          /\ SameRun(reg[p], Unmounted[p])
        BY UnmountedRuns DEF GoBack
    <2>. QED  BY <2>1 DEF Registrations, SameRun
<1>2. selected \in Selections  BY DEF TypeOK
<1>3. ShowCard({}, ready)  BY DEF GoBack
<1>4. card' = {} /\ selected' \in Selections  BY <1>2, <1>3, NothingIsShown
<1>. QED  BY <1>1, <1>4 DEF GoBack, SameRuns

-----------------------------------------------------------------------------
(* Governance and the actionable proposals.                                 *)

\* The first states.
LEMMA InitVotingInv == Init => VotingInv
<1> SUFFICES ASSUME Init PROVE VotingInv  OBVIOUS
<1>1. ballots \in [Proposals -> Ballots] /\ stored \in [Proposals -> Ballots]
    BY DEF Init, Ballots
<1>2. NoRegistration \in Registrations /\ NoSelection \in Selections
    BY DEF NoRegistration, Registrations, Ballots, NoSelection, Selections
<1>3. ready = FALSE /\ ready \in BOOLEAN  BY DEF Init
<1>4. TypeOK  BY <1>1, <1>2, <1>3 DEF Init, TypeOK
<1>5. ReadsAreBehind  BY DEF Init, ReadsAreBehind
<1>6. RegistrationsRun
    <2>1. \A p \in Proposals : reg[p] = NoRegistration  BY DEF Init
    <2>2. NoRegistration.calls = {} /\ NoRegistration.status = "none" /\ NoRegistration.voted = {}
        BY DEF NoRegistration
    <2>3. loads = {}  BY DEF Init
    <2>. QED  BY <2>1, <2>2, <2>3 DEF RegistrationsRun
<1>7. VotesArePending  BY DEF Init, VotesArePending
<1>8. CardOffersVotes /\ NnsChoice  BY DEF Init, CardOffersVotes, NnsChoice
<1>9. VotableIsActionable  BY DEF Init, VotableIsActionable
<1>. QED  BY <1>4, <1>5, <1>6, <1>7, <1>8, <1>9 DEF VotingInv

\* Ballots that go forward take nothing back.
Forward == \A p \in Proposals : Behind(ballots[p], ballots'[p])

\* What was read stays behind ballots that go forward.
LEMMA ForwardKeepsReads ==
    ASSUME TypeOK, ReadsAreBehind, Forward, UNCHANGED <<loads, page, card, scans>>
    PROVE  ReadsAreBehind'
<1>1. ASSUME NEW l \in loads PROVE Behind(l.sent, ballots'[l.proposal])
    <2>1. l.proposal \in Proposals  BY DEF TypeOK, Loads
    <2>. QED  BY <2>1, BehindTransitive DEF ReadsAreBehind, Forward
<1>2. ASSUME NEW c \in page \cup card PROVE Behind(c.ballots, ballots'[c.proposal])
    <2>1. c.proposal \in Proposals  BY DEF TypeOK, Shown
    <2>. QED  BY <2>1, BehindTransitive DEF ReadsAreBehind, Forward
<1>3. ASSUME NEW s \in scans, NEW p \in Proposals PROVE Behind(s[p], ballots'[p])
    BY BehindTransitive DEF ReadsAreBehind, Forward
<1>. QED  BY <1>1, <1>2, <1>3 DEF ReadsAreBehind, Behind

\* A neuron that has voted has voted for good.
LEMMA ForwardKeepsVotes ==
    ASSUME Forward, NEW p \in Proposals, NEW n \in Neurons, Voted(p, n)
    PROVE  Voted(p, n)'
BY DEF Forward, Behind, Voted

\* The actionable proposals stay complete when ballots go forward.
LEMMA ForwardKeepsActionable ==
    ASSUME TypeOK, TypeOK', VotableIsActionable, Forward, UNCHANGED <<kind, who, closed, actionable>>
    PROVE  VotableIsActionable'
<1>1. ASSUME NEW p \in Proposals PROVE Votable(ballots'[p]) \subseteq Votable(ballots[p])
    <2>1. ballots[p] \in Ballots /\ ballots'[p] \in Ballots  BY DEF TypeOK
    <2>. QED  BY <2>1, VotableShrinks DEF Forward
<1>2. ASSUME NEW p \in Proposals PROVE Votable(ballots[p])' = Votable(ballots'[p])
    BY DEF Votable, VotableNeurons, VotableSnsNeurons, IneligibleSnsNeurons, NeuronsIneligibilityReasons
<1>. QED  BY <1>1, <1>2 DEF VotableIsActionable

\* The user's choice of neurons outlasts ballots that go forward.
LEMMA ForwardKeepsChoice ==
    ASSUME TypeOK, NnsChoice, Forward,
           UNCHANGED <<kind, updating, loads, card, url, off, selected>>
    PROVE  NnsChoice'
<1>1. ASSUME NEW c \in card, NEW n \in off, Voted(c.proposal, n) PROVE Voted(c.proposal, n)'
    <2>1. c.proposal \in Proposals /\ n \in Neurons  BY DEF TypeOK, Shown
    <2>. QED  BY <1>1, <2>1, ForwardKeepsVotes
<1>. QED  BY <1>1 DEF NnsChoice

\* What the card offers does not depend on the ballots of governance.
LEMMA OffersStay ==
    ASSUME CardOffersVotes, UNCHANGED <<kind, who, page, card, selected, ready>>
    PROVE  CardOffersVotes'
BY DEF CardOffersVotes, Votable, VotableNeurons, VotableSnsNeurons, IneligibleSnsNeurons,
       NeuronsIneligibilityReasons

\* A vote that comes from elsewhere.
LEMMA VoteElsewhereKeeps ==
    ASSUME VotingInv, NEW p \in Proposals, NEW n \in Neurons, NEW v \in Votes, VoteElsewhere(p, n, v)
    PROVE  VotingInv'
<1> USE DEF VotingInv
<1>1. /\ ballots[p][n] = "unspecified" /\ ballots' = [ballots EXCEPT ![p] = Cast(@, n, v)]
      /\ UNCHANGED <<kind, who, closed, ready, asking, url, updating, page, card, selected, loads, reg>>
      /\ UNCHANGED <<stored, actionable, scans, off, asked, reported, opens, votes>>
      /\ events' = events + 1
    BY DEF VoteElsewhere, Event, pageVars, history
<1>2. ballots \in [Proposals -> Ballots]  BY DEF TypeOK
<1>3. Cast(ballots[p], n, v) \in Ballots /\ Behind(ballots[p], Cast(ballots[p], n, v))
    BY <1>1, <1>2, CastGoesForward
<1>4. Forward  BY <1>1, <1>2, <1>3, BehindItself DEF Forward
<1>5. TypeOK'  BY <1>1, <1>2, <1>3 DEF TypeOK
<1>6. ReadsAreBehind'  BY <1>1, <1>4, ForwardKeepsReads
<1>7. RegistrationsRun'
    <2>1. ASSUME NEW q \in Proposals, Behind(reg[q].base, ballots[q]) PROVE Behind(reg[q].base, ballots'[q])
        BY <2>1, <1>4, BehindTransitive DEF Forward
    <2>2. ASSUME NEW q \in Proposals, NEW m \in Neurons, Voted(q, m) PROVE Voted(q, m)'
        BY <2>2, <1>4, ForwardKeepsVotes
    <2>. QED  BY <2>1, <2>2, <1>1 DEF RegistrationsRun, Behind
<1>8. VotesArePending'
    <2>1. ASSUME NEW q \in Proposals, NEW m \in Neurons, Voted(q, m) PROVE Voted(q, m)'
        BY <2>1, <1>4, ForwardKeepsVotes
    <2>. QED  BY <2>1, <1>1 DEF VotesArePending, UnderWay
<1>9. CardOffersVotes' /\ NnsChoice' /\ VotableIsActionable'
    BY <1>1, <1>4, <1>5, OffersStay, ForwardKeepsChoice, ForwardKeepsActionable
<1>. QED  BY <1>5, <1>6, <1>7, <1>8, <1>9

\* Nothing of a page or of a registration changes.
LEMMA RestStays ==
    ASSUME VotingInv, TypeOK', VotableIsActionable',
           UNCHANGED <<kind, who, ballots, ready, url, updating, page, card, selected, loads, reg>>,
           UNCHANGED <<off, asked, reported>>,
           \A s \in scans' : s \in scans \/ s = ballots
    PROVE  VotingInv'
<1> USE DEF VotingInv
<1>1. SameRuns  BY DEF SameRuns, SameRun
<1>2. ReadsAreBehind'
    <2>1. \A m \in loads' : Stems(m)  BY DEF Stems
    <2>. QED  BY <2>1, ReadsStay
<1>3. RegistrationsRun' /\ VotesArePending'  BY <1>1, RunsStay, PendingStays
<1>4. CardOffersVotes'  BY OffersStay
<1>5. NnsChoice'  BY DEF NnsChoice, Voted
<1>. QED  BY <1>2, <1>3, <1>4, <1>5

\* A proposal is closed.
LEMMA CloseKeeps ==
    ASSUME VotingInv, NEW p \in Proposals, Close(p) PROVE VotingInv'
<1>1. /\ closed' = closed \cup {p} /\ events' = events + 1
      /\ UNCHANGED <<kind, who, ballots, ready, asking, url, updating, page, card, selected, loads, reg>>
      /\ UNCHANGED <<stored, actionable, scans, off, asked, reported, opens, votes>>
    BY DEF Close, Event, pageVars, history
<1>2. TypeOK'  BY <1>1 DEF TypeOK, VotingInv
<1>3. VotableIsActionable'
    <2>1. Proposals \ closed' \subseteq Proposals \ closed  BY <1>1
    <2>. QED  BY <1>1, <2>1 DEF VotingInv, VotableIsActionable, Votable, VotableNeurons,
            VotableSnsNeurons, IneligibleSnsNeurons, NeuronsIneligibilityReasons
<1>. QED  BY <1>1, <1>2, <1>3, RestStays

\* A load of the actionable proposals starts (loadActionableProposals).
LEMMA LoadActionableProposalsKeeps ==
    ASSUME VotingInv, LoadActionableProposals PROVE VotingInv'
<1>1. /\ scans' = {ballots} /\ asking' \in {asking, asking \cup {FALSE}}
      /\ UNCHANGED <<kind, who, ballots, closed, ready, url, updating, page, card, selected, loads, reg>>
      /\ UNCHANGED <<stored, actionable, off, asked, reported, opens, votes, events>>
    BY DEF LoadActionableProposals, governance, pageVars, history, counters
<1>2. TypeOK'  BY <1>1 DEF TypeOK, VotingInv
<1>3. VotableIsActionable'  BY <1>1, ActionableStays DEF VotingInv
<1>. QED  BY <1>1, <1>2, <1>3, RestStays

\* What is loaded has every proposal that a neuron may vote on now.
LEMMA ActionableLoadedKeeps ==
    ASSUME VotingInv, NEW s \in scans, ActionableLoaded(s) PROVE VotingInv'
<1>1. /\ scans' = scans \ {s}
      /\ UNCHANGED <<kind, who, ballots, closed, ready, asking, url, updating, page, card, selected, loads>>
      /\ UNCHANGED <<reg, stored, off, asked, reported, opens, votes, events>>
    BY DEF ActionableLoaded, governance, pageVars, history, counters
<1>2. PICK b \in {s, ballots} :
        actionable' = {{p \in Proposals \ closed : HasVotableNeuron(b[p])}}
    BY DEF ActionableLoaded
<1>3. TypeOK'  BY <1>1, <1>2 DEF TypeOK, VotingInv
<1>4. ASSUME NEW p \in Proposals PROVE Votable(ballots[p]) \subseteq Votable(b[p])
    <2>1. Behind(b[p], ballots[p])  BY BehindItself DEF VotingInv, ReadsAreBehind
    <2>2. b[p] \in Ballots /\ ballots[p] \in Ballots  BY DEF VotingInv, TypeOK
    <2>. QED  BY <2>1, <2>2, VotableShrinks
<1>5. \A p \in Proposals \ closed :
        Votable(ballots[p]) # {} => p \in {q \in Proposals \ closed : HasVotableNeuron(b[q])}
    BY <1>4 DEF HasVotableNeuron
<1>6. ASSUME NEW p \in Proposals PROVE Votable(ballots[p])' = Votable(ballots[p])
    BY <1>1 DEF Votable, VotableNeurons, VotableSnsNeurons, IneligibleSnsNeurons,
                NeuronsIneligibilityReasons
<1>7. VotableIsActionable'  BY <1>1, <1>2, <1>5, <1>6 DEF VotableIsActionable
<1>. QED  BY <1>1, <1>3, <1>7, RestStays

\* A load of the actionable proposals fails.
LEMMA ActionableFailsKeeps ==
    ASSUME VotingInv, NEW s \in scans, ActionableFails(s) PROVE VotingInv'
<1>1. /\ scans' = scans \ {s} /\ events' = events + 1
      /\ UNCHANGED <<kind, who, ballots, closed, ready, asking, url, updating, page, card, selected, loads>>
      /\ UNCHANGED <<reg, stored, actionable, off, asked, reported, opens, votes>>
    BY DEF ActionableFails, Event, governance, pageVars, history
<1>2. TypeOK'  BY <1>1 DEF TypeOK, VotingInv
<1>3. VotableIsActionable'  BY <1>1, ActionableStays DEF VotingInv
<1>. QED  BY <1>1, <1>2, <1>3, RestStays

-----------------------------------------------------------------------------
(* The page.                                                                *)

\* A load that is new, and not one after a registration.
IsNewLoad(m) ==
    /\ m.role # "post" /\ Behind(m.sent, ballots[m.proposal])
    /\ kind = "nns" => m.role # "update"

\* What is read now is behind the ballots, and is no reload after a registration.
LEMMA NewLoads ==
    ASSUME TypeOK, NEW p \in Proposals, NEW role \in {"page", "update", "reload"},
           kind = "nns" => role # "update",
           NEW new, new \subseteq loads \cup {Load(p, role)}
    PROVE  new \subseteq Loads /\ \A m \in new : Stems(m) \/ IsNewLoad(m)
<1>1. /\ Load(p, role) \in Loads /\ Load(p, role).proposal = p /\ Load(p, role).role = role
      /\ Load(p, role).sent = ballots[p]
    BY LoadIsTyped
<1>2. IsNewLoad(Load(p, role))  BY <1>1, BehindItself DEF IsNewLoad
<1>3. \A m \in loads : Stems(m)  BY DEF Stems
<1>. QED  BY <1>1, <1>2, <1>3 DEF TypeOK

\* What the steps of a page have in common: registrations go on.
LEMMA PageStepKeeps ==
    ASSUME VotingInv, UNCHANGED <<kind, who, ballots, closed, actionable, scans, asked, reported>>,
           SameRuns, TypeOK', CardOffersVotes', NnsChoice',
           \A m \in loads' : Stems(m) \/ IsNewLoad(m),
           \A c \in page' \cup card' : c \in page \cup card \/ Behind(c.ballots, ballots[c.proposal])
    PROVE  VotingInv'
<1> USE DEF VotingInv
<1>1. ReadsAreBehind'
    <2>1. \A m \in loads' : Stems(m) \/ Behind(m.sent, ballots[m.proposal])  BY DEF IsNewLoad
    <2>. QED  BY <2>1, ReadsStay
<1>2. RegistrationsRun'
    <2>1. \A m \in loads' : m.role = "post" => m \in loads  BY DEF IsNewLoad, Stems
    <2>. QED  BY <2>1, RunsStay
<1>3. VotesArePending' /\ VotableIsActionable'  BY PendingStays, ActionableStays
<1>. QED  BY <1>1, <1>2, <1>3

\* Without a card nothing is selected and nothing deselected.
LEMMA NoCardKeeps ==
    ASSUME VotingInv, UNCHANGED <<kind, who, ballots, closed, actionable, scans, asked, reported>>,
           SameRuns, TypeOK', card' = {}, page' \subseteq page,
           kind = "nns" => off' = {} /\ updating' = "no",
           \A m \in loads' : Stems(m) \/ IsNewLoad(m)
    PROVE  VotingInv'
<1>1. CardOffersVotes'  BY DEF CardOffersVotes, VotingInv
<1>2. NnsChoice'
    <2>1. ASSUME kind = "nns", NEW m \in loads' PROVE m.role # "update"
        BY <2>1 DEF Stems, IsNewLoad, VotingInv, NnsChoice
    <2>. QED  BY <2>1 DEF NnsChoice
<1>. QED  BY <1>1, <1>2, PageStepKeeps

\* The page of a proposal is opened.
LEMMA OpenPageKeeps ==
    ASSUME VotingInv, NEW p \in Proposals, OpenPage(p) PROVE VotingInv'
<1> USE DEF VotingInv
<1>1. /\ url' = {p} /\ page' = {} /\ off' = {} /\ opens' = opens + 1
      /\ UNCHANGED <<kind, who, ballots, closed, ready, reg, stored, actionable, scans, asked, reported>>
      /\ UNCHANGED <<votes, events>>
    BY DEF OpenPage, governance, history
<1>2. card' = {} /\ selected' \in Selections
    BY NothingIsShown DEF OpenPage, TypeOK
<1>3. SameRuns  BY <1>1 DEF SameRuns, SameRun
<1>4. CASE kind = "nns" /\ FindProposal(p) /\ asking' = BOOLEAN
    <2>1. updating' = "no" /\ loads' = loads \cup {Load(p, "page")}  BY <1>4 DEF FindProposal
    <2>2. loads' \subseteq Loads /\ \A m \in loads' : Stems(m) \/ IsNewLoad(m)  BY <2>1, NewLoads
    <2>3. TypeOK'  BY <1>1, <1>2, <1>4, <2>1, <2>2 DEF TypeOK
    <2>. QED  BY <1>1, <1>2, <1>3, <2>1, <2>2, <2>3, NoCardKeeps
<1>5. CASE kind = "sns" /\ Update(p)
    <2>1. /\ updating' \in {"neurons", "proposal"} /\ asking' \in {asking, BOOLEAN}
          /\ loads' \subseteq loads \cup {Load(p, "update")}
        BY <1>5 DEF Update
    <2>2. loads' \subseteq Loads /\ \A m \in loads' : Stems(m) \/ IsNewLoad(m)
        BY <1>5, <2>1, NewLoads
    <2>3. TypeOK'  BY <1>1, <1>2, <1>5, <2>1, <2>2 DEF TypeOK
    <2>. QED  BY <1>1, <1>2, <1>3, <1>5, <2>1, <2>2, <2>3, NoCardKeeps
<1>. QED  BY <1>4, <1>5 DEF OpenPage

\* The user goes on to the page of another proposal.
LEMMA NavigateKeeps ==
    ASSUME VotingInv, NEW p \in Proposals, Navigate(p) PROVE VotingInv'
<1> USE DEF VotingInv
<1>1. /\ url' = {p} /\ off' = {} /\ opens' = opens + 1 /\ reg' = Unmounted
      /\ UNCHANGED <<kind, who, ballots, closed, ready, stored, actionable, scans, asked, reported>>
      /\ UNCHANGED <<votes, events>>
    BY DEF Navigate, governance, history
<1>2. reg' \in [Proposals -> Registrations] /\ SameRuns  BY <1>1, UnmountedRuns DEF SameRuns
<1>3. ASSUME ShowCard({}, ready) PROVE card' = {} /\ selected' \in Selections
    BY <1>3, NothingIsShown DEF TypeOK
<1>4. CASE kind = "nns" /\ FindProposal(p) /\ page' = {} /\ ShowCard({}, ready) /\ asking' = asking
    <2>1. updating' = "no" /\ loads' = loads \cup {Load(p, "page")}  BY <1>4 DEF FindProposal
    <2>2. loads' \subseteq Loads /\ \A m \in loads' : Stems(m) \/ IsNewLoad(m)  BY <2>1, NewLoads
    <2>3. TypeOK'  BY <1>1, <1>2, <1>3, <1>4, <2>1, <2>2 DEF TypeOK
    <2>. QED  BY <1>1, <1>2, <1>3, <1>4, <2>1, <2>2, <2>3, NoCardKeeps
<1>5. CASE kind = "sns" /\ Update(p) /\ ShowCard({}, ready) /\ page' = page
    <2>1. /\ updating' \in {"neurons", "proposal"} /\ asking' \in {asking, BOOLEAN}
          /\ loads' \subseteq loads \cup {Load(p, "update")}
        BY <1>5 DEF Update
    <2>2. loads' \subseteq Loads /\ \A m \in loads' : Stems(m) \/ IsNewLoad(m)
        BY <1>5, <2>1, NewLoads
    <2>3. TypeOK'  BY <1>1, <1>2, <1>3, <1>5, <2>1, <2>2 DEF TypeOK
    <2>. QED  BY <1>1, <1>2, <1>3, <1>5, <2>1, <2>2, <2>3, NoCardKeeps
<1>6. CASE kind = "sns" /\ UNCHANGED <<updating, asking, loads, page, card, selected>>
    <2>1. TypeOK'  BY <1>1, <1>2, <1>6 DEF TypeOK
    <2>2. CardOffersVotes'  BY <1>1, <1>6, OffersStay
    <2>3. NnsChoice'  BY <1>1, <1>6 DEF NnsChoice
    <2>4. \A m \in loads' : Stems(m)  BY <1>6 DEF Stems
    <2>. QED  BY <1>1, <1>2, <1>6, <2>1, <2>2, <2>3, <2>4, PageStepKeeps
<1>. QED  BY <1>4, <1>5, <1>6 DEF Navigate

\* The user leaves the page.
LEMMA LeaveKeeps == ASSUME VotingInv, Leave PROVE VotingInv'
<1> USE DEF VotingInv
<1>1. /\ reg' \in [Proposals -> Registrations] /\ SameRuns
      /\ url' = {} /\ page' = {} /\ card' = {} /\ selected' \in Selections
      /\ loads' \subseteq loads /\ updating' = "no" /\ off' = {}
    BY GoneBack DEF Leave
<1>2. /\ UNCHANGED <<kind, who, ballots, closed, ready, asking, stored, actionable, scans, asked, reported>>
      /\ UNCHANGED <<opens, votes, events>>
    BY DEF Leave, governance, history, counters
<1>3. TypeOK'  BY <1>1, <1>2 DEF TypeOK
<1>4. \A m \in loads' : Stems(m)  BY <1>1 DEF Stems
<1>. QED  BY <1>1, <1>2, <1>3, <1>4, NoCardKeeps

\* A checkbox.
LEMMA ToggleSelectionKeeps ==
    ASSUME VotingInv, NEW n \in Neurons, ToggleSelection(n) PROVE VotingInv'
<1> USE DEF VotingInv
<1>1. /\ card # {} /\ n \in selected.neurons
      /\ UNCHANGED <<kind, who, ballots, closed, ready, asking, url, updating, page, card, loads, reg>>
      /\ UNCHANGED <<stored, actionable, scans, asked, reported, opens, votes, events>>
    BY DEF ToggleSelection, governance, history, counters
<1>2. selected \in Selections /\ off \subseteq Neurons  BY DEF TypeOK
<1>3. \/ selected' = [selected EXCEPT !.ids = @ \ {n}] /\ off' = off \cup {n}
      \/ selected' = [selected EXCEPT !.ids = @ \cup {n}] /\ off' = off \ {n}
    BY DEF ToggleSelection
<1>4. /\ selected' \in Selections /\ off' \subseteq Neurons
      /\ selected'.done = selected.done /\ selected'.neurons = selected.neurons
      /\ \A m \in off' : m \notin selected'.ids \/ (m \in off /\ m \in selected.ids)
      /\ \A m \in off' : m \in off \/ m = n
    BY <1>2, <1>3 DEF Selections
<1>5. TypeOK'  BY <1>1, <1>4 DEF TypeOK
<1>6. CardOffersVotes'
    BY <1>1, <1>4 DEF CardOffersVotes, Votable, VotableNeurons, VotableSnsNeurons,
            IneligibleSnsNeurons, NeuronsIneligibilityReasons
<1>7. NnsChoice'
    <2>1. ASSUME kind = "nns", NEW c \in card, NEW m \in off'
          PROVE  Voted(c.proposal, m) \/ (m \in selected'.neurons /\ m \notin selected'.ids)
        BY <2>1, <1>1, <1>4 DEF NnsChoice
    <2>. QED  BY <2>1, <1>1 DEF NnsChoice, Voted
<1>8. SameRuns /\ \A m \in loads' : Stems(m)  BY <1>1 DEF SameRuns, SameRun, Stems
<1>. QED  BY <1>1, <1>5, <1>6, <1>7, <1>8, PageStepKeeps

\* A card is shown for what was read of the proposal of the page.
LEMMA CardIsShown ==
    ASSUME VotingInv, NEW x \in Shown, Behind(x.ballots, ballots[x.proposal]),
           NEW loaded \in BOOLEAN, ShowCard({x}, loaded), ready' = loaded, ready => loaded,
           UNCHANGED <<kind, who, ballots, off>>, \A c, d \in page' : c = d,
           kind = "nns" => /\ updating' = "no" /\ x.proposal \in url'
                           /\ \A c \in card : c.proposal = x.proposal
                           /\ \A m \in loads' : m.role # "update"
    PROVE  card' = {x} /\ selected' \in Selections /\ CardOffersVotes' /\ NnsChoice'
<1> USE DEF VotingInv
<1>1. /\ card' = {x} /\ selected' \in Selections /\ selected'.done
      /\ selected'.neurons = IF loaded THEN Votable(x.ballots) ELSE {}
      /\ \A n : selected.done /\ n \in selected.neurons /\ n \notin selected.ids
                    => n \notin selected'.ids
    BY OneIsShown DEF TypeOK
<1>2. CardOffersVotes'
    <2>1. Votable(x.ballots)' = Votable(x.ballots)
        BY DEF Votable, VotableNeurons, VotableSnsNeurons, IneligibleSnsNeurons,
               NeuronsIneligibilityReasons
    <2>. QED  BY <1>1, <2>1 DEF CardOffersVotes
<1>3. NnsChoice'
    <2>1. ASSUME kind = "nns", NEW n \in off
          PROVE  Voted(x.proposal, n) \/ (n \in selected'.neurons /\ n \notin selected'.ids)
        <3>1. PICK c \in card : c.proposal = x.proposal  BY <2>1 DEF NnsChoice
        <3>2. CASE Voted(c.proposal, n)  BY <3>1, <3>2
        <3>3. CASE ~Voted(c.proposal, n)
            <4>1. /\ n \in selected.neurons /\ n \notin selected.ids
                  /\ selected.done /\ selected.neurons = IF ready THEN Votable(c.ballots) ELSE {}
                BY <2>1, <3>3 DEF NnsChoice, CardOffersVotes
            <4>2. loaded /\ n \in Votable(c.ballots)  BY <4>1
            <4>3. c.ballots[n] = "unspecified" /\ n \in Neurons  BY <4>2, VotableIsUnspecified
            <4>4. Behind(c.ballots, ballots[x.proposal])  BY <3>1 DEF ReadsAreBehind
            <4>5. x.ballots[n] # "none"  BY <4>3, <4>4 DEF Behind
            <4>6. x.ballots[n] \notin {"yes", "no"}  BY <3>1, <3>3, <4>3 DEF Behind, Voted
            <4>7. x.ballots[n] = "unspecified"  BY <4>3, <4>5, <4>6 DEF Shown, Ballots
            <4>8. n \in Votable(x.ballots)  BY <2>1, <4>3, <4>7 DEF Votable, VotableNeurons
            <4>. QED  BY <1>1, <4>1, <4>2, <4>8
        <3>. QED  BY <3>2, <3>3
    <2>. QED  BY <1>1, <2>1 DEF NnsChoice, Voted
<1>. QED  BY <1>1, <1>2, <1>3

\* The neurons are answered, and the card offers those that may vote.
LEMMA NeuronsAnsweredKeeps ==
    ASSUME VotingInv, NEW certified \in BOOLEAN, NeuronsAnswered(certified) PROVE VotingInv'
<1> USE DEF VotingInv
<1>1. /\ ready' = TRUE
      /\ UNCHANGED <<kind, who, ballots, closed, url, page, stored, actionable, scans, off>>
      /\ UNCHANGED <<asked, reported, opens, votes, events>>
    BY DEF NeuronsAnswered, governance, history, counters
<1> DEFINE still == IF certified THEN {} ELSE asking \ {certified}
<1>2. still \subseteq BOOLEAN  BY DEF TypeOK
<1>3. CASE /\ asking' = still
           /\ IF card # {} THEN ShowCard(card, TRUE) ELSE UNCHANGED <<card, selected>>
           /\ UNCHANGED <<updating, loads, reg>>
    <2>1. SameRuns /\ \A m \in loads' : Stems(m)  BY <1>3 DEF SameRuns, SameRun, Stems
    <2>2. card' = card /\ selected' \in Selections /\ CardOffersVotes' /\ NnsChoice'
        <3>1. CASE card = {}
            BY <1>1, <1>3, <3>1 DEF TypeOK, CardOffersVotes, NnsChoice
        <3>2. CASE card # {}
            <4>1. PICK x \in card : card = {x}  BY <3>2 DEF CardOffersVotes
            <4>2. x \in Shown /\ Behind(x.ballots, ballots[x.proposal])
                BY DEF TypeOK, ReadsAreBehind
            <4>3. ShowCard({x}, TRUE)  BY <1>3, <3>2, <4>1
            <4>4. \A c, d \in page' : c = d  BY <1>1 DEF CardOffersVotes
            <4>5. kind = "nns" => /\ updating' = "no" /\ x.proposal \in url'
                                  /\ \A c \in card : c.proposal = x.proposal
                                  /\ \A m \in loads' : m.role # "update"
                BY <1>1, <1>3, <4>1 DEF NnsChoice
            <4>. QED  BY <1>1, <4>1, <4>2, <4>3, <4>4, <4>5, CardIsShown
        <3>. QED  BY <3>1, <3>2
    <2>3. TypeOK'  BY <1>1, <1>2, <1>3, <2>2 DEF TypeOK
    <2>. QED  BY <1>1, <2>1, <2>2, <2>3, PageStepKeeps
<1>4. CASE /\ kind = "sns" /\ asking' = still /\ updating' = "proposal"
           /\ loads' = loads \cup {Load(p, "update") : p \in url}
           /\ ShowCard({}, TRUE) /\ reg' = Unmounted
    <2>1. card' = {} /\ selected' \in Selections  BY <1>4, NothingIsShown DEF TypeOK
    <2>2. reg' \in [Proposals -> Registrations] /\ SameRuns  BY <1>4, UnmountedRuns DEF SameRuns
    <2>3. ASSUME NEW m \in loads' PROVE m \in Loads /\ (Stems(m) \/ IsNewLoad(m))
        <3>1. CASE m \in loads  BY <3>1 DEF TypeOK, Stems
        <3>2. CASE m \notin loads
            <4>1. PICK p \in url : m = Load(p, "update")  BY <1>4, <3>2
            <4>2. p \in Proposals  BY DEF TypeOK
            <4>3. {m} \subseteq loads \cup {Load(p, "update")}  BY <4>1
            <4>4. {m} \subseteq Loads /\ \A k \in {m} : Stems(k) \/ IsNewLoad(k)
                BY <1>4, <4>2, <4>3, NewLoads
            <4>. QED  BY <4>4
        <3>. QED  BY <3>1, <3>2
    <2>4. TypeOK'  BY <1>1, <1>2, <1>4, <2>1, <2>2, <2>3 DEF TypeOK
    <2>. QED  BY <1>1, <1>4, <2>1, <2>2, <2>3, <2>4, NoCardKeeps
<1>. QED  BY <1>3, <1>4 DEF NeuronsAnswered

\* A proposal of the page is answered.
LEMMA LoadAnsweredKeeps ==
    ASSUME VotingInv, NEW l \in loads, NEW certified \in BOOLEAN, LoadAnswered(l, certified)
    PROVE  VotingInv'
<1> USE DEF VotingInv
<1>1. /\ l.role # "post" /\ loads' = After(l, certified)
      /\ updating' = IF EndsUpdate(l) THEN "no" ELSE updating
      /\ IF ForPage(l) \/ EndsUpdate(l) THEN ShowCard(SnsProposalDetail(updating', page'), ready)
         ELSE UNCHANGED <<card, selected>>
      /\ UNCHANGED <<kind, who, ballots, closed, ready, asking, url, reg, stored, actionable, scans, off>>
      /\ UNCHANGED <<asked, reported, opens, votes, events>>
    BY DEF LoadAnswered, governance, history, counters
<1>2. PICK b \in {l.sent, ballots[l.proposal]} :
        page' = IF ForPage(l) THEN {[proposal |-> l.proposal, ballots |-> b]} ELSE page
    BY DEF LoadAnswered
<1> DEFINE x == [proposal |-> l.proposal, ballots |-> b]
<1>3. x \in Shown /\ x.proposal = l.proposal /\ Behind(x.ballots, ballots[x.proposal])
    <2>1. l \in Loads /\ l.proposal \in Proposals /\ ballots[l.proposal] \in Ballots
        BY DEF TypeOK, Loads
    <2>2. Behind(b, ballots[l.proposal]) /\ b \in Ballots
        BY <2>1, BehindItself DEF ReadsAreBehind, Loads
    <2>. QED  BY <2>1, <2>2 DEF Shown
<1> HIDE DEF x
<1>4. loads' \subseteq Loads /\ \A m \in loads' : Stems(m)  BY <1>1, AfterIsTyped
<1>5. SameRuns  BY <1>1 DEF SameRuns, SameRun
<1>6. page' = IF ForPage(l) THEN {x} ELSE page  BY <1>2 DEF x
<1>7. page' \subseteq Shown /\ \A c, d \in page' : c = d
    BY <1>3, <1>6 DEF TypeOK, CardOffersVotes
<1>8. \A c \in page' : c.proposal \in Proposals /\ Behind(c.ballots, ballots[c.proposal])
    BY <1>3, <1>6, <1>7 DEF ReadsAreBehind, Shown
<1>9. kind = "nns" => ~EndsUpdate(l) /\ updating' = "no" /\ \A m \in loads' : m.role # "update"
    BY <1>1, <1>4 DEF NnsChoice, EndsUpdate, Stems
<1>10. /\ card' \subseteq page' \cup card /\ card' \subseteq Shown /\ selected' \in Selections
       /\ CardOffersVotes' /\ NnsChoice'
    <2>1. CASE ~(ForPage(l) \/ EndsUpdate(l))
        <3>1. card' = card /\ selected' = selected /\ page' = page /\ updating' = updating
            BY <1>1, <1>6, <2>1
        <3>2. CardOffersVotes'  BY <1>1, <3>1, OffersStay
        <3>3. NnsChoice'  BY <1>1, <1>9, <3>1 DEF NnsChoice, Voted
        <3>. QED  BY <3>1, <3>2, <3>3 DEF TypeOK
    <2>2. CASE (ForPage(l) \/ EndsUpdate(l)) /\ (updating' # "no" \/ page' = {})
        <3>1. ShowCard({}, ready)  BY <1>1, <2>2 DEF SnsProposalDetail
        <3>2. card' = {} /\ selected' \in Selections  BY <3>1, NothingIsShown DEF TypeOK
        <3>3. CardOffersVotes'  BY <1>7, <3>2 DEF CardOffersVotes
        <3>4. kind # "nns"  BY <1>6, <1>9, <2>2
        <3>5. NnsChoice'  BY <1>1, <3>4 DEF NnsChoice
        <3>. QED  BY <3>2, <3>3, <3>5
    <2>3. CASE (ForPage(l) \/ EndsUpdate(l)) /\ updating' = "no" /\ page' # {}
        <3>1. PICK y \in page' : page' = {y}  BY <1>7, <2>3
        <3>2. ShowCard({y}, ready)  BY <1>1, <2>3, <3>1 DEF SnsProposalDetail
        <3>3. kind = "nns" => y.proposal \in url' /\ \A c \in card : c.proposal = y.proposal
            <4>1. ASSUME kind = "nns" PROVE y = x /\ url = {x.proposal}
                BY <1>3, <1>6, <1>9, <2>3, <3>1, <4>1 DEF ForPage
            <4>. QED  BY <1>1, <4>1 DEF NnsChoice
        <3>4. ready \in BOOLEAN  BY DEF TypeOK
        <3>5. y \in Shown /\ Behind(y.ballots, ballots[y.proposal])  BY <1>7, <1>8
        <3>6. card' = {y} /\ selected' \in Selections /\ CardOffersVotes' /\ NnsChoice'
            BY <1>1, <1>7, <1>9, <2>3, <3>2, <3>3, <3>4, <3>5, CardIsShown
        <3>. QED  BY <3>1, <3>5, <3>6
    <2>. QED  BY <2>1, <2>2, <2>3
<1>11. TypeOK'  BY <1>1, <1>4, <1>7, <1>10 DEF TypeOK
<1>12. \A c \in page' \cup card' : c \in page \cup card \/ Behind(c.ballots, ballots[c.proposal])
    BY <1>8, <1>10
<1>. QED  BY <1>1, <1>4, <1>5, <1>10, <1>11, <1>12, PageStepKeeps

\* A proposal of the page is not loaded: an update that fails leaves the page.
LEMMA LoadFailsKeeps ==
    ASSUME VotingInv, NEW l \in loads, NEW certified \in BOOLEAN, LoadFails(l, certified)
    PROVE  VotingInv'
<1> USE DEF VotingInv
<1>1. /\ l.role # "post" /\ events' = events + 1
      /\ UNCHANGED <<kind, who, ballots, closed, ready, asking, stored, actionable, scans>>
      /\ UNCHANGED <<asked, reported, opens, votes>>
    BY DEF LoadFails, Event, governance, history
<1>2. CASE GoBack
    <2>1. /\ reg' \in [Proposals -> Registrations] /\ SameRuns
          /\ url' = {} /\ page' = {} /\ card' = {} /\ selected' \in Selections
          /\ loads' \subseteq loads /\ updating' = "no" /\ off' = {}
        BY <1>2, GoneBack
    <2>2. TypeOK'  BY <1>1, <2>1 DEF TypeOK
    <2>3. \A m \in loads' : Stems(m)  BY <2>1 DEF Stems
    <2>. QED  BY <1>1, <2>1, <2>2, <2>3, NoCardKeeps
<1>3. CASE loads' = After(l, certified) /\ UNCHANGED <<url, updating, page, card, selected, reg, off>>
    <2>1. loads' \subseteq Loads /\ \A m \in loads' : Stems(m)  BY <1>1, <1>3, AfterIsTyped
    <2>2. TypeOK'  BY <1>1, <1>3, <2>1 DEF TypeOK
    <2>3. SameRuns  BY <1>3 DEF SameRuns, SameRun
    <2>4. CardOffersVotes'  BY <1>1, <1>3, OffersStay
    <2>5. NnsChoice'  BY <1>1, <1>3, <2>1 DEF NnsChoice, Voted, Stems
    <2>. QED  BY <1>1, <1>3, <2>1, <2>2, <2>3, <2>4, <2>5, PageStepKeeps
<1>. QED  BY <1>2, <1>3 DEF LoadFails, pageVars

-----------------------------------------------------------------------------
(* Registrations.                                                           *)

\* No registration is a registration that does nothing.
LEMMA NoRegistrationType == NoRegistration \in Registrations
BY DEF NoRegistration, Registrations, Ballots

\* The selected neurons get an entry and a call each.
LEMMA VoteKeeps ==
    ASSUME VotingInv, NEW v \in Votes, Vote(v) PROVE VotingInv'
<1> USE DEF VotingInv
<1>1. /\ UNCHANGED <<kind, who, ballots, closed, ready, asking, url, updating, page, card, selected, loads>>
      /\ UNCHANGED <<stored, actionable, scans, off, opens, events>> /\ votes' = votes + 1
    BY DEF Vote, governance, pageVars
<1>2. PICK c \in card, neurons \in IF kind = "nns" THEN NnsVotingCard ELSE SnsVotingCard :
        /\ VotingConfirmationToolbar(c.proposal)
        /\ reg' = [reg EXCEPT ![c.proposal] = AddRegistration(c, neurons, v)]
        /\ asked' = asked \cup {<<c.proposal, n>> : n \in neurons}
        /\ reported' = reported \ {<<c.proposal, n>> : n \in neurons}
    BY DEF Vote
<1> DEFINE p == c.proposal
           r == AddRegistration(c, neurons, v)
<1>3. p \in Proposals /\ c.ballots \in Ballots /\ Behind(c.ballots, ballots[p])
    BY DEF TypeOK, Shown, ReadsAreBehind
<1>4. neurons \subseteq Neurons
    <2>1. selected.ids \subseteq Neurons  BY DEF TypeOK, Selections
    <2>. QED  BY <1>2, <2>1 DEF NnsVotingCard, SnsVotingCard, UserSelectedNeurons
<1>5. /\ r.status = "voting" /\ r.vote = v /\ r.calls = {<<n, "sent">> : n \in neurons}
      /\ r.voted = {} /\ r.failed = {} /\ r.base = c.ballots /\ r \in Registrations
    <2> DEFINE calls == {<<n, "sent">> : n \in neurons}
    <2>1. calls \subseteq Calls  BY <1>4 DEF Calls
    <2>2. NoRegistration.voted = {} /\ NoRegistration.failed = {}  BY DEF NoRegistration
    <2>3. r = [NoRegistration EXCEPT !.status = "voting", !.vote = v, !.neurons = neurons, !.calls = calls,
                    !.live = TRUE, !.page = TRUE, !.base = c.ballots]
        BY DEF AddRegistration
    <2> HIDE DEF calls, r
    <2>4. NoRegistration \in Registrations  BY NoRegistrationType
    <2>5. /\ r.status = "voting" /\ r.vote = v /\ r.calls = calls /\ r.voted = {} /\ r.failed = {}
          /\ r.base = c.ballots
        BY <2>2, <2>3, <2>4 DEF Registrations
    <2>6. r \in Registrations  BY <1>3, <1>4, <2>1, <2>3, <2>4 DEF Registrations
    <2>. QED  BY <2>5, <2>6 DEF calls
<1>6. reg' = [reg EXCEPT ![p] = r] /\ reg[p].status = "none" /\ reg \in [Proposals -> Registrations]
    BY <1>2 DEF VotingConfirmationToolbar, TypeOK
<1>7. asked' = asked \cup {<<p, n>> : n \in neurons} /\ reported' = reported \ {<<p, n>> : n \in neurons}
    BY <1>2
<1> HIDE DEF p, r
<1>8. TypeOK'  BY <1>1, <1>3, <1>4, <1>5, <1>6, <1>7 DEF TypeOK
<1>9. ReadsAreBehind'
    <2>1. \A m \in loads' : Stems(m)  BY <1>1 DEF Stems
    <2>. QED  BY <1>1, <2>1, ReadsStay
<1>10. RegistrationsRun'
    <2>1. ASSUME NEW q \in Proposals
          PROVE  /\ reg'[q].calls # {} => reg'[q].status = "voting"
                 /\ reg'[q].status = "voting" => reg'[q].vote \in Votes /\ Behind(reg'[q].base, ballots[q])
                 /\ \A n \in Neurons :
                    (<<n, "ok">> \in reg'[q].calls \/ <<n, "already">> \in reg'[q].calls
                        \/ n \in reg'[q].voted) => Voted(q, n)
        <3>1. CASE q = p
            <4>1. reg'[q] = r  BY <1>6, <3>1
            <4>2. \A n : <<n, "ok">> \notin r.calls /\ <<n, "already">> \notin r.calls  BY <1>5
            <4>. QED  BY <1>3, <1>5, <3>1, <4>1, <4>2
        <3>2. CASE q # p
            <4>1. reg'[q] = reg[q]  BY <1>6, <3>2
            <4>. QED  BY <4>1 DEF RegistrationsRun
        <3>. QED  BY <3>1, <3>2
    <2>2. ASSUME NEW m \in loads, m.role = "post" PROVE reg'[m.proposal].status = "post"
        <3>1. m.proposal \in Proposals /\ reg[m.proposal].status = "post"
            BY <2>2 DEF TypeOK, Loads, RegistrationsRun
        <3>2. m.proposal # p  BY <1>6, <3>1
        <3>. QED  BY <1>6, <3>1, <3>2
    <2>. QED  BY <1>1, <2>1, <2>2 DEF RegistrationsRun, Behind, Voted
<1>11. VotesArePending'
    <2>1. ASSUME NEW q \in Proposals, NEW n \in Neurons, <<q, n>> \in asked'
          PROVE  \/ Voted(q, n) \/ <<q, n>> \in reported'
                 \/ /\ reg'[q].status = "voting"
                    /\ n \in reg'[q].failed \/ <<n, "sent">> \in reg'[q].calls
                        \/ <<n, "error">> \in reg'[q].calls
        <3>1. CASE q = p /\ n \in neurons
            <4>1. reg'[q] = r  BY <1>6, <3>1
            <4>. QED  BY <1>5, <3>1, <4>1
        <3>2. CASE ~(q = p /\ n \in neurons)
            <4>1. <<q, n>> \in asked /\ (<<q, n>> \in reported => <<q, n>> \in reported')
                BY <1>7, <2>1, <3>2
            <4>2. Voted(q, n) \/ <<q, n>> \in reported \/ UnderWay(q, n)
                BY <4>1 DEF VotesArePending
            <4>3. CASE UnderWay(q, n)
                <5>1. q # p  BY <1>6, <4>3 DEF UnderWay
                <5>2. reg'[q] = reg[q]  BY <1>6, <5>1
                <5>. QED  BY <4>3, <5>2 DEF UnderWay
            <4>. QED  BY <4>1, <4>2, <4>3
        <3>. QED  BY <3>1, <3>2
    <2>. QED  BY <1>1, <2>1 DEF VotesArePending, Voted, UnderWay
<1>12. CardOffersVotes' /\ VotableIsActionable'  BY <1>1, OffersStay, ActionableStays
<1>13. NnsChoice'  BY <1>1 DEF NnsChoice, Voted
<1>. QED  BY <1>8, <1>9, <1>10, <1>11, <1>12, <1>13

\* A call that was sent gets its answer; a vote that was accepted, or cast before, is cast.
LEMMA CallAnswered ==
    ASSUME VotingInv, NEW p \in Proposals, NEW n \in Neurons, <<n, "sent">> \in reg[p].calls,
           NEW a \in {"ok", "already", "error"},
           reg' = [reg EXCEPT ![p].calls = (@ \ {<<n, "sent">>}) \cup {<<n, a>>}],
           ballots' \in [Proposals -> Ballots], Forward, a # "error" => Voted(p, n)',
           events' \in Nat,
           UNCHANGED <<kind, who, closed, ready, asking, url, updating, page, card, selected, loads>>,
           UNCHANGED <<stored, actionable, scans, off, asked, reported, opens, votes>>
    PROVE  VotingInv'
<1> USE DEF VotingInv
<1>1. reg \in [Proposals -> Registrations] /\ reg[p] \in Registrations  BY DEF TypeOK
<1> DEFINE r == [reg[p] EXCEPT !.calls = (@ \ {<<n, "sent">>}) \cup {<<n, a>>}]
<1>2. /\ r \in Registrations /\ r.calls = (reg[p].calls \ {<<n, "sent">>}) \cup {<<n, a>>}
      /\ r.status = reg[p].status /\ r.vote = reg[p].vote /\ r.base = reg[p].base
      /\ r.voted = reg[p].voted /\ r.failed = reg[p].failed
    <2>1. (reg[p].calls \ {<<n, "sent">>}) \cup {<<n, a>>} \in SUBSET Calls
        BY <1>1 DEF Registrations, Calls
    <2>. QED  BY <1>1, <2>1 DEF Registrations
<1>3. reg' = [reg EXCEPT ![p] = r]  BY <1>1
<1> HIDE DEF r
<1>4. TypeOK'
    <2>1. reg' \in [Proposals -> Registrations]  BY <1>1, <1>2, <1>3
    <2>. QED  BY <2>1 DEF TypeOK
<1>5. ReadsAreBehind'  BY ForwardKeepsReads
<1>6. \A q \in Proposals, m \in Neurons : Voted(q, m) => Voted(q, m)'  BY ForwardKeepsVotes
<1>7. reg[p].status = "voting"  BY DEF RegistrationsRun
<1>8. RegistrationsRun'
    <2>1. ASSUME NEW q \in Proposals
          PROVE  /\ reg'[q].calls # {} => reg'[q].status = "voting"
                 /\ reg'[q].status = "voting" => reg'[q].vote \in Votes /\ Behind(reg'[q].base, ballots'[q])
                 /\ \A m \in Neurons :
                    (<<m, "ok">> \in reg'[q].calls \/ <<m, "already">> \in reg'[q].calls
                        \/ m \in reg'[q].voted) => Voted(q, m)'
        <3>1. /\ reg'[q].status = reg[q].status /\ reg'[q].vote = reg[q].vote
              /\ reg'[q].base = reg[q].base /\ reg'[q].voted = reg[q].voted
            BY <1>1, <1>2, <1>3
        <3>2. reg[q].status = "voting" => Behind(reg[q].base, ballots'[q])
            BY BehindTransitive DEF RegistrationsRun, Forward
        <3>3. reg'[q].calls # {} => reg'[q].status = "voting"
            BY <1>1, <1>2, <1>3, <1>7 DEF RegistrationsRun
        <3>4. ASSUME NEW m \in Neurons, <<m, "ok">> \in reg'[q].calls \/ <<m, "already">> \in reg'[q].calls
              PROVE  Voted(q, m)'
            <4>1. CASE <<m, "ok">> \in reg[q].calls \/ <<m, "already">> \in reg[q].calls
                BY <1>6, <4>1 DEF RegistrationsRun
            <4>2. CASE ~(<<m, "ok">> \in reg[q].calls \/ <<m, "already">> \in reg[q].calls)
                <5>1. q = p /\ m = n /\ a # "error"  BY <1>1, <1>2, <1>3, <3>4, <4>2
                <5>. QED  BY <5>1
            <4>. QED  BY <4>1, <4>2
        <3>5. ASSUME NEW m \in Neurons, m \in reg'[q].voted PROVE Voted(q, m)'
            BY <1>6, <3>1, <3>5 DEF RegistrationsRun
        <3>6. reg[q].status = "voting" => reg[q].vote \in Votes  BY DEF RegistrationsRun
        <3>. QED  BY <3>1, <3>2, <3>3, <3>4, <3>5, <3>6
    <2>2. ASSUME NEW m \in loads', m.role = "post" PROVE reg'[m.proposal].status = "post"
        <3>1. m.proposal \in Proposals /\ reg[m.proposal].status = "post"
            BY <2>2 DEF TypeOK, Loads, RegistrationsRun
        <3>. QED  BY <1>1, <1>2, <1>3, <3>1
    <2>3. \A k, m \in loads' :
            k.role = "post" /\ m.role = "post" /\ k.proposal = m.proposal => k = m
        BY DEF RegistrationsRun
    <2>. QED  BY <2>1, <2>2, <2>3 DEF RegistrationsRun, Behind
<1>9. VotesArePending'
    <2>1. ASSUME NEW q \in Proposals, NEW m \in Neurons, UnderWay(q, m)
          PROVE  Voted(q, m)' \/ UnderWay(q, m)'
        <3>1. CASE q # p
            <4>1. reg'[q] = reg[q]  BY <1>3, <3>1
            <4>. QED  BY <2>1, <4>1 DEF UnderWay
        <3>2. CASE q = p
            <4>1. reg'[q] = r  BY <1>1, <1>3, <3>2
            <4>2. CASE a # "error" /\ m = n  BY <3>2, <4>2
            <4>3. CASE a = "error" \/ m # n
                <5>1. m \in r.failed \/ <<m, "sent">> \in r.calls \/ <<m, "error">> \in r.calls
                    BY <1>2, <2>1, <3>2, <4>3 DEF UnderWay
                <5>. QED  BY <1>2, <1>7, <4>1, <5>1 DEF UnderWay
            <4>. QED  BY <4>2, <4>3
        <3>. QED  BY <3>1, <3>2
    <2>. QED  BY <1>6, <2>1 DEF VotesArePending
<1>10. CardOffersVotes' /\ NnsChoice' /\ VotableIsActionable'
    BY <1>4, OffersStay, ForwardKeepsChoice, ForwardKeepsActionable
<1>. QED  BY <1>4, <1>5, <1>8, <1>9, <1>10

\* Governance takes or refuses the vote of a neuron.
LEMMA RegisterVoteKeeps ==
    ASSUME VotingInv, NEW p \in Proposals, NEW n \in Neurons, RegisterVote(p, n) PROVE VotingInv'
<1> USE DEF VotingInv
<1> DEFINE answer(a) == reg' = [reg EXCEPT ![p].calls = (@ \ {<<n, "sent">>}) \cup {<<n, a>>}]
           cast == ballots' = [ballots EXCEPT ![p] = Cast(@, n, reg[p].vote)]
<1>1. /\ <<n, "sent">> \in reg[p].calls
      /\ UNCHANGED <<kind, who, closed, ready, asking, url, updating, page, card, selected, loads>>
      /\ UNCHANGED <<stored, actionable, scans, off, asked, reported, opens, votes>>
    BY DEF RegisterVote, pageVars, history
<1>2. ballots \in [Proposals -> Ballots] /\ events \in Nat  BY DEF TypeOK
<1>3. reg[p].vote \in Votes  BY <1>1 DEF RegistrationsRun
<1>4. ASSUME ballots[p][n] = "unspecified", cast
      PROVE  ballots' \in [Proposals -> Ballots] /\ Forward /\ Voted(p, n)'
    <2> DEFINE after == Cast(ballots[p], n, reg[p].vote)
    <2>1. after \in Ballots /\ Behind(ballots[p], after) /\ after[n] \in {"yes", "no"}
        BY <1>2, <1>3, <1>4, CastGoesForward
    <2>2. ballots' = [ballots EXCEPT ![p] = after]  BY <1>4
    <2> HIDE DEF after
    <2>. QED  BY <1>2, <2>1, <2>2, BehindItself DEF Forward, Voted
<1>5. ASSUME ballots' = ballots
      PROVE  ballots' \in [Proposals -> Ballots] /\ Forward /\ (Voted(p, n) => Voted(p, n)')
    BY <1>2, <1>5, BehindItself DEF Forward, Voted
<1>6. CASE ballots[p][n] = "unspecified" /\ cast /\ answer("ok") /\ events' = events
    <2>1. ballots' \in [Proposals -> Ballots] /\ Forward /\ Voted(p, n)'  BY <1>4, <1>6
    <2>2. events' \in Nat  BY <1>2, <1>6
    <2>. QED  BY <1>1, <1>6, <2>1, <2>2, CallAnswered
<1>7. CASE ballots[p][n] = "unspecified" /\ cast /\ answer("error") /\ events' = events + 1
    <2>1. ballots' \in [Proposals -> Ballots] /\ Forward /\ Voted(p, n)'  BY <1>4, <1>7
    <2>2. events' \in Nat  BY <1>2, <1>7
    <2>. QED  BY <1>1, <1>7, <2>1, <2>2, CallAnswered
<1>8. CASE Voted(p, n) /\ answer("already") /\ ballots' = ballots /\ events' = events
    <2>1. ballots' \in [Proposals -> Ballots] /\ Forward /\ Voted(p, n)'  BY <1>5, <1>8
    <2>2. events' \in Nat  BY <1>2, <1>8
    <2>. QED  BY <1>1, <1>8, <2>1, <2>2, CallAnswered
<1>9. CASE answer("error") /\ ballots' = ballots /\ events' \in {events, events + 1}
    <2>1. ballots' \in [Proposals -> Ballots] /\ Forward  BY <1>5, <1>9
    <2>2. events' \in Nat  BY <1>2, <1>9
    <2>. QED  BY <1>1, <1>9, <2>1, <2>2, CallAnswered
<1>. QED  BY <1>6, <1>7, <1>8, <1>9 DEF RegisterVote, Event

\* The registration after an answer.
AfterAnswer(p, n, a) ==
    LET without == [reg[p] EXCEPT !.calls = @ \ {<<n, a>>},
                                  !.failed = IF ProcessRegisterVoteErrors(a) THEN @ \cup {n} ELSE @]
    IN  IF Success(a) THEN AddSuccessfullyVotedNeuronId(without, n) ELSE without

\* An answer accounts for its call: the neuron has voted or has failed.
LEMMA AnswerIsAccounted ==
    ASSUME VotingInv, NEW p \in Proposals, NEW n \in Neurons, NEW a \in {"ok", "already", "error"},
           <<n, a>> \in reg[p].calls,
           NEW r, r = AfterAnswer(p, n, a)
    PROVE  /\ r \in Registrations /\ r.status = "voting" /\ r.vote \in Votes
           /\ Behind(r.base, ballots[p])
           /\ \A m \in Neurons :
                (<<m, "ok">> \in r.calls \/ <<m, "already">> \in r.calls \/ m \in r.voted) => Voted(p, m)
           /\ \A m \in Neurons : UnderWay(p, m) =>
                \/ Voted(p, m) \/ m \in r.failed \/ <<m, "sent">> \in r.calls \/ <<m, "error">> \in r.calls
<1> USE DEF VotingInv
<1>1. reg[p] \in Registrations  BY DEF TypeOK
<1>2. reg[p].status = "voting" /\ reg[p].vote \in Votes /\ Behind(reg[p].base, ballots[p])
    BY DEF RegistrationsRun
<1> DEFINE failed == IF ProcessRegisterVoteErrors(a) THEN reg[p].failed \cup {n} ELSE reg[p].failed
           voted == IF Success(a) THEN reg[p].voted \cup {n} ELSE reg[p].voted
           calls == reg[p].calls \ {<<n, a>>}
<1>3. failed \subseteq Neurons /\ voted \subseteq Neurons /\ calls \subseteq Calls
    BY <1>1 DEF Registrations
<1>4. /\ r \in Registrations /\ r.status = reg[p].status /\ r.vote = reg[p].vote
      /\ r.base = reg[p].base /\ r.calls = calls /\ r.failed = failed /\ r.voted = voted
    <2> DEFINE without == [reg[p] EXCEPT !.calls = calls, !.failed = failed]
    <2>1. /\ without \in Registrations /\ without.status = reg[p].status /\ without.vote = reg[p].vote
          /\ without.base = reg[p].base /\ without.calls = calls /\ without.failed = failed
          /\ without.voted = reg[p].voted
        <3> HIDE DEF calls, failed
        <3>. QED  BY <1>1, <1>3 DEF Registrations
    <2>2. r = IF Success(a) THEN [without EXCEPT !.voted = @ \cup {n}] ELSE without
        BY <1>1 DEF AfterAnswer, AddSuccessfullyVotedNeuronId
    <2> HIDE DEF without, calls, failed
    <2>3. CASE Success(a)
        <3>1. r = [without EXCEPT !.voted = voted]  BY <2>1, <2>2, <2>3 DEF Registrations
        <3> HIDE DEF voted
        <3>. QED  BY <1>3, <2>1, <3>1 DEF Registrations
    <2>4. CASE ~Success(a)  BY <2>1, <2>2, <2>4
    <2>. QED  BY <2>3, <2>4
<1>5. Success(a) => a = "ok" \/ a = "already"
    BY DEF Success, RegisterNnsNeuronsVote, RegisterSnsNeuronsVote, IsAlreadyVotedError
<1>6. a = "error" => ProcessRegisterVoteErrors(a)
    BY DEF ProcessRegisterVoteErrors, RegisterVoteErrorDetails, IsAlreadyVotedError
<1>7. a # "error" => Voted(p, n)  BY DEF RegistrationsRun
<1>8. ASSUME NEW m \in Neurons, <<m, "ok">> \in r.calls \/ <<m, "already">> \in r.calls \/ m \in r.voted
      PROVE  Voted(p, m)
    <2>1. CASE <<m, "ok">> \in reg[p].calls \/ <<m, "already">> \in reg[p].calls \/ m \in reg[p].voted
        BY <2>1 DEF RegistrationsRun
    <2>2. CASE ~(<<m, "ok">> \in reg[p].calls \/ <<m, "already">> \in reg[p].calls \/ m \in reg[p].voted)
        <3>1. m = n /\ Success(a)  BY <1>4, <1>8, <2>2
        <3>. QED  BY <1>5, <1>7, <3>1
    <2>. QED  BY <2>1, <2>2
<1>9. ASSUME NEW m \in Neurons, UnderWay(p, m)
      PROVE  Voted(p, m) \/ m \in r.failed \/ <<m, "sent">> \in r.calls \/ <<m, "error">> \in r.calls
    <2>1. m \in reg[p].failed \/ <<m, "sent">> \in reg[p].calls \/ <<m, "error">> \in reg[p].calls
        BY <1>9 DEF UnderWay
    <2>2. m \in reg[p].failed => m \in r.failed  BY <1>4
    <2>3. <<m, "sent">> \in reg[p].calls => <<m, "sent">> \in r.calls  BY <1>4
    <2>4. <<m, "error">> \in reg[p].calls => <<m, "error">> \in r.calls \/ m \in r.failed
        BY <1>4, <1>6
    <2>. QED  BY <2>1, <2>2, <2>3, <2>4
<1>. QED  BY <1>2, <1>4, <1>8, <1>9

\* An SNS card shows the votes that are cast.
LEMMA OptimisticCard ==
    ASSUME VotingInv, NEW p \in Proposals, NEW r \in Registrations, r.vote \in Votes,
           Behind(r.base, ballots[p]), \A m \in Neurons : m \in r.voted => Voted(p, m),
           ShowOptimistic(p, r) \/ UNCHANGED <<card, selected>>,
           UNCHANGED <<kind, who, ballots, ready, url, updating, page, off>>,
           kind = "nns" => \A m \in loads' : m.role # "update"
    PROVE  /\ card' \subseteq Shown /\ selected' \in Selections /\ CardOffersVotes' /\ NnsChoice'
           /\ \A c \in card' : c \in card \/ Behind(c.ballots, ballots[c.proposal])
<1> USE DEF VotingInv
<1>1. CASE UNCHANGED <<card, selected>>
    <2>1. CardOffersVotes'  BY <1>1, OffersStay
    <2>2. NnsChoice'  BY <1>1 DEF NnsChoice, Voted
    <2>. QED  BY <1>1, <2>1, <2>2 DEF TypeOK
<1>2. CASE ~UNCHANGED <<card, selected>>
    <2> DEFINE b == ProposalAfterVote(r.base, r.voted, r.vote)
               x == [proposal |-> p, ballots |-> b]
    <2>1. kind = "sns" /\ ShowCard({x}, ready)  BY <1>2 DEF ShowOptimistic
    <2>2. r.base \in Ballots  BY DEF Registrations
    <2>3. b \in Ballots  BY <2>2, AfterVoteType
    <2>4. Behind(b, ballots[p])  BY <2>2, AfterVoteIsBehind DEF Voted
    <2> HIDE DEF b
    <2>5. x \in Shown /\ Behind(x.ballots, ballots[x.proposal])  BY <2>3, <2>4 DEF Shown
    <2>6. \A c, d \in page' : c = d  BY DEF CardOffersVotes
    <2>7. ready \in BOOLEAN  BY DEF TypeOK
    <2> HIDE DEF x
    <2>8. card' = {x} /\ selected' \in Selections /\ CardOffersVotes' /\ NnsChoice'
        BY <2>1, <2>5, <2>6, <2>7, CardIsShown
    <2>. QED  BY <2>5, <2>8
<1>. QED  BY <1>1, <1>2

\* The entry of a registration is replaced, by one that accounts for its votes.
LEMMA EntryReplaced ==
    ASSUME VotingInv, NEW p \in Proposals, reg[p].status # "post",
           NEW e \in Registrations, reg' = [reg EXCEPT ![p] = e], ballots' = ballots, asked' = asked,
           e.calls # {} => e.status = "voting",
           e.status = "voting" => e.vote \in Votes /\ Behind(e.base, ballots[p]),
           \A m \in Neurons :
                (<<m, "ok">> \in e.calls \/ <<m, "already">> \in e.calls \/ m \in e.voted) => Voted(p, m),
           \A m \in loads' : m.role = "post" => m \in loads \/ (m = Load(p, "post") /\ e.status = "post"),
           \A q \in Proposals, m \in Neurons : <<q, m>> \in reported => <<q, m>> \in reported',
           \A m \in Neurons : UnderWay(p, m) =>
                \/ Voted(p, m) \/ <<p, m>> \in reported'
                \/ /\ e.status = "voting"
                   /\ m \in e.failed \/ <<m, "sent">> \in e.calls \/ <<m, "error">> \in e.calls
    PROVE  RegistrationsRun' /\ VotesArePending'
<1> USE DEF VotingInv
<1>1. reg'[p] = e /\ \A q \in Proposals : q # p => reg'[q] = reg[q]  BY DEF TypeOK
<1>2. Load(p, "post").proposal = p  BY LoadIsTyped
<1>3. \A m \in loads : m.role = "post" => m.proposal \in Proposals /\ m.proposal # p
    BY DEF TypeOK, Loads, RegistrationsRun
<1>4. RegistrationsRun'
    <2>1. ASSUME NEW q \in Proposals
          PROVE  /\ reg'[q].calls # {} => reg'[q].status = "voting"
                 /\ reg'[q].status = "voting" => reg'[q].vote \in Votes /\ Behind(reg'[q].base, ballots[q])
                 /\ \A n \in Neurons :
                    (<<n, "ok">> \in reg'[q].calls \/ <<n, "already">> \in reg'[q].calls
                        \/ n \in reg'[q].voted) => Voted(q, n)
        <3>1. CASE q = p  BY <1>1, <3>1
        <3>2. CASE q # p
            <4>1. reg'[q] = reg[q]  BY <1>1, <3>2
            <4>. QED  BY <4>1 DEF RegistrationsRun
        <3>. QED  BY <3>1, <3>2
    <2>2. ASSUME NEW m \in loads', m.role = "post" PROVE reg'[m.proposal].status = "post"
        <3>1. CASE m \in loads  BY <1>1, <1>3, <2>2, <3>1 DEF RegistrationsRun
        <3>2. CASE m \notin loads  BY <1>1, <1>2, <2>2, <3>2
        <3>. QED  BY <3>1, <3>2
    <2>3. ASSUME NEW k \in loads', NEW m \in loads', k.role = "post", m.role = "post",
                 k.proposal = m.proposal
          PROVE  k = m
        <3>1. CASE k \in loads /\ m \in loads  BY <2>3, <3>1 DEF RegistrationsRun
        <3>2. CASE k \notin loads  BY <1>2, <1>3, <2>3, <3>2
        <3>3. CASE m \notin loads  BY <1>2, <1>3, <2>3, <3>3
        <3>. QED  BY <3>1, <3>2, <3>3
    <2>. QED  BY <2>1, <2>2, <2>3 DEF RegistrationsRun, Behind, Voted
<1>5. VotesArePending'
    <2>1. ASSUME NEW q \in Proposals, NEW m \in Neurons, UnderWay(q, m)
          PROVE  Voted(q, m) \/ <<q, m>> \in reported' \/ UnderWay(q, m)'
        <3>1. CASE q = p
            <4>1. reg'[q] = e  BY <1>1, <3>1
            <4>. QED  BY <2>1, <3>1, <4>1 DEF UnderWay
        <3>2. CASE q # p
            <4>1. reg'[q] = reg[q]  BY <1>1, <3>2
            <4>. QED  BY <2>1, <4>1 DEF UnderWay
        <3>. QED  BY <3>1, <3>2
    <2>. QED  BY <2>1 DEF VotesArePending, Voted
<1>. QED  BY <1>4, <1>5

\* The vote of a neuron is answered: onSuccessVote shows it, an error is counted, and after
\* the last answer processRegisterVoteErrors reports what failed.
LEMMA VoteAnsweredKeeps ==
    ASSUME VotingInv, NEW p \in Proposals, NEW n \in Neurons, VoteAnswered(p, n) PROVE VotingInv'
<1> USE DEF VotingInv
<1>1. /\ UNCHANGED <<kind, who, ballots, closed, ready, url, updating, page, actionable, off, asked>>
      /\ UNCHANGED <<opens, votes, events>>
    BY DEF VoteAnswered, governance, counters
<1>2. PICK a \in {"ok", "already", "error"} :
        /\ <<n, a>> \in reg[p].calls
        /\ IF Success(a) THEN ShowOptimistic(p, AfterAnswer(p, n, a)) ELSE UNCHANGED <<card, selected>>
        /\ \/ AfterAnswer(p, n, a).calls = {} /\ Settle(p, AfterAnswer(p, n, a))
           \/ /\ AfterAnswer(p, n, a).calls # {}
              /\ reg' = [reg EXCEPT ![p] = AfterAnswer(p, n, a)]
              /\ UNCHANGED <<reported, loads, asking, stored, scans>>
    BY DEF VoteAnswered, AfterAnswer
<1> DEFINE r == AfterAnswer(p, n, a)
<1>3. /\ r \in Registrations /\ r.status = "voting" /\ r.vote \in Votes /\ Behind(r.base, ballots[p])
      /\ \A m \in Neurons :
            (<<m, "ok">> \in r.calls \/ <<m, "already">> \in r.calls \/ m \in r.voted) => Voted(p, m)
      /\ \A m \in Neurons : UnderWay(p, m) =>
            \/ Voted(p, m) \/ m \in r.failed \/ <<m, "sent">> \in r.calls \/ <<m, "error">> \in r.calls
    BY <1>2, AnswerIsAccounted
<1>4. reg[p].status = "voting" /\ reg \in [Proposals -> Registrations]
    BY <1>2 DEF RegistrationsRun, TypeOK
<1>5. ShowOptimistic(p, r) \/ UNCHANGED <<card, selected>>  BY <1>2
<1>6. \/ r.calls = {} /\ Settle(p, r)
      \/ r.calls # {} /\ reg' = [reg EXCEPT ![p] = r] /\ UNCHANGED <<reported, loads, asking, stored, scans>>
    BY <1>2
<1> HIDE DEF r
<1>7. ASSUME kind = "nns" => \A m \in loads' : m.role # "update"
      PROVE  /\ card' \subseteq Shown /\ selected' \in Selections /\ CardOffersVotes' /\ NnsChoice'
             /\ \A c \in card' : c \in card \/ Behind(c.ballots, ballots[c.proposal])
    BY <1>1, <1>3, <1>5, <1>7, OptimisticCard
<1>8. VotableIsActionable'  BY <1>1, ActionableStays
<1>9. CASE r.calls # {} /\ reg' = [reg EXCEPT ![p] = r] /\ UNCHANGED <<reported, loads, asking, stored, scans>>
    <2>1. kind = "nns" => \A m \in loads' : m.role # "update"  BY <1>9 DEF NnsChoice
    <2>2. TypeOK'  BY <1>1, <1>3, <1>4, <1>7, <1>9, <2>1 DEF TypeOK
    <2>3. ReadsAreBehind'
        <3>1. \A m \in loads' : Stems(m)  BY <1>9 DEF Stems
        <3>. QED  BY <1>1, <1>7, <1>9, <2>1, <3>1, ReadsStay
    <2>4. RegistrationsRun' /\ VotesArePending'
        BY <1>1, <1>3, <1>4, <1>9, EntryReplaced
    <2>. QED  BY <1>7, <1>8, <2>1, <2>2, <2>3, <2>4
<1>10. CASE r.calls = {} /\ Settle(p, r)
    <2>1. reported' = reported \cup {<<p, m>> : m \in r.failed}  BY <1>10 DEF Settle
    <2>2. r.failed \subseteq Neurons /\ r.base \in Ballots  BY <1>3 DEF Registrations
    <2>3. reported' \subseteq Proposals \X Neurons  BY <2>1, <2>2 DEF TypeOK
    <2>4. ballots \in [Proposals -> Ballots] /\ stored \in [Proposals -> Ballots]  BY DEF TypeOK
    <2>5. \A m \in Neurons : UnderWay(p, m) => Voted(p, m) \/ <<p, m>> \in reported'
        BY <1>3, <1>10, <2>1
    <2>6. CASE /\ kind = "nns" /\ UpdateAfterNnsVoteRegistration(p, r)
               /\ reg' = [reg EXCEPT ![p] = [r EXCEPT !.status = "post"]] /\ UNCHANGED <<stored, scans>>
        <3> DEFINE e == [r EXCEPT !.status = "post"]
        <3>1. /\ e \in Registrations /\ e.status = "post" /\ e.calls = {} /\ e.voted = r.voted
            BY <1>3, <1>10 DEF Registrations
        <3>2. reg' = [reg EXCEPT ![p] = e]  BY <2>6
        <3> HIDE DEF e
        <3>3. loads' = loads \cup {Load(p, "post")} /\ asking' = asking \cup {TRUE}
            BY <2>6 DEF UpdateAfterNnsVoteRegistration
        <3>4. /\ Load(p, "post") \in Loads /\ Load(p, "post").role = "post"
              /\ Load(p, "post").proposal = p /\ Load(p, "post").sent = ballots[p]
            BY LoadIsTyped
        <3>5. kind = "nns" => \A m \in loads' : m.role # "update"  BY <3>3, <3>4 DEF NnsChoice
        <3>6. TypeOK'
            <4>1. reg' \in [Proposals -> Registrations]  BY <1>4, <3>1, <3>2
            <4>2. loads' \subseteq Loads /\ asking' \subseteq BOOLEAN  BY <3>3, <3>4 DEF TypeOK
            <4>3. card' \subseteq Shown /\ selected' \in Selections  BY <1>7, <3>5
            <4>. QED  BY <1>1, <2>3, <2>6, <4>1, <4>2, <4>3 DEF TypeOK
        <3>7. ReadsAreBehind'
            <4>1. \A m \in loads' : Stems(m) \/ Behind(m.sent, ballots[m.proposal])
                BY <3>3, <3>4, BehindItself DEF Stems
            <4>. QED  BY <1>1, <1>7, <2>6, <3>5, <4>1, ReadsStay
        <3>8. RegistrationsRun' /\ VotesArePending'
            BY <1>1, <1>3, <1>4, <2>1, <2>5, <3>1, <3>2, <3>3, EntryReplaced
        <3>. QED  BY <1>7, <1>8, <3>5, <3>6, <3>7, <3>8
    <2>7. CASE /\ kind = "sns" /\ PostSnsRegistration(p, r)
               /\ reg' = [reg EXCEPT ![p] = NoRegistration] /\ UNCHANGED asking
        <3>1. /\ stored' = [stored EXCEPT ![p] = ProposalAfterVote(r.base, r.neurons, r.vote)]
              /\ scans' = scans \cup {ballots}
              /\ loads' = loads \cup {Load(q, "reload") : q \in IF r.page THEN url ELSE {}}
            BY <2>7 DEF PostSnsRegistration
        <3>2. ProposalAfterVote(r.base, r.neurons, r.vote) \in Ballots  BY <1>3, <2>2, AfterVoteType
        <3>3. stored' \in [Proposals -> Ballots] /\ scans' \subseteq [Proposals -> Ballots]
            BY <2>4, <3>1, <3>2 DEF TypeOK
        <3>4. ASSUME NEW m \in loads'
              PROVE  m \in Loads /\ (Stems(m) \/ IsNewLoad(m))
            <4>1. CASE m \in loads  BY <4>1 DEF TypeOK, Stems
            <4>2. CASE m \notin loads
                <5>1. PICK q \in url : m = Load(q, "reload")  BY <3>1, <4>2
                <5>2. q \in Proposals  BY DEF TypeOK
                <5>3. {m} \subseteq loads \cup {Load(q, "reload")}  BY <5>1
                <5>4. {m} \subseteq Loads /\ \A k \in {m} : Stems(k) \/ IsNewLoad(k)
                    BY <5>2, <5>3, NewLoads
                <5>. QED  BY <5>4
            <4>. QED  BY <4>1, <4>2
        <3>5. NoRegistration \in Registrations  BY NoRegistrationType
        <3>6. /\ NoRegistration.status = "none" /\ NoRegistration.calls = {} /\ NoRegistration.voted = {}
            BY DEF NoRegistration
        <3>7. kind = "nns" => \A m \in loads' : m.role # "update"  BY <2>7
        <3>8. TypeOK'
            <4>1. reg' \in [Proposals -> Registrations] /\ loads' \subseteq Loads  BY <1>4, <2>7, <3>4, <3>5
            <4>2. card' \subseteq Shown /\ selected' \in Selections  BY <1>7, <3>7
            <4>. QED  BY <1>1, <2>3, <2>7, <3>3, <4>1, <4>2 DEF TypeOK
        <3>9. ReadsAreBehind'
            <4>1. \A m \in loads' : Stems(m) \/ Behind(m.sent, ballots[m.proposal])
                BY <3>4 DEF IsNewLoad
            <4>. QED  BY <1>1, <1>7, <3>1, <3>7, <4>1, ReadsStay
        <3>10. \A m \in loads' : m.role = "post" => m \in loads  BY <3>4 DEF Stems, IsNewLoad
        <3>11. RegistrationsRun' /\ VotesArePending'
            BY <1>1, <1>4, <2>1, <2>5, <2>7, <3>5, <3>6, <3>10, EntryReplaced
        <3>. QED  BY <1>7, <1>8, <3>7, <3>8, <3>9, <3>11
    <2>. QED  BY <1>10, <2>6, <2>7 DEF Settle
<1>. QED  BY <1>6, <1>9, <1>10

\* The proposal after the registration replaces what is shown, and the entry goes.
LEMMA PostAnsweredKeeps ==
    ASSUME VotingInv, NEW l \in loads, PostAnswered(l) PROVE VotingInv'
<1> USE DEF VotingInv
<1> DEFINE p == l.proposal
<1>1. /\ l.role = "post" /\ reg' = [reg EXCEPT ![p] = NoRegistration]
      /\ scans' = scans \cup {ballots} /\ loads' = loads \ {l}
      /\ UNCHANGED <<kind, who, ballots, closed, ready, asking, url, updating, actionable, off>>
      /\ UNCHANGED <<asked, reported, opens, votes, events>>
    BY DEF PostAnswered, governance, history, counters
<1>2. PICK b \in {l.sent, ballots[p]} :
        /\ stored' = [stored EXCEPT ![p] = b]
        /\ IF reg[p].page /\ ForPage(l)
           THEN page' = {[proposal |-> p, ballots |-> b]} /\ ShowCard(page', ready)
           ELSE UNCHANGED <<page, card, selected>>
    BY DEF PostAnswered
<1>3. l \in Loads /\ p \in Proposals /\ ballots[p] \in Ballots  BY DEF TypeOK, Loads
<1>4. b \in Ballots /\ Behind(b, ballots[p])  BY <1>3, BehindItself DEF ReadsAreBehind, Loads
<1> DEFINE x == [proposal |-> p, ballots |-> b]
<1>5. x \in Shown /\ Behind(x.ballots, ballots[x.proposal]) /\ x.proposal = p  BY <1>3, <1>4 DEF Shown
<1>6. IF reg[p].page /\ ForPage(l) THEN page' = {x} /\ ShowCard({x}, ready)
      ELSE UNCHANGED <<page, card, selected>>
    BY <1>2
<1> HIDE DEF x
<1>7. \A m \in loads' : Stems(m) /\ m \in loads  BY <1>1 DEF Stems
<1>8. /\ page' \subseteq Shown /\ card' \subseteq Shown /\ selected' \in Selections
      /\ CardOffersVotes' /\ NnsChoice'
      /\ \A c \in page' \cup card' : c \in page \cup card \/ Behind(c.ballots, ballots[c.proposal])
    <2>1. CASE UNCHANGED <<page, card, selected>>
        <3>1. CardOffersVotes'  BY <1>1, <2>1, OffersStay
        <3>2. NnsChoice'  BY <1>1, <1>7, <2>1 DEF NnsChoice, Voted
        <3>. QED  BY <2>1, <3>1, <3>2 DEF TypeOK
    <2>2. CASE ForPage(l) /\ page' = {x} /\ ShowCard({x}, ready)
        <3>1. url = {p}  BY <2>2 DEF ForPage
        <3>2. \A c, d \in page' : c = d  BY <2>2
        <3>3. kind = "nns" => /\ updating' = "no" /\ x.proposal \in url'
                              /\ \A c \in card : c.proposal = x.proposal
                              /\ \A m \in loads' : m.role # "update"
            BY <1>1, <1>5, <1>7, <3>1 DEF NnsChoice
        <3>4. ready \in BOOLEAN  BY DEF TypeOK
        <3>5. card' = {x} /\ selected' \in Selections /\ CardOffersVotes' /\ NnsChoice'
            BY <1>1, <1>5, <2>2, <3>2, <3>3, <3>4, CardIsShown
        <3>. QED  BY <1>5, <2>2, <3>5
    <2>. QED  BY <1>6, <2>1, <2>2
<1>9. TypeOK'
    <2>1. reg' \in [Proposals -> Registrations]  BY <1>1, <1>3, NoRegistrationType DEF TypeOK
    <2>2. stored' \in [Proposals -> Ballots] /\ scans' \subseteq [Proposals -> Ballots]
        BY <1>1, <1>2, <1>3, <1>4 DEF TypeOK
    <2>. QED  BY <1>1, <1>8, <2>1, <2>2 DEF TypeOK
<1>10. ReadsAreBehind'  BY <1>1, <1>7, <1>8, ReadsStay
<1>11. reg[p].status = "post"  BY <1>1 DEF RegistrationsRun
<1>12. NoRegistration.status = "none" /\ NoRegistration.calls = {} /\ NoRegistration.voted = {}
    BY DEF NoRegistration
<1>13. RegistrationsRun'
    <2>1. ASSUME NEW q \in Proposals
          PROVE  /\ reg'[q].calls # {} => reg'[q].status = "voting"
                 /\ reg'[q].status = "voting" => reg'[q].vote \in Votes /\ Behind(reg'[q].base, ballots[q])
                 /\ \A n \in Neurons :
                    (<<n, "ok">> \in reg'[q].calls \/ <<n, "already">> \in reg'[q].calls
                        \/ n \in reg'[q].voted) => Voted(q, n)
        <3>1. CASE q = p
            <4>1. reg'[q] = NoRegistration  BY <1>1, <3>1 DEF TypeOK
            <4>. QED  BY <1>12, <4>1
        <3>2. CASE q # p
            <4>1. reg'[q] = reg[q]  BY <1>1, <3>2 DEF TypeOK
            <4>. QED  BY <4>1 DEF RegistrationsRun
        <3>. QED  BY <3>1, <3>2
    <2>2. ASSUME NEW m \in loads', m.role = "post" PROVE reg'[m.proposal].status = "post"
        <3>1. m \in loads /\ m # l /\ m.proposal \in Proposals  BY <1>1, <2>2 DEF TypeOK, Loads
        <3>2. m.proposal # p /\ reg[m.proposal].status = "post"
            BY <1>1, <2>2, <3>1 DEF RegistrationsRun
        <3>. QED  BY <1>1, <3>1, <3>2 DEF TypeOK
    <2>3. \A k, m \in loads' :
            k.role = "post" /\ m.role = "post" /\ k.proposal = m.proposal => k = m
        BY <1>1 DEF RegistrationsRun
    <2>. QED  BY <1>1, <2>1, <2>2, <2>3 DEF RegistrationsRun, Behind, Voted
<1>14. VotesArePending'
    <2>1. ASSUME NEW q \in Proposals, NEW m \in Neurons, UnderWay(q, m) PROVE UnderWay(q, m)'
        <3>1. q # p  BY <1>11, <2>1 DEF UnderWay
        <3>2. reg'[q] = reg[q]  BY <1>1, <3>1 DEF TypeOK
        <3>. QED  BY <2>1, <3>2 DEF UnderWay
    <2>. QED  BY <1>1, <2>1 DEF VotesArePending, Voted
<1>15. VotableIsActionable'  BY <1>1, ActionableStays
<1>. QED  BY <1>8, <1>9, <1>10, <1>13, <1>14, <1>15

\* The reload after a registration fails.
LEMMA PostFailsKeeps ==
    ASSUME VotingInv, NEW l \in loads, PostFails(l) PROVE VotingInv'
<1> USE DEF VotingInv
<1> DEFINE p == l.proposal
           e == [reg[p] EXCEPT !.status = "stuck"]
<1>1. /\ l.role = "post" /\ loads' = loads \ {l} /\ events' = events + 1
      /\ UNCHANGED <<kind, who, ballots, closed, ready, asking, url, updating, page, card, selected>>
      /\ UNCHANGED <<stored, actionable, scans, off, asked, reported, opens, votes>>
    BY DEF PostFails, Event, governance, pageVars, history
<1>2. p \in Proposals /\ reg[p] \in Registrations  BY DEF TypeOK, Loads
<1>3. reg[p].status = "post" /\ reg[p].calls = {}  BY <1>1, <1>2 DEF RegistrationsRun
<1>4. e \in Registrations /\ e.status = "stuck" /\ e.calls = {} /\ e.voted = reg[p].voted
    BY <1>2, <1>3 DEF Registrations
<1>5. reg' = [reg EXCEPT ![p] = e]  BY DEF PostFails
<1> HIDE DEF e
<1>6. reg'[p] = e /\ \A q \in Proposals : q # p => reg'[q] = reg[q]  BY <1>2, <1>5 DEF TypeOK
<1>7. TypeOK'
    <2>1. reg' \in [Proposals -> Registrations]  BY <1>2, <1>4, <1>5 DEF TypeOK
    <2>. QED  BY <1>1, <2>1 DEF TypeOK
<1>8. \A m \in loads' : Stems(m) /\ m \in loads  BY <1>1 DEF Stems
<1>9. ReadsAreBehind'  BY <1>1, <1>8, ReadsStay
<1>10. RegistrationsRun'
    <2>1. ASSUME NEW q \in Proposals
          PROVE  /\ reg'[q].calls # {} => reg'[q].status = "voting"
                 /\ reg'[q].status = "voting" => reg'[q].vote \in Votes /\ Behind(reg'[q].base, ballots[q])
                 /\ \A n \in Neurons :
                    (<<n, "ok">> \in reg'[q].calls \/ <<n, "already">> \in reg'[q].calls
                        \/ n \in reg'[q].voted) => Voted(q, n)
        <3>1. CASE q = p  BY <1>2, <1>4, <1>6, <3>1 DEF RegistrationsRun
        <3>2. CASE q # p
            <4>1. reg'[q] = reg[q]  BY <1>6, <3>2
            <4>. QED  BY <4>1 DEF RegistrationsRun
        <3>. QED  BY <3>1, <3>2
    <2>2. ASSUME NEW m \in loads', m.role = "post" PROVE reg'[m.proposal].status = "post"
        <3>1. m \in loads /\ m # l /\ m.proposal \in Proposals  BY <1>1, <2>2 DEF TypeOK, Loads
        <3>2. m.proposal # p /\ reg[m.proposal].status = "post"
            BY <1>1, <2>2, <3>1 DEF RegistrationsRun
        <3>. QED  BY <1>6, <3>1, <3>2
    <2>3. \A k, m \in loads' :
            k.role = "post" /\ m.role = "post" /\ k.proposal = m.proposal => k = m
        BY <1>1 DEF RegistrationsRun
    <2>. QED  BY <1>1, <2>1, <2>2, <2>3 DEF RegistrationsRun, Behind, Voted
<1>11. VotesArePending'
    <2>1. ASSUME NEW q \in Proposals, NEW m \in Neurons, UnderWay(q, m) PROVE UnderWay(q, m)'
        <3>1. q # p  BY <1>3, <2>1 DEF UnderWay
        <3>2. reg'[q] = reg[q]  BY <1>6, <3>1
        <3>. QED  BY <2>1, <3>2 DEF UnderWay
    <2>. QED  BY <1>1, <2>1 DEF VotesArePending, Voted
<1>12. CardOffersVotes' /\ VotableIsActionable'  BY <1>1, OffersStay, ActionableStays
<1>13. NnsChoice'  BY <1>1, <1>8 DEF NnsChoice, Voted
<1>. QED  BY <1>7, <1>9, <1>10, <1>11, <1>12, <1>13

-----------------------------------------------------------------------------
\* A step that changes nothing.
LEMMA StutterKeeps == ASSUME VotingInv, UNCHANGED vars PROVE VotingInv'
<1>1. /\ UNCHANGED <<kind, who, ballots, closed, ready, asking, url, updating, page, card, selected, loads>>
      /\ UNCHANGED <<reg, stored, actionable, scans, off, asked, reported, opens, votes, events>>
    BY DEF vars, governance, pageVars, history, counters
<1>2. TypeOK'  BY <1>1 DEF VotingInv, TypeOK
<1>3. VotableIsActionable'  BY <1>1, ActionableStays DEF VotingInv
<1>. QED  BY <1>1, <1>2, <1>3, RestStays

\* Every step keeps the invariant.
LEMMA NextVotingInv == VotingInv /\ [Next]_vars => VotingInv'
<1> SUFFICES ASSUME VotingInv, [Next]_vars PROVE VotingInv'  OBVIOUS
<1>1. ASSUME NEW p \in Proposals, OpenPage(p) \/ Navigate(p) \/ Close(p) PROVE VotingInv'
    BY <1>1, OpenPageKeeps, NavigateKeeps, CloseKeeps
<1>2. ASSUME NEW p \in Proposals, NEW n \in Neurons, NEW v \in Votes, VoteElsewhere(p, n, v)
      PROVE  VotingInv'
    BY <1>2, VoteElsewhereKeeps
<1>3. CASE Leave  BY <1>3, LeaveKeeps
<1>4. ASSUME NEW c \in BOOLEAN, NeuronsAnswered(c) PROVE VotingInv'  BY <1>4, NeuronsAnsweredKeeps
<1>5. ASSUME NEW l \in loads, NEW c \in BOOLEAN, LoadAnswered(l, c) \/ LoadFails(l, c) PROVE VotingInv'
    BY <1>5, LoadAnsweredKeeps, LoadFailsKeeps
<1>6. ASSUME NEW n \in Neurons, ToggleSelection(n) PROVE VotingInv'  BY <1>6, ToggleSelectionKeeps
<1>7. ASSUME NEW v \in Votes, Vote(v) PROVE VotingInv'  BY <1>7, VoteKeeps
<1>8. ASSUME NEW p \in Proposals, NEW n \in Neurons, RegisterVote(p, n) \/ VoteAnswered(p, n)
      PROVE  VotingInv'
    BY <1>8, RegisterVoteKeeps, VoteAnsweredKeeps
<1>9. ASSUME NEW l \in loads, PostAnswered(l) \/ PostFails(l) PROVE VotingInv'
    BY <1>9, PostAnsweredKeeps, PostFailsKeeps
<1>10. CASE LoadActionableProposals  BY <1>10, LoadActionableProposalsKeeps
<1>11. ASSUME NEW s \in scans, ActionableLoaded(s) \/ ActionableFails(s) PROVE VotingInv'
    BY <1>11, ActionableLoadedKeeps, ActionableFailsKeeps
<1>12. CASE UNCHANGED vars  BY <1>12, StutterKeeps
<1>. QED  BY <1>1, <1>2, <1>3, <1>4, <1>5, <1>6, <1>7, <1>8, <1>9, <1>10, <1>11, <1>12 DEF Next

\* The invariant holds in every state.
LEMMA VotingInvHolds == Spec => []VotingInv
BY InitVotingInv, NextVotingInv, PTL DEF Spec

\* In how many of three lists something is.
LEMMA InOneOfThree ==
    ASSUME NEW P1, NEW P2, NEW P3, P1 \in BOOLEAN, P2 \in BOOLEAN, P3 \in BOOLEAN,
           NEW S, S = {i \in 1 .. 3 : (i = 1 /\ P1) \/ (i = 2 /\ P2) \/ (i = 3 /\ P3)}
    PROVE  /\ P1 \/ P2 \/ P3 => Cardinality(S) >= 1
           /\ (P1 /\ ~P2 /\ ~P3) \/ (~P1 /\ P2 /\ ~P3) \/ (~P1 /\ ~P2 /\ P3) => Cardinality(S) = 1
<1>1. IsFiniteSet(1 .. 3)
    <2>1. 1 \in Int /\ 3 \in Int  OBVIOUS
    <2>. QED  BY <2>1, FS_Interval
<1>2. IsFiniteSet(S) /\ Cardinality(S) \in Nat
    <2>1. S \subseteq 1 .. 3  OBVIOUS
    <2>. QED  BY <1>1, <2>1, FS_Subset, FS_CardinalityType
<1>3. S # {} => Cardinality(S) >= 1
    <2>1. Cardinality(S) = 0 <=> S = {}  BY <1>2, FS_EmptySet
    <2>. QED  BY <1>2, <2>1
<1>4. P1 \/ P2 \/ P3 => S # {}
    <2>1. P1 => 1 \in S  OBVIOUS
    <2>2. P2 => 2 \in S  OBVIOUS
    <2>3. P3 => 3 \in S  OBVIOUS
    <2>. QED  BY <2>1, <2>2, <2>3
<1>5. CASE P1 /\ ~P2 /\ ~P3
    <2>1. S = {1}  BY <1>5
    <2>. QED  BY <1>3, <1>4, <1>5, <2>1, FS_Singleton
<1>6. CASE ~P1 /\ P2 /\ ~P3
    <2>1. S = {2}  BY <1>6
    <2>. QED  BY <1>3, <1>4, <1>6, <2>1, FS_Singleton
<1>7. CASE ~P1 /\ ~P2 /\ P3
    <2>1. S = {3}  BY <1>7
    <2>. QED  BY <1>3, <1>4, <1>7, <2>1, FS_Singleton
<1>. QED  BY <1>3, <1>4, <1>5, <1>6, <1>7

\* The lists of the card are a partition for neurons that are eligible.
LEMMA CardListsNeurons == VotingInv => NeuronsAreListed
<1> SUFFICES ASSUME VotingInv, NEW c \in card, ready, NEW n \in Neurons
             PROVE  LET lists == VotingCard(c.ballots)
                        listed(m) == Cardinality({i \in 1 .. 3 : m \in lists[i]})
                    IN  listed(n) >= 1 /\ (who[n] = "eligible" => listed(n) = 1)
    BY DEF NeuronsAreListed
<1> DEFINE b == c.ballots
           P1 == n \in VotableNeuronList
           P2 == n \in VotedNeuronList(b)
           P3 == n \in IneligibleNeuronList(b)
           S == {i \in 1 .. 3 : n \in VotingCard(b)[i]}
<1>1. b[n] \in {"none", "unspecified", "yes", "no"} /\ who[n] \in Reasons
    BY DEF VotingInv, TypeOK, Shown, Ballots
<1>2. P1 <=> n \in Votable(b)  BY DEF VotingInv, CardOffersVotes, VotableNeuronList
<1>3. P2 <=> b[n] \in {"yes", "no"}
    BY DEF VotedNeuronList, VotedNeuronDetails, VotedNeurons, VotedSnsNeuronDetails
<1>4. P1 \in BOOLEAN /\ P2 \in BOOLEAN /\ P3 \in BOOLEAN  OBVIOUS
<1>5. S = {i \in 1 .. 3 : (i = 1 /\ P1) \/ (i = 2 /\ P2) \/ (i = 3 /\ P3)}  BY DEF VotingCard
<1>6. CASE kind = "nns"
    <2>1. P1 <=> b[n] = "unspecified"  BY <1>2, <1>6 DEF Votable, VotableNeurons
    <2>2. P3 <=> b[n] = "none"  BY <1>6 DEF IneligibleNeuronList, FilterIneligibleNnsNeurons
    <2>3. (P1 /\ ~P2 /\ ~P3) \/ (~P1 /\ P2 /\ ~P3) \/ (~P1 /\ ~P2 /\ P3)
        BY <1>1, <1>3, <2>1, <2>2
    <2>. HIDE DEF P1, P2, P3, S
    <2>4. (P1 \/ P2 \/ P3 => Cardinality(S) >= 1)
          /\ ((P1 /\ ~P2 /\ ~P3) \/ (~P1 /\ P2 /\ ~P3) \/ (~P1 /\ ~P2 /\ P3) => Cardinality(S) = 1)
        BY <1>4, <1>5, InOneOfThree
    <2>5. Cardinality(S) >= 1 /\ Cardinality(S) = 1  BY <2>3, <2>4
    <2>. QED  BY <2>5 DEF S
<1>7. CASE kind # "nns"
    <2>1. P3 <=> NeuronsIneligibilityReasons(n, b) # "eligible"
        BY <1>7 DEF IneligibleNeuronList, IneligibleSnsNeurons
    <2>2. P1 <=> b[n] = "unspecified" /\ ~P3
        BY <1>2, <1>7, <2>1 DEF Votable, VotableSnsNeurons, IneligibleSnsNeurons
    <2>3. who[n] = "eligible" => (P3 <=> b[n] = "none")
        BY <2>1 DEF NeuronsIneligibilityReasons
    <2>4. who[n] # "eligible" => P3  BY <1>1, <2>1 DEF NeuronsIneligibilityReasons, Reasons
    <2>5. P1 \/ P2 \/ P3  BY <1>1, <1>3, <2>2, <2>3, <2>4
    <2>6. who[n] = "eligible" =>
              (P1 /\ ~P2 /\ ~P3) \/ (~P1 /\ P2 /\ ~P3) \/ (~P1 /\ ~P2 /\ P3)
        BY <1>1, <1>3, <2>2, <2>3
    <2>. HIDE DEF P1, P2, P3, S
    <2>7. (P1 \/ P2 \/ P3 => Cardinality(S) >= 1)
          /\ ((P1 /\ ~P2 /\ ~P3) \/ (~P1 /\ P2 /\ ~P3) \/ (~P1 /\ ~P2 /\ P3) => Cardinality(S) = 1)
        BY <1>4, <1>5, InOneOfThree
    <2>8. Cardinality(S) >= 1  BY <2>5, <2>7
    <2>9. who[n] = "eligible" => Cardinality(S) = 1  BY <2>6, <2>7
    <2>. QED  BY <2>8, <2>9 DEF S
<1>. QED  BY <1>6, <1>7

\* The invariant has what the card and the lists show.
LEMMA VotingInvShows == VotingInv => VotingIsShown
<1> SUFFICES ASSUME VotingInv PROVE VotingIsShown  OBVIOUS
<1>1. ShownVotesAreCast
    BY DEF VotingInv, ReadsAreBehind, Behind, ShownVotesAreCast, Voted
<1>2. NnsSelectionIsKept  BY DEF VotingInv, NnsChoice, NnsSelectionIsKept, SelectionIsKept
<1>. QED  BY <1>1, <1>2, CardListsNeurons DEF VotingInv, VotingIsShown

\* The invariant has that no vote is lost silently.
LEMMA VotingInvLosesNoVote == VotingInv => NoVoteLostSilently
BY DEF VotingInv, VotesArePending, UnderWay, NoVoteLostSilently

\* Every vote that the user sends (registerNnsNeuronsVote, registerSnsNeuronsVote) is cast, is
\* on its way, or has failed with a report (processRegisterVoteErrors), for any number of
\* proposals, neurons and followees and whatever the user does meanwhile.
THEOREM VotesNotLost == Spec => []NoVoteLostSilently
BY VotingInvHolds, VotingInvLosesNoVote, PTL

\* A vote that the page or the card shows was cast (onSuccessVote), the card lists every
\* neuron and an eligible one once (NnsVotingCard.svelte, SnsVotingCard.svelte), what the user
\* deselected stays deselected on the NNS page (preserveNeuronSelectionAfterUpdate), and no
\* proposal with a neuron that may vote is missing from the actionable proposals
\* (loadActionableProposals).
THEOREM VotingShown == Spec => []VotingIsShown
BY VotingInvHolds, VotingInvShows, PTL
=============================================================================
