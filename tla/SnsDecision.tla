----------------------------- MODULE SnsDecision -----------------------------
(***************************************************************************)
(* The status of a proposal of an SNS project.  Governance counts votes,   *)
(* decides as soon as the result cannot change or at the deadline, extends *)
(* the deadline while votes are close, and goes on counting votes after an *)
(* early decision; rewards for the votes follow when voting is over.  The  *)
(* frontend is not told the decision nor whether votes are taken: it       *)
(* computes both from the latest tally, the rewards and the clock.         *)
(*                                                                         *)
(* Proportions are of Whole, the 10_000 basis points of the code.          *)
(***************************************************************************)
EXTENDS Naturals

CONSTANTS
    Whole,        \* 100 %
    Totals,       \* voting powers to check
    Thresholds,   \* pairs of minimum yes proportions: of total, of exercised
    MaxNow        \* bound on time

ASSUME DecisionAssumption ==
    /\ Whole \in Nat \ {0} /\ Totals \subseteq Nat /\ MaxNow \in Nat
    /\ \A t \in Thresholds : t.ofTotal \in 0 .. Whole /\ t.ofExercised \in t.ofTotal .. Whole

VARIABLES
    total, threshold,
    yes, no,       \* latest_tally
    decision,      \* governance: "open", "yes" or "no"
    outcome,       \* executed_timestamp_seconds, failed_timestamp_seconds
    now, deadline,
    eligible,      \* is_eligible_for_rewards
    settled        \* reward_event_round, reward_event_end_timestamp_seconds

decisionVars == <<total, threshold, yes, no, decision, outcome, now, deadline, eligible, settled>>

\* Mutant: a tie adopts.
MajorityDecisionTie(y, n, all, required) ==
    IF y * Whole >= all * required THEN "yes"
    ELSE IF n * Whole > all * (Whole - required) THEN "no"
    ELSE "unspecified"

MajorityDecision(y, n, all, required) ==
    IF y * Whole > all * required THEN "yes"
    ELSE IF n * Whole >= all * (Whole - required) THEN "no"
    ELSE "unspecified"

MinimumYesProportionOfTotal == threshold.ofTotal
MinimumYesProportionOfExercised == threshold.ofExercised

IsAccepted ==
    /\ MajorityDecision(yes, no, yes + no, MinimumYesProportionOfExercised) = "yes"
    /\ yes * Whole >= total * MinimumYesProportionOfTotal

SnsDecisionStatus ==
    CASE decision = "open"                     -> "open"
      [] decision # "open" /\ IsAccepted       -> IF outcome = "none" THEN "adopted" ELSE outcome
      [] decision # "open" /\ ~IsAccepted      -> "rejected"

SnsRewardStatus ==
    CASE settled                       -> "settled"
      [] ~settled /\ now < deadline    -> "accept-votes"
      [] ~settled /\ ~(now < deadline) -> IF eligible THEN "ready-to-settle" ELSE "settled"

\* The card for votes is visible.
SnsProposalAcceptingVotes == SnsRewardStatus = "accept-votes"
-----------------------------------------------------------------------------
(* Governance of the project, as the frontend relies on it.                 *)

\* The votes that are missing cannot change the result any more.
Early(y, n) ==
    CASE y * Whole > total * threshold.ofExercised           -> "yes"
      [] n * Whole >= total * (Whole - threshold.ofExercised) -> "no"
      [] OTHER                                                -> "open"

AtDeadline(y, n) ==
    IF y * Whole > (y + n) * threshold.ofExercised /\ y * Whole >= total * threshold.ofTotal
    THEN "yes" ELSE "no"

CastVotes(y, n) ==
    /\ now < deadline /\ yes + y + no + n <= total
    /\ yes' = yes + y /\ no' = no + n
    /\ decision' = IF decision = "open" THEN Early(yes', no') ELSE decision
    /\ deadline' \in (IF deadline < MaxNow THEN {deadline, deadline + 1} ELSE {deadline})
    /\ UNCHANGED <<total, threshold, outcome, now, eligible, settled>>

Tick ==
    /\ now < MaxNow
    /\ now' = now + 1
    /\ decision' = IF decision = "open" /\ now' = deadline THEN AtDeadline(yes, no) ELSE decision
    /\ UNCHANGED <<total, threshold, yes, no, outcome, deadline, eligible, settled>>

Execute ==
    /\ decision = "yes" /\ outcome = "none"
    /\ outcome' \in {"executed", "failed"}
    /\ UNCHANGED <<total, threshold, yes, no, decision, now, deadline, eligible, settled>>

\* A reward event takes in the proposal.
DistributeRewards ==
    /\ eligible /\ ~settled /\ now >= deadline
    /\ settled' = TRUE
    /\ UNCHANGED <<total, threshold, yes, no, decision, outcome, now, deadline, eligible>>
-----------------------------------------------------------------------------
InitDecision ==
    /\ total \in Totals /\ threshold \in Thresholds
    /\ yes = 0 /\ no = 0 /\ decision = "open" /\ outcome = "none"
    /\ now = 0 /\ deadline = 1 /\ eligible \in BOOLEAN /\ settled = FALSE

NextDecision ==
    \/ \E y, n \in 0 .. total : y + n > 0 /\ CastVotes(y, n)
    \/ Tick \/ Execute \/ DistributeRewards

SpecDecision == InitDecision /\ [][NextDecision]_decisionVars
-----------------------------------------------------------------------------
DecisionTypeOK ==
    /\ total \in Totals /\ threshold \in Thresholds
    /\ yes \in Nat /\ no \in Nat /\ yes + no <= total
    /\ decision \in {"open", "yes", "no"} /\ outcome \in {"none", "executed", "failed"}
    /\ now \in Nat /\ deadline \in Nat /\ eligible \in BOOLEAN /\ settled \in BOOLEAN

\* The decision that the frontend computes from the latest tally is the one
\* that governance took, although votes that came after an early decision are
\* in that tally; and the card for votes is there exactly while governance
\* takes them, also after an early decision and when the deadline was moved
\* (snsDecisionStatus, snsRewardStatus).
StatusIsGovernances ==
    /\ decision = "yes" => SnsDecisionStatus \in {"adopted", "executed", "failed"}
    /\ decision = "no" => SnsDecisionStatus = "rejected"
    /\ decision = "open" => SnsDecisionStatus = "open" /\ SnsProposalAcceptingVotes
    /\ SnsProposalAcceptingVotes <=> now < deadline
=============================================================================
