---------------------------- MODULE MC_Recovery ----------------------------
(***************************************************************************)
(* What was interrupted is taken up again, for TLC: the participation in   *)
(* the sale of an SNS (which this module extends), the stakes and top-ups  *)
(* of NNS neurons, those of the neurons of an SNS, with the pages of the   *)
(* latter, and what the page of a project knows of its swap.  The four     *)
(* share no state: a behaviour is one of them, the variables of the sale   *)
(* keep an initial value in the others, and the variables of the others    *)
(* keep the value 0.                                                       *)
(***************************************************************************)
EXTENDS SnsSale, Integers, TLC

CONSTANTS
    Neurons, NoMemo, PageLimit, MaxTopUps, MaxSessions, MaxTroubles,
    Memos, Followees, MinStake, Fee, Amounts, MaxDelay, MaxOps, n1, n2, f1, f2, g1,
    MinParticipant, MaxParticipant, MaxIcp, Forces, MaxFailed, MaxVisits

VARIABLES
    part,      \* the part that this behaviour is about
    txs, balance, stake, screen, listing, neurons, loaded, checked, scans, refresh, op,
    looked, claims, faulty, detailed, troubles, sessions,
    gov, prev, params, lists, selected, reloads, recovery, ops,
    sale, force, wrappers, asks, stores, visit, payment, late, failed, visits

ThreeAccounts == 0 .. 2
SmallStake == {MinStake}
Symmetry == Permutations(Flows) \cup Permutations(Neurons)

C == INSTANCE NeuronClaims WITH
    page <- screen, store <- neurons, failures <- troubles, MaxFailures <- MaxTroubles
P == INSTANCE SnsNeurons WITH
    Amounts <- SmallStake,
    page <- screen, store <- neurons, failures <- troubles, MaxFailures <- MaxTroubles
W == INSTANCE SwapCommitments WITH swap <- sale

swapVars == <<sale, force, wrappers, asks, stores, visit, payment, late, failed, visits>>
NoSwap ==
    sale = 0 /\ force = 0 /\ wrappers = 0 /\ asks = 0 /\ stores = 0 /\ visit = 0 /\
    payment = 0 /\ late = 0 /\ failed = 0 /\ visits = 0

allVars == <<part, vars, txs, balance, stake, screen, listing, neurons, loaded, checked, scans,
             refresh, op, looked, claims, faulty, detailed, troubles, sessions, gov, prev,
             params, lists, selected, reloads, recovery, ops, swapVars>>
-----------------------------------------------------------------------------
SaleRest == <<txs, balance, stake, screen, listing, neurons, loaded, checked, scans, refresh,
              op, looked, claims, faulty, detailed, troubles, sessions, gov, prev, params,
              lists, selected, reloads, recovery, ops, swapVars>>
SaleInit ==
    /\ part = "sale" /\ Init /\ NoSwap
    /\ txs = 0 /\ balance = 0 /\ stake = 0 /\ screen = 0 /\ listing = 0 /\ neurons = 0 /\
       loaded = 0 /\ checked = 0 /\ scans = 0 /\ refresh = 0 /\ op = 0 /\ looked = 0 /\
       claims = 0 /\ faulty = 0 /\ detailed = 0 /\ troubles = 0 /\ sessions = 0 /\ gov = 0 /\
       prev = 0 /\ params = 0 /\ lists = 0 /\ selected = 0 /\ reloads = 0 /\ recovery = 0 /\
       ops = 0

ParkedSale == Init /\ funds = 1

ClaimsRest == <<vars, gov, prev, params, lists, selected, reloads, recovery, ops, swapVars>>
ClaimsInit ==
    /\ part = "claims" /\ C!Init /\ ParkedSale /\ NoSwap
    /\ gov = 0 /\ prev = 0 /\ params = 0 /\ lists = 0 /\ selected = 0 /\ reloads = 0 /\
       recovery = 0 /\ ops = 0

ProjectRest ==
    <<vars, txs, stake, listing, loaded, scans, refresh, looked, claims, detailed, swapVars>>
\* An SNS in which permissions cannot be granted has a neuron with all of them.
FirstParams == params.grantable \/ gov[0] = P!Neuron(P!AllPermissions, "locked", P!MinNeuronSplittable)
ProjectInit ==
    /\ part = "project" /\ P!Init /\ FirstParams /\ ParkedSale /\ NoSwap
    /\ txs = 0 /\ stake = 0 /\ listing = 0 /\ loaded = 0 /\ scans = 0 /\ refresh = 0 /\
       looked = 0 /\ claims = 0 /\ detailed = 0

SwapRest ==
    <<vars, txs, balance, stake, screen, listing, neurons, loaded, checked, scans, refresh, op,
      looked, claims, faulty, detailed, troubles, sessions, gov, prev, params, lists, selected,
      reloads, recovery, ops>>
SwapInit ==
    /\ part = "swap" /\ W!Init /\ ParkedSale
    /\ txs = 0 /\ balance = 0 /\ stake = 0 /\ screen = 0 /\ listing = 0 /\ neurons = 0 /\
       loaded = 0 /\ checked = 0 /\ scans = 0 /\ refresh = 0 /\ op = 0 /\ looked = 0 /\
       claims = 0 /\ faulty = 0 /\ detailed = 0 /\ troubles = 0 /\ sessions = 0 /\ gov = 0 /\
       prev = 0 /\ params = 0 /\ lists = 0 /\ selected = 0 /\ reloads = 0 /\ recovery = 0 /\
       ops = 0

AllInit == SaleInit \/ ClaimsInit \/ ProjectInit \/ SwapInit

AllNext ==
    \/ part = "sale" /\ Next /\ UNCHANGED <<part, SaleRest>>
    \/ part = "claims" /\ C!Next /\ UNCHANGED <<part, ClaimsRest>>
    \/ part = "project" /\ P!Next /\ UNCHANGED <<part, ProjectRest>>
    \/ part = "swap" /\ W!Next /\ UNCHANGED <<part, SwapRest>>

AllSpec == AllInit /\ [][AllNext]_allVars
-----------------------------------------------------------------------------
\* Stakes and top-ups that were interrupted after the transfer are recovered when the wallet or
\* the page of the project is opened, and a neuron is claimed at most once in a session. The
\* page of an SNS neuron shows what governance holds once its certified answer came, offers only
\* what governance accepts, and does not show a neuron that was transferred. The page of a
\* project knows of the participations before when it lets the user participate again.
PagesAreRight ==
    /\ part = "claims" =>
        C!TypeOK /\ C!InterruptedStakesAreClaimed /\ C!InterruptedTopUpsAreRefreshed /\ C!ClaimedOncePerSession
    /\ part = "project" =>
        /\ P!TypeOK /\ P!InterruptedStakesAreClaimed /\ P!InterruptedTopUpsAreRefreshed
        /\ P!PageShowsOwnWrites /\ P!TransferredStaysHidden /\ P!OffersAreAccepted
    /\ part = "swap" => W!ParticipationIsShown /\ W!MaximumIsAccepted
=============================================================================
