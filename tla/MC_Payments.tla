---------------------------- MODULE MC_Payments -----------------------------
(***************************************************************************)
(* Payments for canisters, for TLC: new canisters (CreateCanister, which   *)
(* this module extends; canisters are numbers, because the list sorts those*)
(* without a name by their ids, and so there is no symmetry) and top-ups.  *)
(* The two share no state: a behaviour is one of them; the variables of    *)
(* CreateCanister keep their initial values in the other one, and those of *)
(* the top-ups the value 0.                                                *)
(***************************************************************************)
EXTENDS CreateCanister, TLC

CONSTANTS
    TopUps, k1, k2

VARIABLES
    part,      \* the part that this behaviour is about
    topUp, polls, payment, notified, page, asked, synced, log, indexed, minted

U == INSTANCE TopUpCanister WITH
    Payments <- TopUps, client <- topUp, attempts <- polls, transfer <- payment,
    notify <- notified, cmc <- minted

TopUpVars == <<topUp, polls, payment, notified, page, asked, synced, log, indexed, minted>>
allVars == <<part, vars, TopUpVars>>
-----------------------------------------------------------------------------
CreateInit ==
    /\ part = "create" /\ Init
    /\ topUp = 0 /\ polls = 0 /\ payment = 0 /\ notified = 0 /\ page = 0 /\ asked = 0 /\
       synced = 0 /\ log = 0 /\ indexed = 0 /\ minted = 0

TopUpInit == part = "topup" /\ Init /\ U!Init

AllInit == CreateInit \/ TopUpInit

Creates(action) == part = "create" /\ action /\ UNCHANGED <<part, TopUpVars>>
TopsUp(action) == part = "topup" /\ action /\ UNCHANGED <<part, vars>>

AllNext == Creates(Next) \/ TopsUp(U!Next)

\* The fairness of each part: see their FairSpec and Spec.
AllSpec ==
    /\ AllInit /\ [][AllNext]_allVars
    /\ \A k \in Payments :
        /\ \A c \in Callers : WF_allVars(Creates(CmcReceives(c, k)))
        /\ WF_allVars(Creates(CmcCompletes(k)))
        /\ WF_allVars(Creates(Runner(k)))
    /\ \A k \in TopUps :
        /\ WF_allVars(TopsUp(U!CmcCompletes(k)))
        /\ WF_allVars(TopsUp(U!BackendSyncs(k)))
        /\ \A c \in U!Callers : WF_allVars(TopsUp(U!CmcReceives(c, k)))
    /\ WF_allVars(TopsUp(U!IndexCatchesUp))
    /\ WF_allVars(TopsUp(U!OpenPage \/ U!PageNotifies \/ U!PageDone))
-----------------------------------------------------------------------------
\* A top-up that is the latest transaction is credited or given back, if the page of the
\* canister is opened often enough (notifyTopUpIfNeeded).
LatestTopUpSettles == []<>(part = "topup" => U!NothingPends)
=============================================================================
