-------------------------- MODULE MC_AccountsStore --------------------------
(***************************************************************************)
(* What the backend holds, for TLC: the accounts store, the database under *)
(* it while it is migrated, the web pages and their certificates, and the  *)
(* total value locked with the heap.  They share no state: a behaviour is  *)
(* one of them, and the variables of the others keep an initial value.     *)
(* Principals are model values; permuting them is sound because nothing    *)
(* orders them.                                                            *)
(***************************************************************************)
EXTENDS AccountsStore, AccountsDb, CertifiedAssets, ValueLocked, TLC

VARIABLE part      \* the part that this behaviour is about

Symmetry == Permutations(Principals)

allVars == <<part, vars, dbVars, assetVars, tvlVars>>
-----------------------------------------------------------------------------
\* The path app, its directory, and files of two versions of the bundle.
At(root, suffix, gz) == [root |-> root, suffix |-> suffix, gz |-> gz]
TwoBundles ==
    {[p \in {At("", "/index.html", TRUE), At("app", "/index.html", TRUE),
             At("app/x", "", TRUE)} |-> "first"],
     [p \in {At("app", "", TRUE), At("app/x", "/index.html", TRUE)} |-> "second"]}
TwoUploads == [p \in {At("up1", "", FALSE), At("up2", "", FALSE)} |-> "upload"]

\* A rate in whole USD, and one with more decimals than an amount in e8s.
TwoRates == {[rate |-> 12, decimals |-> 0], [rate |-> 34, decimals |-> 2]}
-----------------------------------------------------------------------------
ParkedStore == Init /\ accounts = {}
ParkedDb == InitDb /\ authoritative = EmptyDb /\ migration = {}
ParkedAssets ==
    /\ Install
    /\ arguments = CHOOSE args \in Arguments : TRUE
    /\ bundle = CHOOSE b \in Bundles : TRUE

AllInit ==
    \/ part = "store" /\ Init /\ ParkedDb /\ ParkedAssets /\ InitState
    \/ part = "database" /\ InitDb /\ ParkedStore /\ ParkedAssets /\ InitState
    \/ part = "assets" /\ Install /\ ParkedStore /\ ParkedDb /\ InitState
    \/ part = "heap" /\ InitState /\ ParkedStore /\ ParkedDb /\ ParkedAssets

AllNext ==
    \/ part = "store" /\ Next /\ UNCHANGED <<part, dbVars, assetVars, tvlVars>>
    \/ part = "database" /\ NextDb /\ UNCHANGED <<part, vars, assetVars, tvlVars>>
    \/ part = "assets" /\ NextAssets /\ UNCHANGED <<part, vars, dbVars, tvlVars>>
    \/ part = "heap" /\ NextState /\ UNCHANGED <<part, vars, dbVars, assetVars>>

AllSpec == AllInit /\ [][AllNext]_allVars
=============================================================================
