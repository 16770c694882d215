---------------------------- MODULE MC_Canisters ----------------------------
(***************************************************************************)
(* The lists of canisters in the accounts of the backend, where principals *)
(* have two accounts at most, and the pages of canisters, for TLC (this    *)
(* module extends AccountsStore and CanisterPages).  The two share no      *)
(* state: a behaviour is one of them, and the variables of the other keep  *)
(* one initial value.  Principals are model values; permuting them is      *)
(* sound because nothing orders them, and none is a controller of a page.  *)
(***************************************************************************)
EXTENDS AccountsStore, CanisterPages, TLC

CONSTANTS p1, p2

VARIABLE part      \* the part that this behaviour is about

Symmetry == Permutations(Principals)

allVars == <<part, vars, pagesVars>>
-----------------------------------------------------------------------------
ParkedBackend == Init /\ accounts = {}
ParkedPages == PagesInit /\ Len(linked) = 1 /\ forced = "query"

AllInit ==
    \/ part = "backend" /\ Init /\ ParkedPages
    \/ part = "pages" /\ PagesInit /\ ParkedBackend

AllNext ==
    \/ part = "backend" /\ Next /\ UNCHANGED <<part, pagesVars>>
    \/ part = "pages" /\ PagesNext /\ UNCHANGED <<part, vars>>

AllSpec == AllInit /\ [][AllNext]_allVars
=============================================================================
