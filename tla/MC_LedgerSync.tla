--------------------------- MODULE MC_LedgerSync ---------------------------
(***************************************************************************)
(* LedgerSync for TLC.  Tasks and Principals are sets of model values that *)
(* are interchangeable: permuting them is sound for the safety runs.       *)
(***************************************************************************)
EXTENDS LedgerSync, TLC

Symmetry == Permutations(Tasks) \cup Permutations(Principals)

=============================================================================
