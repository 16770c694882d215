---------------------------- MODULE MC_NnsNeurons ----------------------------
(***************************************************************************)
(* NnsNeurons for TLC.  The neurons are interchangeable.  The first states *)
(* are some of those of the specification: sessions that only query have   *)
(* neurons of the user, the neurons of a device are locked, and there are  *)
(* two neurons if they can be merged, or may not because of followees.     *)
(***************************************************************************)
EXTENDS NnsNeurons, TLC

CONSTANTS n1, n2, f1

Symmetry == Permutations(Neurons)

OfUser(n) == gov[n].controller = "user"
IsManaged(n) == gov[n].followees["management"] # {}

SomeInit ==
    /\ Init
    /\ forced = "query" => \A n \in Neurons : OfUser(n)
    /\ \A n \in Neurons : gov[n].controller = "wallet" => gov[n].state = "locked"
    /\ (\A n \in Neurons : HasValidStake(gov[n])) =>
        \A n \in Neurons :
            /\ OfUser(n) => ~IsManaged(n)
            /\ gov[n].controller = "other" => \E m \in Neurons : IsManaged(m)

SomeSpec == SomeInit /\ [][Next]_vars
=============================================================================
