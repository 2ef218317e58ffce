------------------------------- MODULE MCFlood -------------------------------
(* Instances of Flood for TLC.                                             *)
EXTENDS Flood, TLC

CONSTANTS e1, e2
TwoWindows == (e1 :> Second) @@ (e2 :> 2 * Second)
Symmetry == Permutations(Worker) \cup Permutations(Id)
=============================================================================
