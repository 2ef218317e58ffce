------------------------------ MODULE MCEvents ------------------------------
(* Instances of Events for TLC.                                            *)
EXTENDS Events, TLC

Symmetry == Permutations(Goroutine) \cup Permutations(GroupId) \cup Permutations(EventName)
=============================================================================
