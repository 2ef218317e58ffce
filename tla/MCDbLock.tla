------------------------------ MODULE MCDbLock ------------------------------
(* Instances of DbLock for TLC: process p runs t1 and t2 and may open s1,  *)
(* process q runs u and may open r.                                        *)
EXTENDS DbLock, TLC

CONSTANTS p, q, t1, t2, u, s1, r

MCHostOf == [t \in Thread |-> IF t = u THEN q ELSE p]
MCPoolOf == [s \in Session |-> IF s = r THEN q ELSE p]
Symmetry == Permutations({t1, t2}) \cup Permutations(Name)
=============================================================================
