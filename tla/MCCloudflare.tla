---------------------------- MODULE MCCloudflare ----------------------------
(* Instances of Cloudflare for TLC: the second version lists less.         *)
EXTENDS Cloudflare, TLC

CONSTANTS a1, a2
MCRanges == [n \in Version |-> IF n = 1 THEN {a1} ELSE {}]
=============================================================================
