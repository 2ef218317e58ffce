-------------------------------- MODULE Cors --------------------------------
(***************************************************************************)
(* wwhttp/middleware.go, CorsMiddleware: an origin may read responses with *)
(* credentials if it is listed, or fits a listed pattern, whose first *    *)
(* stands for anything.  Origins and patterns are sequences of characters. *)
(***************************************************************************)
EXTENDS Integers, Sequences, SequencesExt

CONSTANTS Origins, Lists   \* bound: what a browser sends, and allowedOrigins

VARIABLES origin, allowedOrigins, result   \* result: "none", "allowed", "refused"

vars == <<origin, allowedOrigins, result>>

TypeOK == /\ origin \in Origins /\ allowedOrigins \in Lists
          /\ result \in {"none", "allowed", "refused"}

Init == origin \in Origins /\ allowedOrigins \in Lists /\ result = "none"

Stars(o) == {i \in DOMAIN o : o[i] = "*"}
Star(o) == CHOOSE i \in Stars(o) : \A j \in Stars(o) : i <= j
Before(o) == SubSeq(o, 1, Star(o) - 1)
After(o) == SubSeq(o, Star(o) + 1, Len(o))

(* Mutant: the pattern need only occur at the front.                       *)
MatchesBefore(o) == IF Stars(o) = {} THEN origin = o ELSE IsPrefix(Before(o), origin)

Matches(o) == IF Stars(o) = {} THEN origin = o
              ELSE IsPrefix(Before(o), origin) /\ IsSuffix(After(o), origin)

AllowOriginFunc ==
  /\ result = "none"
  /\ result' = IF \E i \in DOMAIN allowedOrigins : Matches(allowedOrigins[i])
               THEN "allowed" ELSE "refused"
  /\ UNCHANGED <<origin, allowedOrigins>>

Next == AllowOriginFunc
Spec == Init /\ [][Next]_vars

-----------------------------------------------------------------------------
(* An origin is allowed if it is what a listed pattern becomes when its    *)
(* first * is replaced, and otherwise only if the beginning and the end of *)
(* a pattern overlap in it, so that it is shorter than both together.      *)
Substrings(s) == {SubSeq(s, i, j) : i \in 1..Len(s) + 1, j \in 0..Len(s)}
Becomes(o) == IF Stars(o) = {} THEN {o}
              ELSE {Before(o) \o middle \o After(o) : middle \in Substrings(origin)}
Overlaps(o) == /\ Stars(o) # {} /\ Len(origin) < Len(o) - 1
               /\ IsPrefix(Before(o), origin) /\ IsSuffix(After(o), origin)

AllowedIsListed ==
  result # "none" =>
    LET patterns == ToSet(allowedOrigins)
        fits == \E o \in patterns : origin \in Becomes(o)
    IN  /\ fits => result = "allowed"
        /\ result = "allowed" => fits \/ \E o \in patterns : Overlaps(o)

(* What was decided is what the patterns say.                              *)
ResultIsOfPatterns ==
  result # "none" =>
    (result = "allowed" <=> \E i \in DOMAIN allowedOrigins : Matches(allowedOrigins[i]))

Inductive == TypeOK /\ ResultIsOfPatterns
=============================================================================
