------------------------------ MODULE MCCalls -------------------------------
(* Instances of Calls for TLC.                                             *)
EXTENDS Calls

-----------------------------------------------------------------------------
(* GraphQL: fields of every Go type, with single directives and chains.    *)
None == "none"
V(type, n, form, bytes) == [type |-> type, n |-> n, form |-> form, bytes |-> bytes]
MCFields ==
  {V("absent", 0, None, 0), V("nil", 0, None, 0)}
  \cup {V("string", 0, form, bytes) : form \in {"email", "word"}, bytes \in 0..5}
  \cup {V(type, n, "number", 1) : type \in {"string", "number", "decimal", "time"}, n \in 1..5}
  \cup {V(type, n, "number", 1) : type \in {"int", "list"}, n \in {2, 4, 6}}

R(directive) == [directive |-> directive, min |-> {}, max |-> {}, minNow |-> {},
                 maxNow |-> {}, pattern |-> None, regexp |-> None]
Bounds == {{}, {2}, {4}}
Rules ==
  {[R(d) EXCEPT !.min = lo, !.max = hi] :
      d \in {"string", "date", "decimal", "int", "array"}, lo \in Bounds, hi \in Bounds}
  \cup {[R("date") EXCEPT !.minNow = lo, !.maxNow = hi] : lo \in Bounds, hi \in Bounds}
  \cup {[R("string") EXCEPT !.min = lo, !.pattern = p, !.regexp = r] :
          lo \in {{}, {2}}, p \in {"EMAIL", "REGEX", "OTHER"}, r \in {"word", None}}
LowRules == {r \in Rules : r.min = {2}}
MCChains == {<<r>> : r \in Rules}
            \cup {<<r, [R("string") EXCEPT !.pattern = "EMAIL"]>> : r \in LowRules}
            \cup {<<[R("int") EXCEPT !.max = {4}], r>> : r \in LowRules}

Client == [kind |-> "client", texts |-> {"client"}, code |-> "client"]
Plain(text) == [kind |-> "plain", texts |-> {text}, code |-> None]
Query == [kind |-> "gql", texts |-> {"query"}, code |-> "GRAPHQL_VALIDATION_FAILED"]
Wrapper == [kind |-> "gql", texts |-> {"secret"}, code |-> None]
MCFailures ==
  LET p == Plain("secret")
      q == Plain("cause")
  IN  {<<p>>, <<Client>>, <<p, Client>>, <<Client, p>>, <<q, p, Client, p>>,
       <<Query>>, <<Query, p>>, <<p, Query>>, <<Wrapper, p>>, <<Wrapper, Client>>}

-----------------------------------------------------------------------------
(* Cognito: pools of up to four pages, some of them empty.                 *)
MCPools == UNION {[1..n -> {<<>>, <<"u1">>, <<"u2", "u3">>}] : n \in 1..4}

-----------------------------------------------------------------------------
(* Paths /a, //x/a, //x//y/b, and two with an authority that is none.      *)
MCPage == {[before |-> s, path |-> "/a"] : s \in {<<>>, <<"x">>, <<"x", "a:b">>}}
          \cup {[before |-> s, path |-> "/b"] : s \in {<<"x", "y">>, <<"a:b">>}}

-----------------------------------------------------------------------------
(* Tokens: with every signature but good claims, and with the right        *)
(* signature but any claims; of the two keys one names its algorithm.      *)
MCKeys == {[id |-> "k1", alg |-> "rsa"], [id |-> "k2", alg |-> Nothing]}
GoodClaims == [sub |-> "anne", iss |-> "us", aud |-> "app", from |-> {9}, until |-> {11}]
MCClaims == {[GoodClaims EXCEPT !.sub = "ben"], [GoodClaims EXCEPT !.iss = "them"],
             [GoodClaims EXCEPT !.aud = "other"]}
            \cup {[GoodClaims EXCEPT !.from = from, !.until = until] :
                    from \in {{}, {11}, {12}}, until \in {{}, {8}, {9}}}
MCTokens == {[kid |-> kid, alg |-> alg, signature |-> s, claims |-> GoodClaims] :
               kid \in {"k1", "k2"}, alg \in {"rsa", "hmac"},
               s \in {<<"k1", "rsa">>, <<"k1", "hmac">>, <<"k2", "hmac">>}}
            \cup {[kid |-> "k1", alg |-> "rsa", signature |-> <<"k1", "rsa">>, claims |-> k] :
                    k \in MCClaims}

-----------------------------------------------------------------------------
(* Origins and patterns of up to three characters, lists of up to two.     *)
Strings(chars) == UNION {[1..n -> chars] : n \in 0..3}
MCOrigins == Strings({"x", "y"})
MCLists == {<<>>} \cup {<<p>> : p \in Strings({"x", "y", "*"})}
           \cup {<<<<"x">>, p>> : p \in Strings({"x", "y", "*"})}

(* Mail: a safe domain, two that look like it, and a name without one.     *)
MCAddress == {<<"ann", "safe">>, <<"ben", "evil">>, <<"cat", "evil", "safe">>, <<"dan">>}
MCDomains == {<<"safe">>}
MCAddressLists == UNION {[1..n -> MCAddress] : n \in 0..2}

(* Values: ints of five bits and an int32 of three, times in days of four  *)
(* half seconds, with the year 0 a day before the zero time and a day      *)
(* before that; runes of up to three bytes.                                *)
MCValue == -8..10
MCYear0 == -4
MCTexts == UNION {[1..n -> 1..3] : n \in 0..3}
=============================================================================
