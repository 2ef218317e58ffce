--------------------------------- MODULE Gql ---------------------------------
(***************************************************************************)
(* wwgraphql/graphql.go: a field of an input passes a chain of validation  *)
(* directives, then the resolver; an error of either, or of the GraphQL    *)
(* library before them, is presented to the client.                        *)
(*                                                                         *)
(* Numbers and instants are counted in halves: 3 is one and a half, or the *)
(* noon of day 1.                                                          *)
(***************************************************************************)
EXTENDS Integers, Sequences, FiniteSetsExt

CONSTANTS Fields,       \* bound: what the field may hold
          Chains,       \* bound: the directives of the field, in order
          Times,        \* bound: when the request arrives
          Failures      \* bound: the errors of the library and the resolver

None == "none"

VARIABLES field,        \* values[fieldName]
          rules,        \* the directives of the field
          chain,        \* those that have not run
          now,          \* time.Now()
          state,        \* "running", "resolved", "failed" or "replied"
          ran,          \* the resolver was called
          err,          \* the error on its way out: layers, outermost first
          reply         \* what the client is told

vars == <<field, rules, chain, now, state, ran, err, reply>>

-----------------------------------------------------------------------------
Plain(text) == [kind |-> "plain", texts |-> {text}, code |-> None]
NewClientError(code) == [kind |-> "client", texts |-> {code}, code |-> code]
GqlError(texts, code) == [kind |-> "gql", texts |-> texts, code |-> code]

(* Error(): errors.Wrap puts its text before its cause's; a ClientError    *)
(* and a GraphQL error do not mention their cause.                         *)
Message(e) == LET ends == {j \in DOMAIN e : e[j].kind # "plain"} \cup {Len(e)}
              IN  UNION {e[j].texts : j \in 1..Min(ends)}

(* gqlgen reports an error of a field on the path of the field, unless     *)
(* errors.As finds a GraphQL error in it, which stays as it is.            *)
GqlErrors(e) == {j \in DOMAIN e : e[j].kind = "gql"}
OnPath(e) == IF GqlErrors(e) # {} THEN e ELSE <<GqlError(Message(e), None)>> \o e

(* The outermost of them is what gqlgen's own presenter answers with.      *)
Response(e) == e[Min(GqlErrors(e))]

(* errors.As(e, &clientErr): the outermost client error of the chain.      *)
ClientErrors(e) == {j \in DOMAIN e : e[j].kind = "client"}
ClientError(e) == e[Min(ClientErrors(e))]

LibraryCodes == {"GRAPHQL_VALIDATION_FAILED", "GRAPHQL_PARSE_FAILED"}
Told(texts, code) == [texts |-> texts, code |-> code]

Obfuscated(e) == IF Response(e).code \in LibraryCodes
                 THEN Told(Response(e).texts, Response(e).code)
                 ELSE Told({"unexpected"}, "500")

(* Mutant: the response keeps the text of the whole error.                 *)
PresentsAll(e) == IF ClientErrors(e) # {} THEN Told(Response(e).texts, ClientError(e).code)
                  ELSE Obfuscated(e)

(* What it takes from gqlgen's own, it changes where it must.              *)
DefaultErrorPresenter(e) ==
  IF ClientErrors(e) # {} THEN Told(ClientError(e).texts, ClientError(e).code)
  ELSE Obfuscated(e)

-----------------------------------------------------------------------------
(* A field is absent, nil, or a value of a Go type, with its number or     *)
(* instant "n", "form" and "bytes".  A rule has a directive and optional   *)
(* limits, as sets of at most one.                                         *)

(* The beginning of all directives: without a value next(ctx) is called at *)
(* once; a type that the directive does not know is the schema's error; a  *)
(* string that does not convert, and a breach of a rule, are the client's. *)
Validate(v, types, converts, breach) ==
  IF v.type \in {"absent", "nil"} THEN <<>>
  ELSE IF v.type \notin types THEN <<Plain("type")>>
  ELSE IF ~converts THEN <<NewClientError("invalid"), Plain("parse")>>
  ELSE breach

Refuse(breach, code) == IF breach THEN <<NewClientError(code)>> ELSE <<>>

Exceeds(rule, x) == (\E m \in rule.min : x < m) \/ (\E m \in rule.max : x > m)

StringTypes == {"string"}
Mismatch(rule, v) == \/ rule.pattern = "EMAIL" /\ v.form # "email"
                     \/ rule.pattern = "REGEX" /\ v.form # rule.regexp

(* len(str) counts bytes; an empty string has any pattern; "REGEX" needs   *)
(* an expression that compiles.                                            *)
ValidateStringDirective(rule, v) == Validate(v, StringTypes, TRUE,
  IF Exceeds(rule, v.bytes) THEN <<NewClientError("length")>>
  ELSE IF v.bytes > 0 /\ rule.pattern = "REGEX" /\ rule.regexp = None THEN <<Plain("regexp")>>
  ELSE Refuse(v.bytes > 0 /\ Mismatch(rule, v), "pattern"))

DateTypes == {"time"}

(* Mutant: a date on the limit passes.                                     *)
ValidateDateInclusive(rule, v) == Validate(v, DateTypes, TRUE,
  Refuse(Exceeds(rule, v.n) \/ Exceeds([min |-> rule.minNow, max |-> rule.maxNow], v.n - now), "date"))

(* Strictly before and after its limits, two of them relative to now.      *)
ValidateDateDirective(rule, v) == Validate(v, DateTypes, TRUE,
  Refuse(\/ \E m \in rule.max : v.n >= m
         \/ \E m \in rule.maxNow : v.n >= now + m
         \/ \E m \in rule.min : v.n <= m
         \/ \E m \in rule.minNow : v.n <= now + m, "date"))

(* decimal.NewFromString                                                   *)
DecimalTypes == {"int", "string", "number", "decimal"}
ValidateDecimalDirective(rule, v) ==
  Validate(v, DecimalTypes, v.form = "number", Refuse(Exceeds(rule, v.n), "decimal"))

(* strconv.Atoi                                                            *)
IntTypes == {"int", "string", "number"}
ValidateIntDirective(rule, v) ==
  Validate(v, IntTypes, v.form = "number" /\ v.n % 2 = 0, Refuse(Exceeds(rule, v.n), "int"))

ArrayTypes == {"list"}
ValidateArrayDirective(rule, v) ==
  Validate(v, ArrayTypes, TRUE, Refuse(Exceeds(rule, v.n), "array"))

(* What a directive returns: an error, or <<>> for next(ctx).              *)
Verdict(rule, v) ==
  CASE rule.directive = "string" -> ValidateStringDirective(rule, v)
    [] rule.directive = "date" -> ValidateDateDirective(rule, v)
    [] rule.directive = "decimal" -> ValidateDecimalDirective(rule, v)
    [] rule.directive = "int" -> ValidateIntDirective(rule, v)
    [] rule.directive = "array" -> ValidateArrayDirective(rule, v)

GoTypes == [string |-> StringTypes, date |-> DateTypes, decimal |-> DecimalTypes,
            int |-> IntTypes, array |-> ArrayTypes]

-----------------------------------------------------------------------------
TypeOK == /\ field.type \in {"absent", "nil"} \cup UNION {GoTypes[d] : d \in DOMAIN GoTypes}
          /\ now \in Times
          /\ chain = SubSeq(rules, Len(rules) - Len(chain) + 1, Len(rules))
          /\ state \in {"running", "resolved", "failed", "replied"}
          /\ ran \in BOOLEAN
          /\ err = <<>> <=> state \in {"running", "resolved"}
          /\ reply.code = None <=> state # "replied"

Init == /\ field \in Fields /\ rules \in Chains /\ now \in Times
        /\ chain = rules /\ state = "running" /\ ran = FALSE
        /\ err = <<>> /\ reply = Told({}, None)

Fail(e) == state' = "failed" /\ err' = e

(* The query does not parse, or does not fit the schema.                   *)
LibraryFails ==
  /\ state = "running" /\ chain = rules
  /\ \E e \in Failures : e[1].code \in LibraryCodes /\ Fail(e)
  /\ UNCHANGED <<field, rules, chain, now, ran, reply>>

Directive ==
  /\ state = "running" /\ chain # <<>>
  /\ chain' = Tail(chain)
  /\ IF Verdict(Head(chain), field) = <<>>
     THEN UNCHANGED <<state, err>>
     ELSE Fail(Verdict(Head(chain), field))
  /\ UNCHANGED <<field, rules, now, ran, reply>>

Resolve ==
  /\ state = "running" /\ chain = <<>>
  /\ ran' = TRUE
  /\ \/ state' = "resolved" /\ UNCHANGED err
     \/ \E e \in Failures : Fail(e)
  /\ UNCHANGED <<field, rules, chain, now, reply>>

Present ==
  /\ state = "failed"
  /\ state' = "replied" /\ reply' = DefaultErrorPresenter(OnPath(err))
  /\ UNCHANGED <<field, rules, chain, now, ran, err>>

Next == LibraryFails \/ Directive \/ Resolve \/ Present

Spec == Init /\ [][Next]_vars

-----------------------------------------------------------------------------
(* The directives run from the first, and each that has run let the field  *)
(* pass, if the request is not refused.                                    *)
Done == 1..Len(rules) - Len(chain)
DoneAdmit ==
  /\ Len(chain) <= Len(rules)
  /\ \A i \in 1..Len(chain) : chain[i] = rules[Len(rules) - Len(chain) + i]
  /\ ran => chain = <<>>
  /\ ran \/ state = "running" => \A j \in Done : Verdict(rules[j], field) = <<>>

(* An error is a directive's, the library's or, once it ran, the           *)
(* resolver's, and the reply is what is presented of it.                   *)
ErrorHasSource ==
  /\ state \in {"failed", "replied"} =>
       \/ err \in Failures /\ (ran \/ err[1].code \in LibraryCodes)
       \/ ~ran /\ \E j \in DOMAIN rules : err = Verdict(rules[j], field) /\ err # <<>>
  /\ state \in {"running", "resolved"} => err = <<>>
  /\ state = "replied" => reply = DefaultErrorPresenter(OnPath(err))
  /\ state # "replied" => reply = Told({}, None)

Inductive ==
  /\ field \in Fields /\ rules \in Chains /\ now \in Times /\ ran \in BOOLEAN
  /\ state \in {"running", "resolved", "failed", "replied"}
  /\ chain \in Seq({rules[j] : j \in DOMAIN rules})
  /\ DoneAdmit /\ ErrorHasSource

Within(x, rule, from) ==
  IF rule.directive = "date"
  THEN /\ \A m \in rule.min \cup {from + o : o \in rule.minNow} : m < x
       /\ \A m \in rule.max \cup {from + o : o \in rule.maxNow} : x < m
  ELSE (\A m \in rule.min : m <= x) /\ (\A m \in rule.max : x <= m)

(* A resolver is only called with a field that is missing or null, or      *)
(* that every directive on it admits: of a type it knows, a number where   *)
(* it wants one, within its limits and in its pattern.                     *)
ResolvedIsValid ==
  ran /\ field.type \notin {"absent", "nil"} =>
    \A j \in DOMAIN rules :
      /\ field.type \in GoTypes[rules[j].directive]
      /\ rules[j].directive = "int" => field.n % 2 = 0
      /\ rules[j].directive \in {"int", "decimal"} => field.form = "number"
      /\ Within(IF rules[j].directive = "string" THEN field.bytes ELSE field.n, rules[j], now)
      /\ rules[j].directive = "string" /\ field.bytes > 0 =>
           CASE rules[j].pattern = "EMAIL" -> field.form = "email"
             [] rules[j].pattern = "REGEX" -> field.form = rules[j].regexp
             [] OTHER -> TRUE

(* The client never reads the text of an error that is not meant for it,   *)
(* however the errors are wrapped.                                         *)
NothingLeaks ==
  \A t \in reply.texts \ {"unexpected"} :
    \E j \in DOMAIN err : /\ t \in err[j].texts
                          /\ err[j].kind = "client" \/ err[j].code \in LibraryCodes

(* "An unexpected error" is left for failures that no layer was meant for  *)
(* the client of, however deep; and a user whose value was refused is told *)
(* why, unless a directive is on the wrong type or has a wrong expression. *)
RefusalIsExplained ==
  state = "replied" /\ reply.code = "500" =>
    /\ \A j \in DOMAIN err : err[j].kind # "client"
    /\ ~ran => \E j \in DOMAIN rules :
                  \/ field.type \notin GoTypes[rules[j].directive]
                  \/ rules[j].pattern = "REGEX" /\ rules[j].regexp # "word"
=============================================================================
