-------------------------------- MODULE Jwt ---------------------------------
(***************************************************************************)
(* wwauth/jwt.go and entra.go: requests that pass a middleware with or     *)
(* without a bearer token.  JwtAuth's checks it and gives the handler the  *)
(* token, whose claims were decoded into what NewClaims returned; the      *)
(* package's own middleware gives it the unchecked text.                   *)
(*                                                                         *)
(* golang-jwt is modelled by its contract: it decodes the claims, asks for *)
(* the key, checks the signature and then the claims, of which a missing   *)
(* time is no fault, nor a wrong issuer or audience if none is expected.   *)
(***************************************************************************)
EXTENDS Integers, Sequences

CONSTANTS Request, Tokens, Keys,
          Now, Leeway,       \* in seconds
          Issuer, Audience,  \* what JwtAuthOpt expects, or Nothing
          Nothing

VARIABLES auth,    \* NewEntraAuth: "starting", "configured", "up" or "failed"
          token,   \* token[r]: of the header, or Nothing
          pc,      \* pc[r]: "new", "decoded", "verified", "claims" and "text" (in a
                   \*        handler behind either middleware), "done", "panicked", "refused"
          heap,    \* heap[p]: the claims at a pointer that NewClaims returned
          answers, \* answers[r]: the errors written to the response
          saw      \* saw[r]: the claims the handler read, or Nothing

vars == <<auth, token, pc, heap, answers, saw>>

Claims == {t.claims : t \in Tokens}
TypeOK == /\ auth \in {"starting", "configured", "up", "failed"}
          /\ token \in [Request -> Tokens \cup {Nothing}]
          /\ pc \in [Request -> {"new", "decoded", "verified", "claims", "text",
                                 "done", "panicked", "refused"}]
          /\ heap \in [Request -> Claims \cup {Nothing}]
          /\ answers \in [Request -> Seq({"JWT has expired", "JWT error"})]
          /\ saw \in [Request -> Claims \cup {Nothing}]

Init == /\ auth = "starting"
        /\ token = [r \in Request |-> Nothing]
        /\ pc = [r \in Request |-> "new"]
        /\ heap = [r \in Request |-> Nothing]
        /\ answers = [r \in Request |-> <<>>]
        /\ saw = [r \in Request |-> Nothing]

-----------------------------------------------------------------------------
(* Start-up: the provider's configuration, then its keys; an error of      *)
(* either is returned, and so is an empty audience.                        *)
GetOidcConfig == /\ auth = "starting"
                 /\ auth' \in IF Audience = Nothing THEN {"failed"} ELSE {"configured", "failed"}
                 /\ UNCHANGED <<token, pc, heap, answers, saw>>

DownloadKeys == /\ auth = "configured"
                /\ auth' \in {"up", "failed"}
                /\ UNCHANGED <<token, pc, heap, answers, saw>>

-----------------------------------------------------------------------------
Goto(r, where) == pc' = [pc EXCEPT ![r] = where]

(* JwtMiddleware: the context has the header's text, empty without one.    *)
ArriveUnchecked(r) == /\ pc[r] = "new"
                      /\ token' \in {[token EXCEPT ![r] = t] : t \in Tokens \cup {Nothing}}
                      /\ Goto(r, "text")
                      /\ UNCHANGED <<auth, heap, answers, saw>>

(* JwtAuth: a request without a token is served without one.               *)
ArriveAnonymous(r) == /\ auth = "up" /\ pc[r] = "new"
                      /\ Goto(r, "claims")
                      /\ UNCHANGED <<auth, token, heap, answers, saw>>

(* Mutant: every request decodes into the same claims.                     *)
SharedClaims(r) == CHOOSE q \in Request : TRUE

NewClaims(r) == r

Decode(r) == /\ auth = "up" /\ pc[r] = "new"
             /\ \E t \in Tokens : /\ token' = [token EXCEPT ![r] = t]
                                  /\ heap' = [heap EXCEPT ![NewClaims(r)] = t.claims]
             /\ Goto(r, "decoded")
             /\ UNCHANGED <<auth, answers, saw>>

Refuse(r, errors) == /\ Goto(r, "refused")
                     /\ answers' = [answers EXCEPT ![r] = errors]
                     /\ UNCHANGED <<auth, token, heap, saw>>

(* A key that names no algorithm takes any.                                *)
IsKeyOf(t, key) == t.kid = key.id /\ key.alg \in {Nothing, t.alg}

KeyOf(t) == {key \in Keys : IsKeyOf(t, key)}
Signed(t) == \E key \in KeyOf(t) : t.signature = <<key.id, t.alg>>

Verify(r) == /\ pc[r] = "decoded" /\ Signed(token[r])
             /\ Goto(r, "verified")
             /\ UNCHANGED <<auth, token, heap, answers, saw>>

(* The signature or the key is wrong, or the keys cannot be had.           *)
VerifyFails(r) == pc[r] = "decoded" /\ Refuse(r, <<"JWT error">>)

Expired(claims) == \E end \in claims.until : Now >= end + Leeway
Early(claims) == \E start \in claims.from : Now < start - Leeway
Expected(claims) == Issuer \in {Nothing, claims.iss} /\ Audience \in {Nothing, claims.aud}

Validate(r) ==
  LET claims == heap[NewClaims(r)]
  IN  /\ pc[r] = "verified"
      /\ \/ /\ ~Expired(claims) /\ ~Early(claims) /\ Expected(claims)
            /\ Goto(r, "claims")
            /\ UNCHANGED <<auth, token, heap, answers, saw>>
         \/ /\ Expired(claims)
            /\ Refuse(r, <<"JWT has expired", "JWT error">>)
         \/ /\ ~Expired(claims) /\ (Early(claims) \/ ~Expected(claims))
            /\ Refuse(r, <<"JWT error">>)

(* The handler reads the claims of the token in its context, if there is   *)
(* one.                                                                    *)
ReadClaims(r) == /\ pc[r] = "claims"
                 /\ saw' = [saw EXCEPT ![r] = IF token[r] = Nothing THEN Nothing
                                              ELSE heap[NewClaims(r)]]
                 /\ Goto(r, "done")
                 /\ UNCHANGED <<auth, token, heap, answers>>

(* JwtFromContext asserts a string, which JwtAuth does not store.          *)
JwtFromContext(r) == /\ pc[r] \in {"claims", "text"}
                     /\ Goto(r, IF pc[r] = "text" THEN "done" ELSE "panicked")
                     /\ UNCHANGED <<auth, token, heap, answers, saw>>

Next == \/ GetOidcConfig \/ DownloadKeys
        \/ \E r \in Request :
             \/ ArriveUnchecked(r) \/ ArriveAnonymous(r) \/ Decode(r) \/ Verify(r)
             \/ VerifyFails(r) \/ Validate(r) \/ ReadClaims(r) \/ JwtFromContext(r)

Spec == Init /\ [][Next]_vars

-----------------------------------------------------------------------------
(* A handler acts on an identity only if it is that of its own request's   *)
(* token, which a key of the provider signed by the key's algorithm, for   *)
(* this issuer and audience and for now, whatever requests run beside it.  *)
Valid(t) == /\ \E key \in Keys : /\ t.signature = <<key.id, t.alg>> /\ t.kid = key.id
                                 /\ key.alg \in {Nothing, t.alg}
            /\ Issuer \in {Nothing, t.claims.iss} /\ Audience \in {Nothing, t.claims.aud}
            /\ \A end \in t.claims.until : Now < end + Leeway
            /\ \A start \in t.claims.from : Now + Leeway >= start

SeenIsSigned ==
  \A r \in Request : saw[r] # Nothing =>
      token[r] # Nothing /\ saw[r] = token[r].claims /\ Valid(token[r])

(* What a request has decoded is its own token's, signed once it is        *)
(* verified and valid once a handler has it.                               *)
TokenIsOwn ==
  \A r \in Request :
    /\ pc[r] \in {"decoded", "verified"} => token[r] \in Tokens /\ heap[r] = token[r].claims
    /\ pc[r] = "verified" => Signed(token[r])
    /\ pc[r] = "claims" /\ token[r] # Nothing =>
         heap[r] = token[r].claims /\ Valid(token[r])
    /\ pc[r] = "new" => token[r] = Nothing

Inductive == TypeOK /\ TokenIsOwn /\ SeenIsSigned
=============================================================================
