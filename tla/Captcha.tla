------------------------------ MODULE Captcha -------------------------------
(***************************************************************************)
(* wwhttp/recaptcha.go and turnstile.go: a form is let through if Google   *)
(* or Cloudflare says of the token that came with it that its sender is no *)
(* robot, and what the token was made for.                                 *)
(***************************************************************************)
EXTENDS Integers

CONSTANTS Action,          \* the actions that a token may be for
          Host, Trusted,   \* the sites that a Turnstile token may be from
          Score, MinScore,
          Nothing          \* a field that the service leaves out

VARIABLES form,      \* [tokens, action]: which tokens came, for what
          asked,     \* "nobody", or which token was sent to its service
          reply,     \* [arrives, body], or Nothing
          result     \* "none", "ok", "refused", "error" or "panicked"

vars == <<form, asked, reply, result>>

Services == {"turnstile", "v2", "v3"}
Forms == [tokens : {{}, {"turnstile"}, {"v2"}, {"v3"}, {"v2", "v3"}}, action : Action]
Bodies == [success : BOOLEAN, action : Action \cup {Nothing}, score : Score,
           host : Host \cup {Nothing}]
Arrivals == {"whole", "with a bad status", "with an error at its end", "cut", "never"}
Replies == [arrives : Arrivals, body : Bodies]
TypeOK == /\ form \in Forms
          /\ asked \in Services \cup {"nobody"}
          /\ reply \in Replies \cup {Nothing}
          /\ result \in {"none", "ok", "refused", "error", "panicked"}

Init == form \in Forms /\ asked = "nobody" /\ reply = Nothing /\ result = "none"

(* VerifyReCaptchaTokensFromContext asks about V2 if there is one: a low   *)
(* score of V3 sends the user there.                                       *)
Chosen(tokens) == IF "v2" \in tokens THEN "v2" ELSE CHOOSE t \in tokens : TRUE

MissingToken == /\ form.tokens = {} /\ result = "none"
                /\ result' = "refused"
                /\ UNCHANGED <<form, asked, reply>>

Ask == /\ form.tokens # {} /\ asked = "nobody"
       /\ asked' = Chosen(form.tokens)
       /\ reply' \in Replies
       /\ UNCHANGED <<form, result>>

(* The error of a reCAPTCHA request is overwritten by that of parsing, so  *)
(* only what was read counts; Turnstile's are all looked at.               *)
Readable == IF asked = "turnstile" THEN {"whole"}
            ELSE {"whole", "with a bad status", "with an error at its end"}

(* Mutant: the action of a V3 token is not compared.                       *)
AnyAction(body) == body.success /\ body.score >= MinScore

V3Passes(body) == body.success /\ body.action = form.action /\ body.score >= MinScore

(* A nil action or hostname is dereferenced to log it.                     *)
TurnstileResult(body) ==
  CASE ~body.success -> "refused"
    [] body.success /\ body.action = Nothing -> "panicked"
    [] body.success /\ body.action \in Action \ {form.action} -> "refused"
    [] body.success /\ body.action = form.action ->
         IF body.host = Nothing THEN "panicked"
         ELSE IF body.host \in Trusted THEN "ok" ELSE "refused"

Verdict(body) == CASE asked = "v2" -> IF body.success THEN "ok" ELSE "refused"
                   [] asked = "v3" -> IF V3Passes(body) THEN "ok" ELSE "refused"
                   [] asked = "turnstile" -> TurnstileResult(body)

Judge == /\ asked # "nobody" /\ result = "none"
         /\ result' = IF reply.arrives \in Readable THEN Verdict(reply.body) ELSE "error"
         /\ UNCHANGED <<form, asked, reply>>

Next == MissingToken \/ Ask \/ Judge
Spec == Init /\ [][Next]_vars

-----------------------------------------------------------------------------
(* Who passes gave a token of which its service said, in a body that was   *)
(* read to its end, that it is good, for this action unless it is V2's,    *)
(* and of a sufficient score or a trusted site; and a check panics only    *)
(* over a reply without a field that a good token's has.                   *)
PassedIsVouched ==
  /\ result = "ok" =>
       /\ asked \in form.tokens /\ reply.arrives \notin {"cut", "never"}
       /\ reply.body.success
       /\ asked # "v2" => reply.body.action = form.action
       /\ asked = "v3" => reply.body.score >= MinScore
       /\ asked = "turnstile" => reply.body.host \in Trusted
  /\ result = "panicked" =>
       asked = "turnstile" /\ Nothing \in {reply.body.action, reply.body.host}

(* One of the form's tokens was asked about before there is a verdict.     *)
AskedIsOfForm == /\ asked # "nobody" => asked \in form.tokens /\ reply \in Replies
                 /\ result \in {"ok", "panicked"} => asked # "nobody"

Inductive == TypeOK /\ AskedIsOfForm /\ PassedIsVouched
=============================================================================
