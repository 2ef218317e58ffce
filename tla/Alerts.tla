------------------------------- MODULE Alerts -------------------------------
(***************************************************************************)
(* wwalert/ and slack.go: ConfigAlerter.SendAlert runs a Slack and an MS   *)
(* Teams alerter side by side.  Each goes through its configured webhooks  *)
(* in turn: it resolves the URL, which may be an AWS secret that is kept   *)
(* in a process-wide cache under a mutex, and posts the message, again     *)
(* when the service answers 429, for two minutes at most.  A sender is one *)
(* alerter of one call.  The two alerters and their retry loops have the   *)
(* same control.  Time is counted from the first attempt of each post.     *)
(***************************************************************************)
EXTENDS Integers, Sequences, FiniteSets

CONSTANTS Alert,          \* the calls of ConfigAlerter.SendAlert
          Secret,         \* ids of AWS secrets
          Category,       \* the categories a caller may name
          Config,         \* Config[c][p]: the webhooks of category c
          Default,        \* the key of the default configuration
          RetryAfter,     \* the values of the header, 0 when absent or no number
          Second,         \* the unit of a duration (nanoseconds in the code)
          Half            \* durations wrap into -Half..Half-1

Platform == {"slack", "msteams"}
Sender == Alert \X Platform

(* Of a webhook: a URL, a prop of a secret, a prop the secret lacks.       *)
Webhook == [kind : {"url", "undefined"}] \cup [kind : {"prop", "noProp"}, secret : Secret]

MaxAttemptDuration == 4 * Second   \* 2 minutes; the unit is 30 seconds
Timeout == Second                  \* of the http.Client

ASSUME AlertsAssumption ==
  /\ Default \in DOMAIN Config
  /\ \A c \in DOMAIN Config : Config[c] \in [Platform -> Seq(Webhook)]
  /\ RetryAfter \subseteq Int
  /\ Second \in Nat \ {0} /\ Half > MaxAttemptDuration + Timeout

VARIABLES pc,          \* pc[s]: "idle", "config", "resolving", "fetching",
                       \* "posting" or "returned"
          category,    \* category[a]: as the call chose it
          i, sent,     \* the loop's index and counter
          elapsed,     \* elapsed[s]: time.Since(firstAttemptAt)
          failed,      \* failed[s]: the sender returned an error
          result,      \* result[a]: "none" yet, "nil" or "error"
          cached,      \* the secrets in cachedSecrets
          taken        \* history: taken[s]: the webhooks that took the message

vars == <<pc, category, i, sent, elapsed, failed, result, cached, taken>>

Chosen(c) == IF c \in DOMAIN Config THEN c ELSE Default
ConfigsOf(s) == Config[category[s[1]]][s[2]]
MaxLen == CHOOSE n \in 0..9 : /\ \A c \in DOMAIN Config, p \in Platform : Len(Config[c][p]) <= n
                              /\ \E c \in DOMAIN Config, p \in Platform : Len(Config[c][p]) = n

TypeOK == /\ pc \in [Sender -> {"idle", "config", "resolving", "fetching", "posting", "returned"}]
          /\ category \in [Alert -> DOMAIN Config]
          /\ i \in [Sender -> 1..MaxLen + 1] /\ sent \in [Sender -> 0..MaxLen]
          /\ elapsed \in [Sender -> 0..MaxAttemptDuration]
          /\ failed \in [Sender -> BOOLEAN]
          /\ result \in [Alert -> {"none", "nil", "error"}]
          /\ cached \subseteq Secret
          /\ \A s \in Sender : taken[s] \in Seq(1..MaxLen)

Init == /\ pc = [s \in Sender |-> "idle"]
        /\ category = [a \in Alert |-> Default]
        /\ i = [s \in Sender |-> 1] /\ sent = [s \in Sender |-> 0]
        /\ elapsed = [s \in Sender |-> 0]
        /\ failed = [s \in Sender |-> FALSE]
        /\ result = [a \in Alert |-> "none"]
        /\ cached = {}
        /\ taken = [s \in Sender |-> <<>>]

Goto(s, label) == pc' = [pc EXCEPT ![s] = label]
Return(s, err) == Goto(s, "returned") /\ failed' = [failed EXCEPT ![s] = err]

-----------------------------------------------------------------------------
(* An alerter without webhooks is not started.                             *)
SendAlert(a, c) ==
  /\ \A p \in Platform : pc[<<a, p>>] = "idle"
  /\ category' = [category EXCEPT ![a] = Chosen(c)]
  /\ pc' = [s \in Sender |-> IF s[1] # a THEN pc[s]
                             ELSE IF Config[Chosen(c)][s[2]] = <<>> THEN "returned" ELSE "config"]
  /\ UNCHANGED <<i, sent, elapsed, failed, result, cached, taken>>

(* The head of the loop, with a webhook left.                              *)
NextConfig(s) ==
  /\ pc[s] = "config" /\ i[s] <= Len(ConfigsOf(s))
  /\ CASE ConfigsOf(s)[i[s]].kind = "url" -> Goto(s, "posting") /\ UNCHANGED failed
       [] ConfigsOf(s)[i[s]].kind = "undefined" -> Return(s, TRUE)
       [] OTHER -> Goto(s, "resolving") /\ UNCHANGED failed
  /\ UNCHANGED <<category, i, sent, elapsed, result, cached, taken>>

(* Every webhook was tried: an error unless all took the message.          *)
Finish(s) ==
  /\ pc[s] = "config" /\ i[s] > Len(ConfigsOf(s))
  /\ Return(s, sent[s] < Len(ConfigsOf(s)))
  /\ UNCHANGED <<category, i, sent, elapsed, result, cached, taken>>

-----------------------------------------------------------------------------
MutexIsFree == \A s \in Sender : pc[s] # "fetching"
SecretOf(s) == ConfigsOf(s)[i[s]].secret

(* The prop of a secret that is cached; a missing one ends the sender.     *)
TakeProp(s) == IF ConfigsOf(s)[i[s]].kind = "prop" THEN Goto(s, "posting") /\ UNCHANGED failed
               ELSE Return(s, TRUE)

ResolveCached(s) == /\ pc[s] = "resolving" /\ MutexIsFree /\ SecretOf(s) \in cached
                    /\ TakeProp(s)
                    /\ UNCHANGED <<category, i, sent, elapsed, result, cached, taken>>

Fetch(s) == /\ pc[s] = "resolving" /\ MutexIsFree /\ SecretOf(s) \notin cached
            /\ Goto(s, "fetching")
            /\ UNCHANGED <<category, i, sent, elapsed, failed, result, cached, taken>>

Fetched(s) == /\ pc[s] = "fetching"
              /\ cached' = cached \cup {SecretOf(s)}
              /\ TakeProp(s)
              /\ UNCHANGED <<category, i, sent, elapsed, result, taken>>

(* The session, the request or the decoding fails: nothing is cached, and  *)
(* the sender gives up with the webhooks after this one untried.           *)
FetchFails(s) == /\ pc[s] = "fetching"
                 /\ Return(s, TRUE)
                 /\ UNCHANGED <<category, i, sent, elapsed, result, cached, taken>>

-----------------------------------------------------------------------------
Advance(s, n) == /\ Goto(s, "config")
                 /\ i' = [i EXCEPT ![s] = @ + 1]
                 /\ sent' = [sent EXCEPT ![s] = @ + n]
                 /\ elapsed' = [elapsed EXCEPT ![s] = 0]
                 /\ UNCHANGED <<category, failed, result, cached>>

Takes(s) == taken' = [taken EXCEPT ![s] = Append(@, i[s])]

PostOk(s) == /\ pc[s] = "posting"
             /\ Takes(s) /\ Advance(s, 1)

(* Mutant: the counter is moved before the error is looked at.             *)
FailureCounts(s) == /\ pc[s] = "posting"
                    /\ Takes(s) \/ UNCHANGED taken
                    /\ Advance(s, 1)

(* Mutant: a post that timed out is repeated.                              *)
FailureRepeats(s) == /\ pc[s] = "posting"
                     /\ Takes(s)
                     /\ UNCHANGED <<pc, category, i, sent, elapsed, failed, result, cached>>

(* An error or another status.  The service may have taken the message and *)
(* only its answer be lost.                                                *)
PostFails(s) == /\ pc[s] = "posting"
                /\ Takes(s) \/ UNCHANGED taken
                /\ Advance(s, 0)

Seconds(r) == IF r = 0 THEN 1 ELSE r

(* time.Duration(retryAfter) * time.Second, in an int64.                   *)
Delay(r) == ((Seconds(r) * Second + Half) % (2 * Half)) - Half

Retries(since, delay) == since + delay <= MaxAttemptDuration

(* Sleeping a negative duration takes no time.                             *)
Slept(delay) == IF delay > 0 THEN delay ELSE 0

(* Mutant: firstAttemptAt is read again for every attempt.                 *)
LimitedAnew(s, r, d) ==
  /\ pc[s] = "posting"
  /\ IF Retries(d, Delay(r))
     THEN /\ elapsed' = [elapsed EXCEPT ![s] = d + Slept(Delay(r))]
          /\ UNCHANGED <<pc, category, i, sent, failed, result, cached>>
     ELSE Advance(s, 0)
  /\ UNCHANGED taken

(* 429, d after the post was started.                                      *)
PostLimited(s, r, d) ==
  /\ pc[s] = "posting"
  /\ IF Retries(elapsed[s] + d, Delay(r))
     THEN /\ elapsed' = [elapsed EXCEPT ![s] = @ + d + Slept(Delay(r))]
          /\ UNCHANGED <<pc, category, i, sent, failed, result, cached>>
     ELSE Advance(s, 0)
  /\ UNCHANGED taken

-----------------------------------------------------------------------------
(* gos.Wait: the call returns when both alerters have.                     *)
SendAlertReturns(a) ==
  /\ result[a] = "none" /\ \A p \in Platform : pc[<<a, p>>] = "returned"
  /\ result' = [result EXCEPT ![a] = IF \E p \in Platform : failed[<<a, p>>]
                                     THEN "error" ELSE "nil"]
  /\ UNCHANGED <<pc, category, i, sent, elapsed, failed, cached, taken>>

Step(s) == \/ NextConfig(s) \/ Finish(s)
           \/ ResolveCached(s) \/ Fetch(s) \/ Fetched(s) \/ FetchFails(s)
           \/ PostOk(s) \/ PostFails(s)
           \/ \E r \in RetryAfter, d \in {0, Timeout} : PostLimited(s, r, d)

Next == \/ \E a \in Alert : SendAlertReturns(a) \/ \E c \in Category : SendAlert(a, c)
        \/ \E s \in Sender : Step(s)

Spec == Init /\ [][Next]_vars

(* Requests are answered or time out.                                      *)
FairSpec == /\ Spec
            /\ \A s \in Sender : WF_vars(Step(s))
            /\ \A a \in Alert : WF_vars(SendAlertReturns(a))

-----------------------------------------------------------------------------
(* A call that returns nil reached every webhook of its category, of both  *)
(* platforms, through all skips, failures and early returns.               *)
NilMeansDelivered ==
  \A a \in Alert, p \in Platform : result[a] = "nil" =>
    Len(taken[<<a, p>>]) = Len(Config[category[a]][p])

(* No webhook takes the message of a call twice, though posts are repeated *)
(* and answers get lost; and they take it in the order of the file.        *)
InOrderOnce ==
  \A s \in Sender : \A j, k \in 1..Len(taken[s]) : j < k => taken[s][j] < taken[s][k]

(* Every call returns, whatever the services answer.                       *)
CallsReturn ==
  \A a \in Alert : (\E p \in Platform : pc[<<a, p>>] # "idle") ~> result[a] # "none"
=============================================================================
