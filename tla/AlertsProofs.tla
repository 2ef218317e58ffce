---------------------------- MODULE AlertsProofs -----------------------------
(***************************************************************************)
(* Proofs about wwalert/ and slack.go for any calls, configuration,        *)
(* secrets and retry delays, those included whose product overflows.  The  *)
(* strengthening follows the loop of a sender over its webhooks: those     *)
(* that took the message are in order and before the loop's index, its     *)
(* counter is not above their number, and a sender that returned no error  *)
(* has counted all of its webhooks.                                        *)
(***************************************************************************)
EXTENDS Alerts, SequenceTheorems, TLAPS

StateOK == /\ pc \in [Sender -> {"idle", "config", "resolving", "fetching", "posting", "returned"}]
           /\ category \in [Alert -> DOMAIN Config]
           /\ i \in [Sender -> Nat \ {0}] /\ sent \in [Sender -> Nat]
           /\ failed \in [Sender -> BOOLEAN]
           /\ result \in [Alert -> {"none", "nil", "error"}]
           /\ taken \in [Sender -> Seq(Nat)]

Increasing(t) == \A j, k \in 1..Len(t) : j < k => t[j] < t[k]
Below(t, n) == Len(t) < n /\ \A k \in 1..Len(t) : t[k] < n

LoopOK(s) == /\ Increasing(taken[s]) /\ Below(taken[s], i[s])
             /\ sent[s] <= Len(taken[s])
             /\ i[s] <= Len(ConfigsOf(s)) + 1
             /\ pc[s] = "idle" => i[s] = 1
             /\ pc[s] \in {"resolving", "fetching", "posting"} => i[s] <= Len(ConfigsOf(s))
             /\ pc[s] = "returned" /\ ~failed[s] => sent[s] = Len(ConfigsOf(s))

LoopsOK == \A s \in Sender : LoopOK(s)

ResultsOK ==
  \A a \in Alert, p \in Platform :
    result[a] = "nil" => pc[<<a, p>>] = "returned" /\ ~failed[<<a, p>>]

IInv == StateOK /\ LoopsOK /\ ResultsOK

(* The webhooks of a sender are a sequence.                                *)
LEMMA ConfigsAreSeq ==
  ASSUME StateOK, NEW s \in Sender PROVE ConfigsOf(s) \in Seq(Webhook) /\ Len(ConfigsOf(s)) \in Nat
  <1>1. s[1] \in Alert /\ s[2] \in Platform
    BY DEF Sender
  <1>2. Config[category[s[1]]] \in [Platform -> Seq(Webhook)]
    BY <1>1, AlertsAssumption DEF StateOK
  <1>3. QED BY <1>1, <1>2, LenProperties DEF ConfigsOf

(* A number above all of an increasing sequence can be appended.           *)
LEMMA AppendNext ==
  ASSUME NEW t \in Seq(Nat), NEW n \in Nat, Increasing(t), Below(t, n)
  PROVE  /\ Append(t, n) \in Seq(Nat) /\ Len(Append(t, n)) = Len(t) + 1
         /\ Increasing(Append(t, n)) /\ Below(Append(t, n), n + 1)
  <1> DEFINE u == Append(t, n)
  <1>1. /\ u \in Seq(Nat) /\ Len(u) = Len(t) + 1 /\ u[Len(t) + 1] = n
        /\ \A k \in 1..Len(t) : u[k] = t[k]
    BY AppendProperties
  <1>2. Len(t) \in Nat /\ \A k \in 1..Len(t) : t[k] \in Nat
    BY LenProperties, ElementOfSeq
  <1> HIDE DEF u
  <1>3. \A k \in 1..Len(u) : k \in 1..Len(t) \/ k = Len(t) + 1
    BY <1>1, <1>2
  <1>4. Increasing(u)
    <2> SUFFICES ASSUME NEW j \in 1..Len(u), NEW k \in 1..Len(u), j < k PROVE u[j] < u[k]
      BY DEF Increasing
    <2>1. j \in 1..Len(t) /\ u[j] = t[j]
      BY <1>1, <1>2
    <2>2. CASE k \in 1..Len(t)
      BY <1>1, <2>1, <2>2 DEF Increasing
    <2>3. CASE k = Len(t) + 1
      BY <1>1, <2>1, <2>3 DEF Below
    <2>4. QED BY <1>3, <2>2, <2>3
  <1>5. Below(u, n + 1)
    BY <1>1, <1>2, <1>3 DEF Below
  <1>6. QED BY <1>1, <1>4, <1>5 DEF u

(* No call was made.                                                       *)
LEMMA InitIInv == ASSUME Init PROVE IInv
  <1>1. StateOK
    BY AlertsAssumption DEF Init, StateOK
  <1>2. LoopsOK
    <2> SUFFICES ASSUME NEW s \in Sender PROVE LoopOK(s)
      BY DEF LoopsOK
    <2>1. Len(ConfigsOf(s)) \in Nat
      BY <1>1, ConfigsAreSeq
    <2>2. taken[s] = <<>> /\ i[s] = 1 /\ sent[s] = 0 /\ pc[s] = "idle"
      BY DEF Init
    <2>3. QED BY <2>1, <2>2 DEF LoopOK, Increasing, Below
  <1>3. ResultsOK
    BY DEF Init, ResultsOK
  <1>4. QED BY <1>1, <1>2, <1>3 DEF IInv

(* A sender whose state and category are left alone is as it was.          *)
LEMMA Untouched ==
  ASSUME NEW s \in Sender, LoopOK(s), pc'[s] = pc[s], i'[s] = i[s], sent'[s] = sent[s],
         failed'[s] = failed[s], taken'[s] = taken[s], category'[s[1]] = category[s[1]]
  PROVE  LoopOK(s)'
  BY DEF LoopOK, ConfigsOf, Increasing, Below

(* A step of a sender is a step of no other.                               *)
LEMMA StepOfOne ==
  ASSUME StateOK, NEW s \in Sender, Step(s)
  PROVE  /\ pc[s] \notin {"idle", "returned"}
         /\ UNCHANGED <<category, result>>
         /\ \A q \in Sender \ {s} :
              /\ pc'[q] = pc[q] /\ i'[q] = i[q] /\ sent'[q] = sent[q]
              /\ failed'[q] = failed[q] /\ taken'[q] = taken[q]
  <1> USE DEF StateOK
  <1>1. CASE NextConfig(s)
    BY <1>1 DEF NextConfig, Goto, Return
  <1>2. CASE Finish(s) \/ Fetch(s) \/ FetchFails(s)
    BY <1>2 DEF Finish, Fetch, FetchFails, Goto, Return
  <1>3. CASE ResolveCached(s) \/ Fetched(s)
    BY <1>3 DEF ResolveCached, Fetched, TakeProp, Goto, Return
  <1>4. CASE PostOk(s) \/ PostFails(s)
    BY <1>4 DEF PostOk, PostFails, Takes, Advance, Goto
  <1>5. ASSUME NEW r \in RetryAfter, NEW d \in {0, Timeout}, PostLimited(s, r, d)
        PROVE  /\ pc[s] = "posting" /\ UNCHANGED <<category, result>>
               /\ \A q \in Sender \ {s} :
                    /\ pc'[q] = pc[q] /\ i'[q] = i[q] /\ sent'[q] = sent[q]
                    /\ failed'[q] = failed[q] /\ taken'[q] = taken[q]
    BY <1>5 DEF PostLimited, Advance, Goto
  <1>6. QED BY <1>1, <1>2, <1>3, <1>4, <1>5 DEF Step

(* What a step of a sender does to its own loop.                           *)
LEMMA StepOfLoop ==
  ASSUME StateOK, NEW s \in Sender, LoopOK(s), Step(s)
  PROVE  StateOK' /\ LoopOK(s)'
  <1> USE DEF StateOK, LoopOK
  <1>0. Len(ConfigsOf(s)) \in Nat /\ ConfigsOf(s)' = ConfigsOf(s)
    BY ConfigsAreSeq, StepOfOne DEF ConfigsOf
  <1>1. ASSUME pc[s] \notin {"idle", "returned"}, UNCHANGED <<category, result, i, sent, taken>>,
               \/ failed' = failed /\ \E to \in {"resolving", "fetching", "posting"} :
                                         pc' = [pc EXCEPT ![s] = to] /\ i[s] <= Len(ConfigsOf(s))
               \/ Return(s, TRUE)
               \/ Return(s, FALSE) /\ sent[s] = Len(ConfigsOf(s))
        PROVE  StateOK' /\ LoopOK(s)'
    BY <1>0, <1>1 DEF Return, Goto, Increasing, Below
  <1>2. ASSUME NEW n \in {0, 1}, pc[s] = "posting", Advance(s, n),
               Takes(s) \/ (n = 0 /\ UNCHANGED taken)
        PROVE  StateOK' /\ LoopOK(s)'
    <2>1. /\ pc' = [pc EXCEPT ![s] = "config"]
          /\ i' = [i EXCEPT ![s] = @ + 1] /\ sent' = [sent EXCEPT ![s] = @ + n]
          /\ UNCHANGED <<category, failed, result>>
      BY <1>2 DEF Advance, Goto
    <2>2. /\ taken' \in [Sender -> Seq(Nat)]
          /\ Increasing(taken'[s]) /\ Below(taken'[s], i[s] + 1)
          /\ sent[s] + n <= Len(taken'[s])
      <3>1. CASE Takes(s)
        <4>1. taken'[s] = Append(taken[s], i[s]) /\ i[s] \in Nat /\ taken[s] \in Seq(Nat)
          BY <3>1 DEF Takes
        <4>2. /\ taken'[s] \in Seq(Nat) /\ Len(taken'[s]) = Len(taken[s]) + 1
              /\ Increasing(taken'[s]) /\ Below(taken'[s], i[s] + 1)
          BY <4>1, AppendNext
        <4>3. taken' \in [Sender -> Seq(Nat)]
          BY <3>1, <4>2 DEF Takes
        <4>4. Len(taken[s]) \in Nat
          BY <4>1, LenProperties
        <4>5. QED BY <4>2, <4>3, <4>4
      <3>2. CASE n = 0 /\ UNCHANGED taken
        <4>1. taken[s] \in Seq(Nat) /\ Len(taken[s]) \in Nat /\ \A k \in 1..Len(taken[s]) : taken[s][k] \in Nat
          BY LenProperties, ElementOfSeq
        <4>2. QED BY <3>2, <4>1 DEF Below
      <3>3. QED BY <1>2, <3>1, <3>2
    <2>3. StateOK'
      <3>1. i' \in [Sender -> Nat \ {0}] /\ sent' \in [Sender -> Nat]
        BY <2>1
      <3>2. pc' \in [Sender -> {"idle", "config", "resolving", "fetching", "posting", "returned"}]
        BY <2>1
      <3>3. QED BY <2>1, <2>2, <3>1, <3>2
    <2>4. /\ pc'[s] = "config" /\ i'[s] = i[s] + 1 /\ sent'[s] = sent[s] + n
          /\ i[s] <= Len(ConfigsOf(s)) /\ i[s] \in Nat
      BY <1>2, <2>1
    <2>5. QED BY <1>0, <2>2, <2>3, <2>4
  <1>3. CASE NextConfig(s)
    BY <1>1, <1>3 DEF NextConfig, Goto
  <1>4. CASE Finish(s)
    <2>1. Len(taken[s]) \in Nat
      BY LenProperties
    <2>2. ~(sent[s] < Len(ConfigsOf(s))) => sent[s] = Len(ConfigsOf(s))
      BY <1>0, <2>1 DEF Below
    <2>3. CASE sent[s] < Len(ConfigsOf(s))
      BY <1>1, <1>4, <2>3 DEF Finish
    <2>4. CASE ~(sent[s] < Len(ConfigsOf(s)))
      <3>1. (sent[s] < Len(ConfigsOf(s))) = FALSE
        BY <2>4
      <3>2. Return(s, FALSE)
        BY <1>4, <3>1, Zenon DEF Finish
      <3>3. QED BY <1>1, <1>4, <2>2, <2>4, <3>2 DEF Finish
    <2>5. QED BY <2>3, <2>4
  <1>5. CASE ResolveCached(s) \/ Fetched(s)
    BY <1>1, <1>5 DEF ResolveCached, Fetched, TakeProp, Goto
  <1>6. CASE Fetch(s) \/ FetchFails(s)
    BY <1>1, <1>6 DEF Fetch, FetchFails, Goto
  <1>7. CASE PostOk(s)
    BY <1>2, <1>7 DEF PostOk
  <1>8. CASE PostFails(s)
    BY <1>2, <1>8 DEF PostFails
  <1>9. ASSUME NEW r \in RetryAfter, NEW d \in {0, Timeout}, PostLimited(s, r, d)
        PROVE  StateOK' /\ LoopOK(s)'
    <2>1. CASE Retries(elapsed[s] + d, Delay(r))
      <3>1. UNCHANGED <<pc, category, i, sent, failed, result, taken>>
        BY <1>9, <2>1 DEF PostLimited
      <3>2. QED BY <3>1, Untouched
    <2>2. CASE ~Retries(elapsed[s] + d, Delay(r))
      BY <1>2, <1>9, <2>2 DEF PostLimited
    <2>3. QED BY <2>1, <2>2
  <1>10. QED BY <1>3, <1>4, <1>5, <1>6, <1>7, <1>8, <1>9 DEF Step

(* A call starts both of its senders, which were idle.                     *)
LEMMA SendAlertIInv ==
  ASSUME IInv, NEW a \in Alert, NEW c \in Category, SendAlert(a, c)
  PROVE  IInv'
  <1> USE DEF IInv, StateOK
  <1>1. Chosen(c) \in DOMAIN Config
    BY AlertsAssumption DEF Chosen
  <1>2. \A s \in Sender : s[1] = a => pc[s] = "idle"
    BY DEF SendAlert, Sender
  <1>3. \A s \in Sender : pc'[s] = IF s[1] # a THEN pc[s]
                                   ELSE IF Config[Chosen(c)][s[2]] = <<>> THEN "returned" ELSE "config"
    BY DEF SendAlert
  <1>4. StateOK'
    BY <1>1 DEF SendAlert
  <1>5. LoopsOK'
    <2> SUFFICES ASSUME NEW s \in Sender PROVE LoopOK(s)'
      BY DEF LoopsOK
    <2>1. LoopOK(s) /\ s[1] \in Alert
      BY DEF LoopsOK, Sender
    <2>2. CASE s[1] # a
      BY <1>3, <2>1, <2>2, Untouched DEF SendAlert
    <2>3. CASE s[1] = a
      <3>1. /\ i[s] = 1 /\ UNCHANGED <<i, sent, taken>>
            /\ Increasing(taken[s]) /\ Below(taken[s], 1) /\ sent[s] <= Len(taken[s])
        BY <1>2, <2>1, <2>3 DEF LoopOK, SendAlert
      <3>2. Len(taken[s]) = 0 /\ sent[s] = 0
        BY <3>1, LenProperties DEF Below
      <3>3. ConfigsOf(s)' = Config[Chosen(c)][s[2]]
        BY <2>1, <2>3 DEF SendAlert, ConfigsOf
      <3>4. ConfigsOf(s)' \in Seq(Webhook)
        BY <1>1, <3>3, AlertsAssumption DEF Sender
      <3>5. pc'[s] = IF ConfigsOf(s)' = <<>> THEN "returned" ELSE "config"
        BY <1>3, <2>3, <3>3
      <3>6. Len(ConfigsOf(s)') \in Nat /\ (ConfigsOf(s)' = <<>> => Len(ConfigsOf(s)') = 0)
        BY <3>4, LenProperties
      <3>7. QED BY <3>1, <3>2, <3>5, <3>6 DEF LoopOK
    <2>4. QED BY <2>2, <2>3
  <1>6. ResultsOK'
    BY <1>2, <1>3 DEF ResultsOK, SendAlert, Sender
  <1>7. QED BY <1>4, <1>5, <1>6

(* Every step keeps the invariant.                                         *)
LEMMA StepIInv == IInv /\ [Next]_vars => IInv'
  <1> SUFFICES ASSUME IInv, [Next]_vars PROVE IInv'
    OBVIOUS
  <1>1. CASE UNCHANGED vars
    BY <1>1 DEF vars, IInv, StateOK, LoopsOK, LoopOK, ResultsOK, ConfigsOf, Increasing, Below
  <1>2. ASSUME NEW a \in Alert, NEW c \in Category, SendAlert(a, c) PROVE IInv'
    BY <1>2, SendAlertIInv
  <1>3. ASSUME NEW a \in Alert, SendAlertReturns(a) PROVE IInv'
    <2>1. StateOK' /\ ResultsOK'
      BY <1>3 DEF SendAlertReturns, IInv, StateOK, ResultsOK, Sender
    <2>2. LoopsOK'
      BY <1>3, Untouched DEF SendAlertReturns, IInv, LoopsOK
    <2>3. QED BY <2>1, <2>2 DEF IInv
  <1>4. ASSUME NEW s \in Sender, Step(s) PROVE IInv'
    <2>1. StateOK' /\ LoopOK(s)'
      BY <1>4, StepOfLoop DEF IInv, LoopsOK
    <2>2. \A q \in Sender \ {s} : LoopOK(q)'
      BY <1>4, StepOfOne, Untouched DEF IInv, LoopsOK
    <2>3. ResultsOK'
      <3> SUFFICES ASSUME NEW a \in Alert, NEW p \in Platform, result'[a] = "nil"
                   PROVE  pc'[<<a, p>>] = "returned" /\ ~failed'[<<a, p>>]
        BY DEF ResultsOK
      <3>1. result[a] = "nil" /\ <<a, p>> \in Sender /\ pc[s] # "returned"
        BY <1>4, StepOfOne DEF IInv, Sender
      <3>2. pc[<<a, p>>] = "returned" /\ ~failed[<<a, p>>]
        BY <3>1 DEF IInv, ResultsOK
      <3>3. <<a, p>> \in Sender \ {s}
        BY <3>1, <3>2
      <3>4. pc'[<<a, p>>] = pc[<<a, p>>] /\ failed'[<<a, p>>] = failed[<<a, p>>]
        BY <1>4, <3>3, StepOfOne DEF IInv
      <3>5. QED BY <3>2, <3>4
    <2>4. QED BY <2>1, <2>2, <2>3 DEF IInv, LoopsOK
  <1>5. QED BY <1>1, <1>2, <1>3, <1>4 DEF Next

(* The inductive invariant holds in every behaviour.                       *)
THEOREM Invariance == Spec => []IInv
  <1>1. Init => IInv
    BY InitIInv
  <1>2. QED BY <1>1, StepIInv, PTL DEF Spec

(* No webhook takes a message twice, and they take it in order.            *)
THEOREM OnceAndInOrder == Spec => []InOrderOnce
  <1>1. IInv => InOrderOnce
    BY DEF IInv, LoopsOK, LoopOK, Increasing, InOrderOnce
  <1>2. QED BY <1>1, Invariance, PTL

(* A call that returns nil reached every webhook of its category: each     *)
(* sender counted all of them, counts no more than took the message, and   *)
(* none took it after the loop's index.                                    *)
THEOREM NilIsTrue == Spec => []NilMeansDelivered
  <1>1. IInv => NilMeansDelivered
    <2> SUFFICES ASSUME IInv, NEW a \in Alert, NEW p \in Platform, result[a] = "nil"
                 PROVE  Len(taken[<<a, p>>]) = Len(Config[category[a]][p])
      BY DEF NilMeansDelivered
    <2> DEFINE s == <<a, p>>
    <2>1. s \in Sender /\ s[1] = a /\ s[2] = p
      BY DEF Sender
    <2>2. Len(ConfigsOf(s)) \in Nat /\ ConfigsOf(s) = Config[category[a]][p]
      BY <2>1, ConfigsAreSeq DEF IInv, ConfigsOf
    <2>3. pc[s] = "returned" /\ ~failed[s] /\ LoopOK(s)
      BY <2>1 DEF IInv, LoopsOK, ResultsOK
    <2>4. /\ sent[s] <= Len(taken[s]) /\ Len(taken[s]) < i[s]
          /\ i[s] <= Len(ConfigsOf(s)) + 1 /\ sent[s] = Len(ConfigsOf(s))
      BY <2>3 DEF LoopOK, Below
    <2>5. i[s] \in Nat /\ Len(taken[s]) \in Nat
      BY <2>1, LenProperties DEF IInv, StateOK
    <2> HIDE DEF s
    <2>6. Len(taken[s]) = Len(ConfigsOf(s))
      BY <2>2, <2>4, <2>5
    <2>7. QED BY <2>2, <2>6 DEF s
  <1>2. QED BY <1>1, Invariance, PTL
=============================================================================
