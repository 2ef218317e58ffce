---------------------------- MODULE StripeProofs -----------------------------
(***************************************************************************)
(* Proofs about wwstripe/wwstripe.go for any processes, events, versions   *)
(* and endpoints.  The strengthening: what a migration is about to update  *)
(* is an endpoint of its version, whatever the others made of its events   *)
(* and its state in between (TargetOK), and an event that was answered     *)
(* with 200 was processed, whether or not the answer arrives (AnsweredOK). *)
(***************************************************************************)
EXTENDS Stripe, FiniteSets, FiniteSetTheorems, SequenceTheorems, TLAPS

Stages == {"none", "listing", "updating", "failing", "done"}
Callers == {"idle", "waiting", "released", "has", "panicked"}

TargetOK == \A p \in Process : migration[p] = "updating" =>
              target[p] \in DOMAIN endpoints /\ endpoints[target[p]].version = VersionOf[p]

AnsweredOK == \A e \in Event : delivery[e] \in {"answered", "acked"} => e \in processed

IInv == TypeOK /\ TargetOK /\ AnsweredOK

(* The endpoints under updates: a sequence of the same length in which the *)
(* versions are what they were.                                            *)
LEMMA EndpointsAreSeq ==
  ASSUME TypeOK
  PROVE  /\ endpoints \in Seq(Endpoint) /\ Len(endpoints) \in Nat
         /\ DOMAIN endpoints = 1..Len(endpoints)
         /\ \A n \in DOMAIN endpoints : endpoints[n] \in Endpoint
  <1>1. endpoints \in Seq(Endpoint)
    BY DEF TypeOK
  <1>2. Len(endpoints) \in Nat /\ DOMAIN endpoints = 1..Len(endpoints)
    BY <1>1, LenProperties
  <1>3. \A n \in 1..Len(endpoints) : endpoints[n] \in Endpoint
    BY <1>1, ElementOfSeq
  <1>4. QED BY <1>1, <1>2, <1>3

LEMMA ReplaceEndpoint ==
  ASSUME TypeOK, NEW n \in DOMAIN endpoints, NEW we \in Endpoint,
         we.version = endpoints[n].version, endpoints' = [endpoints EXCEPT ![n] = we]
  PROVE  /\ endpoints' \in Seq(Endpoint) /\ Len(endpoints') = Len(endpoints)
         /\ DOMAIN endpoints' = DOMAIN endpoints
         /\ \A m \in DOMAIN endpoints : endpoints'[m].version = endpoints[m].version
         /\ endpoints'[n] = we
  BY EndpointsAreSeq, ExceptSeq

(* Nothing happened.                                                       *)
LEMMA InitIInv == Init => IInv
  <1> SUFFICES ASSUME Init PROVE IInv
    OBVIOUS
  <1>1. endpoints \in Seq(Endpoint)
    BY StripeAssumption DEF Init
  <1>2. Len(endpoints) \in Nat
    BY <1>1, LenProperties
  <1>3. TypeOK
    BY <1>1, <1>2 DEF Init, TypeOK
  <1>4. QED BY <1>3 DEF Init, IInv, TargetOK, AnsweredOK

(* What a migration's end makes of it and of who waits for it.             *)
LEMMA GoesToIs ==
  ASSUME TypeOK, NEW p \in Process, NEW stage \in Stages, GoesTo(p, stage)
  PROVE  /\ migration' \in [Process -> Stages] /\ migration'[p] = stage
         /\ \A q \in Process \ {p} : migration'[q] = migration[q]
         /\ client' \in [Process -> Callers]
  BY DEF GoesTo, TypeOK, Stages, Callers

(* Each step keeps the invariant.                                          *)
LEMMA StepIInv == IInv /\ [Next]_vars => IInv'
  <1> SUFFICES ASSUME IInv, [Next]_vars PROVE IInv'
    OBVIOUS
  <1>0. /\ TypeOK /\ TargetOK /\ AnsweredOK
        /\ endpoints \in Seq(Endpoint) /\ Len(endpoints) \in Nat
        /\ DOMAIN endpoints = 1..Len(endpoints)
        /\ \A n \in DOMAIN endpoints : endpoints[n] \in Endpoint
    BY EndpointsAreSeq DEF IInv
  <1>a. ASSUME UNCHANGED eventVars
        PROVE  /\ AnsweredOK'
               /\ delivery' \in [Event -> {"pending", "handling", "answered", "acked"}]
               /\ processed' \subseteq Event
    BY <1>0, <1>a DEF eventVars, AnsweredOK, TypeOK
  <1>b. ASSUME UNCHANGED <<endpoints, target, creating>>, UNCHANGED eventVars,
               migration' \in [Process -> Stages], client' \in [Process -> Callers],
               \A p \in Process : migration'[p] = "updating" => migration[p] = "updating"
        PROVE  IInv'
    BY <1>0, <1>a, <1>b DEF IInv, TypeOK, TargetOK, Stages, Callers
  <1>c. ASSUME NEW n \in DOMAIN endpoints, NEW we \in Endpoint,
               we.version = endpoints[n].version, endpoints' = [endpoints EXCEPT ![n] = we],
               UNCHANGED <<target, creating>>, UNCHANGED eventVars,
               migration' \in [Process -> Stages], client' \in [Process -> Callers],
               \A p \in Process : migration'[p] = "updating" => migration[p] = "updating"
        PROVE  IInv'
    <2>1. /\ endpoints' \in Seq(Endpoint) /\ Len(endpoints') = Len(endpoints)
          /\ DOMAIN endpoints' = DOMAIN endpoints
          /\ \A m \in DOMAIN endpoints : endpoints'[m].version = endpoints[m].version
      BY <1>0, <1>c, ReplaceEndpoint
    <2>2. TypeOK'
      BY <1>0, <1>a, <1>c, <2>1 DEF TypeOK, Stages, Callers
    <2>3. TargetOK'
      BY <1>0, <1>c, <2>1 DEF TargetOK, TypeOK
    <2>4. QED BY <1>a, <1>c, <2>2, <2>3 DEF IInv
  <1>1. CASE UNCHANGED vars
    <2>1. migration' = migration /\ client' = client /\ TypeOK
      BY <1>0, <1>1 DEF vars, hookVars
    <2>2. QED BY <1>1, <1>b, <2>1 DEF vars, hookVars, TypeOK, Stages, Callers
  <1>2. ASSUME NEW p \in Process,
               MigrateWebhook(p) \/ Restart(p) \/ Client(p) \/ ClientReturns(p)
        PROVE  IInv'
    <2>1. /\ UNCHANGED <<endpoints, target, creating>> /\ UNCHANGED eventVars
          /\ migration' \in [Process -> Stages] /\ client' \in [Process -> Callers]
      BY <1>0, <1>2 DEF MigrateWebhook, Restart, Client, ClientReturns, TypeOK, Stages, Callers
    <2>2. \A q \in Process : migration'[q] = "updating" => migration[q] = "updating"
      BY <1>0, <1>2 DEF MigrateWebhook, Restart, Client, ClientReturns, TypeOK
    <2>3. QED BY <1>b, <2>1, <2>2
  <1>5. ASSUME NEW p \in Process, UpdateFails(p) \/ OnFailReturns(p)
        PROVE  IInv'
    <2>1. PICK stage \in {"failing", "done"} : GoesTo(p, stage)
      BY <1>5 DEF UpdateFails, OnFailReturns
    <2>2. UNCHANGED <<endpoints, target, creating>> /\ UNCHANGED eventVars
      BY <1>5 DEF UpdateFails, OnFailReturns
    <2>3. stage \in Stages
      BY <2>1 DEF Stages
    <2>4. QED BY <1>0, <1>b, <2>1, <2>2, <2>3, GoesToIs
  <1>3. ASSUME NEW p \in Process, ListWebhookEndpoints(p) PROVE IInv'
    <2>1. /\ GoesTo(p, AfterListing(p))
          /\ target' = [target EXCEPT ![p] = Len(endpoints)]
          /\ UNCHANGED <<endpoints, creating>> /\ UNCHANGED eventVars
      BY <1>3 DEF ListWebhookEndpoints
    <2>a. AfterListing(p) \in Stages
      BY DEF AfterListing, SecretOr, Stages
    <2>2. /\ migration' \in [Process -> Stages] /\ migration'[p] = AfterListing(p)
          /\ \A q \in Process \ {p} : migration'[q] = migration[q]
          /\ client' \in [Process -> Callers]
      BY <1>0, <2>1, <2>a, GoesToIs
    <2>b. target' \in [Process -> 0..Len(endpoints')]
      BY <1>0, <2>1 DEF TypeOK
    <2>3. TypeOK'
      BY <1>0, <1>a, <2>1, <2>2, <2>b DEF TypeOK, Stages, Callers
    <2>4. AfterListing(p) = "updating" => endpoints # <<>> /\ Listed.version = VersionOf[p]
      BY DEF AfterListing, SecretOr
    <2>5. endpoints # <<>> => Len(endpoints) \in DOMAIN endpoints /\ Listed = endpoints[Len(endpoints)]
      BY <1>0, EmptySeq DEF Listed, Last
    <2>6. TargetOK'
      BY <1>0, <2>1, <2>2, <2>4, <2>5 DEF TargetOK, TypeOK
    <2>7. QED BY <1>a, <2>1, <2>3, <2>6 DEF IInv
  <1>4. ASSUME NEW p \in Process, UpdateWebhookEndpoint(p) PROVE IInv'
    <2> DEFINE we == Updated(endpoints[target[p]], p)
    <2>1. target[p] \in DOMAIN endpoints
      BY <1>0, <1>4 DEF UpdateWebhookEndpoint, TargetOK
    <2>2. we \in Endpoint /\ we.version = endpoints[target[p]].version
      BY <1>0, <2>1, StripeAssumption DEF Updated, Endpoint
    <2>3. endpoints' = [endpoints EXCEPT ![target[p]] = we]
      BY <1>4 DEF UpdateWebhookEndpoint
    <2>4. /\ GoesTo(p, SecretOr(p)) /\ SecretOr(p) \in Stages /\ SecretOr(p) # "updating"
          /\ UNCHANGED <<target, creating>> /\ UNCHANGED eventVars
      BY <1>4 DEF UpdateWebhookEndpoint, SecretOr, Stages
    <2>5. /\ migration' \in [Process -> Stages] /\ client' \in [Process -> Callers]
          /\ \A q \in Process : migration'[q] = "updating" => migration[q] = "updating"
      BY <1>0, <2>4, GoesToIs
    <2> HIDE DEF we
    <2>6. QED BY <1>0, <1>c, <2>1, <2>2, <2>3, <2>4, <2>5
  <1>6. ASSUME NEW p \in Process, CreateWebhook(p) \/ NewWebhookFails(p) PROVE IInv'
    BY <1>0, <1>6, <1>a DEF CreateWebhook, NewWebhookFails, IInv, TypeOK, TargetOK
  <1>7. ASSUME NEW p \in Process, NewWebhookEndpoint(p) PROVE IInv'
    <2> DEFINE we == [enabled |-> TRUE, events |-> EventsOf[p], version |-> VersionOf[p]]
    <2>1. we \in Endpoint
      BY StripeAssumption DEF Endpoint
    <2>2. /\ endpoints' = Append(endpoints, we) /\ creating' = creating \ {p}
          /\ UNCHANGED <<migration, target, client>> /\ UNCHANGED eventVars
      BY <1>7 DEF NewWebhookEndpoint
    <2> HIDE DEF we
    <2>3. /\ endpoints' \in Seq(Endpoint) /\ Len(endpoints') = Len(endpoints) + 1
          /\ \A m \in DOMAIN endpoints : m \in DOMAIN endpoints' /\ endpoints'[m] = endpoints[m]
      BY <1>0, <2>1, <2>2, AppendProperties, LenProperties
    <2>4. TypeOK'
      BY <1>0, <1>a, <2>2, <2>3 DEF TypeOK
    <2>5. TargetOK'
      BY <1>0, <2>2, <2>3 DEF TargetOK
    <2>6. QED BY <1>a, <2>2, <2>4, <2>5 DEF IInv
  <1>8. ASSUME NEW n \in DOMAIN endpoints, Disable(n) PROVE IInv'
    <2> DEFINE we == [endpoints[n] EXCEPT !.enabled = FALSE]
    <2>1. we \in Endpoint /\ we.version = endpoints[n].version
      BY <1>0 DEF Endpoint
    <2>2. endpoints' = [endpoints EXCEPT ![n] = we]
      BY <1>8 DEF Disable
    <2>3. UNCHANGED <<migration, target, creating, client>> /\ UNCHANGED eventVars
      BY <1>8 DEF Disable
    <2> HIDE DEF we
    <2>4. migration' \in [Process -> Stages] /\ client' \in [Process -> Callers]
      BY <1>0, <2>3 DEF TypeOK, Stages, Callers
    <2>5. QED BY <1>0, <1>c, <2>1, <2>2, <2>3, <2>4
  <1>9. ASSUME NEW e \in Event, Deliver(e) \/ WebhookProcessed(e) \/ WebhookFails(e) \/ Answer(e)
        PROVE  IInv'
    <2>1. UNCHANGED <<endpoints, migration, target, creating, client>>
      BY <1>9 DEF Deliver, WebhookProcessed, WebhookFails, Answer, hookVars
    <2>2. /\ AnsweredOK' /\ processed' \subseteq Event
          /\ delivery' \in [Event -> {"pending", "handling", "answered", "acked"}]
      BY <1>0, <1>9 DEF Deliver, WebhookProcessed, WebhookFails, Answer, AnsweredOK, TypeOK
    <2>3. QED BY <1>0, <2>1, <2>2 DEF IInv, TypeOK, TargetOK
  <1>10. QED
    BY <1>1, <1>2, <1>3, <1>4, <1>5, <1>6, <1>7, <1>8, <1>9 DEF Next, Migration

(* The inductive invariant holds in every behaviour.                       *)
THEOREM Invariance == Spec => []IInv
  BY InitIInv, StepIInv, PTL DEF Spec

(* The state keeps its type.                                               *)
THEOREM Typing == Spec => []TypeOK
  BY Invariance, PTL DEF IInv

(* What Stripe takes for delivered was processed.                          *)
THEOREM AckedWasProcessed == Spec => []AckedIsProcessed
  <1>1. IInv => AckedIsProcessed
    BY DEF IInv, AnsweredOK, AckedIsProcessed
  <1>2. QED BY <1>1, Invariance, PTL

-----------------------------------------------------------------------------
(* eventsMatch compares lengths, and looks up the events of one list in    *)
(* the other.  That makes the lists equal as sets if the first one names   *)
(* no event twice; <<x, x>> matches <<x, y>>.                              *)
LEMMA MatchMeansSame ==
  ASSUME NEW S, NEW a \in Seq(S), NEW T, NEW b \in Seq(T), EventsMatch(a, b), IsInjective(a)
  PROVE  ToSet(a) = ToSet(b)
  <1> DEFINE n == Len(a)
             B == ToSet(b)
  <1>1. n \in Nat /\ DOMAIN a = 1..n /\ DOMAIN b = 1..n
    BY LenProperties DEF EventsMatch
  <1>2. /\ a \in [1..n -> B] /\ b \in [1..n -> B]
        /\ \A y \in B : \E k \in 1..n : b[k] = y
    <2>1. \A k \in 1..n : a[k] \in B /\ b[k] \in B
      BY <1>1 DEF ToSet, EventsMatch
    <2>2. a \in [1..n -> S] /\ b \in [1..n -> T]
      BY <1>1, LenProperties
    <2>3. \A y \in B : \E k \in 1..n : b[k] = y
      BY <1>1 DEF ToSet
    <2>4. QED BY <2>1, <2>2, <2>3
  <1>3. IsFiniteSet(1..n) /\ Cardinality(1..n) = n
    BY <1>1, FS_Interval
  <1> HIDE DEF n, B
  <1>4. IsFiniteSet(B) /\ Cardinality(B) <= n /\ Cardinality(B) \in Nat
    <2>1. b \in Surjection(1..n, B)
      BY <1>2 DEF Surjection
    <2>2. QED BY <1>3, <2>1, FS_Surjection, FS_CardinalityType
  <1>5. a \in Injection(1..n, B)
    BY <1>2 DEF Injection
  <1>6. a \in Surjection(1..n, B)
    <2>1. n <= Cardinality(B) /\ (n = Cardinality(B) <=> a \in Surjection(1..n, B))
      BY <1>3, <1>4, <1>5, FS_Injection
    <2>2. QED BY <1>1, <1>4, <2>1
  <1>7. \A y \in B : \E k \in 1..n : a[k] = y
    BY <1>6 DEF Surjection
  <1>8. ToSet(a) = B
    BY <1>1, <1>2, <1>7 DEF ToSet
  <1>9. QED BY <1>8 DEF B

(* No list names an event twice.                                           *)
ListsAreSets == \A list \in EventTypes : IsInjective(list)

(* What a migration that ends well has found or made.                      *)
LEMMA DoneStep ==
  ASSUME ListsAreSets, IInv, [Next]_vars, NEW p \in Process,
         migration[p] \in {"listing", "updating"}, migration'[p] = "done"
  PROVE  \E we \in ToSet(endpoints') : /\ we.enabled /\ we.version = VersionOf[p]
                                       /\ ToSet(we.events) = ToSet(EventsOf[p])
  <1>0. /\ TypeOK /\ TargetOK /\ endpoints \in Seq(Endpoint) /\ Len(endpoints) \in Nat
        /\ DOMAIN endpoints = 1..Len(endpoints)
        /\ \A n \in DOMAIN endpoints : endpoints[n] \in Endpoint
    BY EndpointsAreSeq DEF IInv
  <1>1. ListWebhookEndpoints(p) \/ UpdateWebhookEndpoint(p)
    <2>1. CASE migration' = migration
      BY <2>1
    <2>2. ASSUME NEW q \in Process, MigrateWebhook(q) \/ Restart(q) \/ UpdateFails(q)
          PROVE  FALSE
      BY <1>0, <2>2 DEF TypeOK, MigrateWebhook, Restart, UpdateFails, GoesTo
    <2>3. ASSUME NEW q \in Process, OnFailReturns(q)
          PROVE  FALSE
      BY <1>0, <2>3 DEF TypeOK, OnFailReturns, GoesTo
    <2>4. ASSUME NEW q \in Process, ListWebhookEndpoints(q) \/ UpdateWebhookEndpoint(q)
          PROVE  q = p
      BY <1>0, <2>4 DEF TypeOK, ListWebhookEndpoints, UpdateWebhookEndpoint, GoesTo
    <2>5. QED
      BY <2>1, <2>2, <2>3, <2>4
      DEF Next, Migration, Client, ClientReturns, CreateWebhook, NewWebhookEndpoint,
          NewWebhookFails, Disable, Deliver, WebhookProcessed, WebhookFails, Answer,
          hookVars, vars
  <1>2. CASE UpdateWebhookEndpoint(p)
    <2> DEFINE n == target[p]
               we == Updated(endpoints[n], p)
    <2>1. n \in DOMAIN endpoints /\ endpoints[n].version = VersionOf[p]
      BY <1>0, <1>2 DEF UpdateWebhookEndpoint, TargetOK
    <2>2. /\ we \in Endpoint /\ we.version = endpoints[n].version
          /\ we.enabled /\ we.events = EventsOf[p]
      BY <1>0, <2>1, StripeAssumption DEF Updated, Endpoint
    <2>3. endpoints' = [endpoints EXCEPT ![n] = we]
      BY <1>2 DEF UpdateWebhookEndpoint
    <2> HIDE DEF n, we
    <2>4. n \in DOMAIN endpoints' /\ endpoints'[n] = we
      BY <1>0, <2>1, <2>2, <2>3, ReplaceEndpoint
    <2>5. we \in ToSet(endpoints')
      BY <2>4 DEF ToSet
    <2>6. QED BY <2>1, <2>2, <2>5
  <1>3. CASE ListWebhookEndpoints(p)
    <2>1. endpoints' = endpoints /\ AfterListing(p) = "done"
      BY <1>0, <1>3 DEF ListWebhookEndpoints, GoesTo, TypeOK
    <2>2. endpoints # <<>> /\ Subscribed(p, Listed)
      BY <2>1 DEF AfterListing
    <2>3. Len(endpoints) \in DOMAIN endpoints /\ Listed = endpoints[Len(endpoints)]
      BY <1>0, <2>2, EmptySeq DEF Listed, Last
    <2>4. Listed \in ToSet(endpoints') /\ Listed \in Endpoint
      BY <1>0, <2>1, <2>3 DEF ToSet
    <2>5. Listed.events \in EventTypes /\ EventsOf[p] \in EventTypes
      BY <2>4, StripeAssumption DEF Endpoint
    <2>6. ToSet(Listed.events) = ToSet(EventsOf[p])
      BY <2>2, <2>5, MatchMeansSame, StripeAssumption DEF Subscribed, ListsAreSets
    <2>7. QED BY <2>2, <2>4, <2>6 DEF Subscribed
  <1>4. QED BY <1>1, <1>2, <1>3

(* A migration that ends without onFail leaves an endpoint that is enabled *)
(* for the events and the version of its process, whatever the others did  *)
(* between its two requests, if no list names an event twice.              *)
THEOREM MigrationSubscribes ==
  ASSUME ListsAreSets PROVE Spec => DoneMeansSubscribed
  <1> DEFINE P == \A p \in Process : migration[p] \in {"listing", "updating"} /\ migration'[p] = "done" =>
                    \E we \in ToSet(endpoints') : /\ we.enabled /\ we.version = VersionOf[p]
                                                  /\ ToSet(we.events) = ToSet(EventsOf[p])
  <1>1. IInv /\ [Next]_vars => [P]_vars
    BY DoneStep
  <1>2. Spec => [][P]_vars
    BY <1>1, Invariance, PTL DEF Spec
  <1>3. QED BY <1>2 DEF DoneMeansSubscribed
=============================================================================
