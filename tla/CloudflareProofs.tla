-------------------------- MODULE CloudflareProofs --------------------------
(***************************************************************************)
(* Proofs about wwhttp/getter.go and wwhttp/cloudflare.go for any          *)
(* goroutines, interval, versions, ranges and routes.  Of the Getter, the  *)
(* strengthening says what the mutex gives a request in flight: nobody     *)
(* checks in between, so its clock reading is the latest one (InFlightOK). *)
(* The middleware implements the Getter's specification, so what is proved *)
(* of the Getter holds under it; CfIInv adds what a document was worth     *)
(* when it was handed out, and that its holder keeps it until it is done.  *)
(***************************************************************************)
EXTENDS Cloudflare, TLAPS

InFlightOK ==
  \A g \in Goroutine : pc[g] = "requesting" =>
    /\ lastChecked <= called[g]
    /\ \A h \in Goroutine : pc[h] = "requesting" => h = g

TimesOK == /\ lastChecked <= now /\ \A g \in Goroutine : called[g] <= now
           /\ cache = None => lastChecked = 0

Versions == cache # None => cache <= origin

IInv == TypeOK /\ TagMatchesCache /\ StaleIsBounded /\ InFlightOK /\ TimesOK /\ Versions

USE GetterAssumption DEF None, Version

(* It holds before the first call.                                         *)
LEMMA InitIInv == Init => IInv
  BY DEF Init, IInv, TypeOK, TagMatchesCache, StaleIsBounded, InFlightOK, TimesOK, Versions

(* Each step keeps the invariant, and no step turns lastChecked back.      *)
LEMMA StepIInv == IInv /\ [Next]_vars => IInv' /\ lastChecked' >= lastChecked
  <1> SUFFICES ASSUME IInv, [Next]_vars PROVE IInv' /\ lastChecked' >= lastChecked
    OBVIOUS
  <1> USE DEF IInv, TypeOK, TagMatchesCache, StaleIsBounded, InFlightOK, TimesOK, Versions,
              cacheVars, callVars
  <1>1. CASE Tick
    <2>1. now' \in 1..MaxTime /\ now' >= now
      BY <1>1 DEF Tick
    <2>2. UNCHANGED <<origin, replacedAt, cache, etag, lastChecked, pc, called, got, failed>>
      BY <1>1 DEF Tick
    <2>3. QED BY <2>1, <2>2
  <1>2. CASE Publish
    <2>1. /\ origin' = origin + 1 /\ origin' \in Version
          /\ replacedAt' = [replacedAt EXCEPT ![origin] = now]
          /\ UNCHANGED <<now, cache, etag, lastChecked, pc, called, got, failed>>
      BY <1>2 DEF Publish
    <2>2. TypeOK' /\ TagMatchesCache' /\ InFlightOK' /\ TimesOK' /\ Versions'
      BY <2>1
    <2>3. StaleIsBounded'
      BY <2>1
    <2>4. QED BY <2>1, <2>2, <2>3
  <1>3. ASSUME NEW g \in Goroutine, GetJson(g)
        PROVE  IInv' /\ lastChecked' >= lastChecked
    BY <1>3 DEF GetJson
  <1>4. ASSUME NEW g \in Goroutine, ReturnCached(g) \/ RequestFails(g) \/ FallBack(g)
        PROVE  IInv' /\ lastChecked' >= lastChecked
    <2>1. /\ pc' = [pc EXCEPT ![g] = "returned"]
          /\ got' \in [Goroutine -> Version \cup {None}]
          /\ failed' \in [Goroutine -> BOOLEAN]
          /\ UNCHANGED <<now, origin, replacedAt, called, cache, etag, lastChecked>>
      <3>1. CASE ReturnCached(g) \/ RequestFails(g)
        BY <3>1 DEF ReturnCached, RequestFails, Return
      <3>2. CASE FallBack(g)
        <4>1. PICK v \in {None, origin} : Return(g, v, FALSE)
          BY <3>2 DEF FallBack
        <4>2. [got EXCEPT ![g] = v] \in [Goroutine -> Version \cup {None}]
          OBVIOUS
        <4>3. QED BY <3>2, <4>1, <4>2 DEF FallBack, Return
      <3>3. QED BY <1>4, <3>1, <3>2
    <2>2. QED BY <2>1
  <1>5. ASSUME NEW g \in Goroutine, Request(g)
        PROVE  IInv' /\ lastChecked' >= lastChecked
    BY <1>5 DEF Request, MutexIsFree, Recent
  <1>6. ASSUME NEW g \in Goroutine, Downloaded(g)
        PROVE  IInv' /\ lastChecked' >= lastChecked
    <2>1. /\ pc' = [pc EXCEPT ![g] = "returned"] /\ pc[g] = "requesting"
          /\ got' = [got EXCEPT ![g] = origin]
          /\ failed' = [failed EXCEPT ![g] = FALSE]
          /\ UNCHANGED <<now, origin, replacedAt, called>>
          /\ cache' = origin /\ etag' \in {origin, NoTag} /\ lastChecked' = called[g]
      BY <1>6 DEF Downloaded, Store, Return
    <2>2. TypeOK' /\ TagMatchesCache' /\ StaleIsBounded' /\ Versions'
      BY <2>1
    <2>3. InFlightOK' /\ TimesOK' /\ lastChecked' >= lastChecked
      BY <2>1
    <2>4. QED BY <2>2, <2>3
  <1>7. ASSUME NEW g \in Goroutine, NotModified(g)
        PROVE  IInv' /\ lastChecked' >= lastChecked
    <2>1. /\ pc' = [pc EXCEPT ![g] = "returned"] /\ pc[g] = "requesting"
          /\ got' = [got EXCEPT ![g] = None]
          /\ failed' = [failed EXCEPT ![g] = FALSE]
          /\ UNCHANGED <<now, origin, replacedAt, called, cache, etag>>
          /\ cache # None /\ etag = origin /\ lastChecked' = called[g]
      BY <1>7 DEF NotModified, SentTag, Return
    <2>2. TypeOK' /\ TagMatchesCache' /\ StaleIsBounded' /\ Versions'
      BY <2>1
    <2>3. InFlightOK' /\ TimesOK' /\ lastChecked' >= lastChecked
      BY <2>1
    <2>4. QED BY <2>2, <2>3
  <1>8. CASE UNCHANGED vars
    BY <1>8 DEF vars
  <1>9. QED
    BY <1>1, <1>2, <1>3, <1>4, <1>5, <1>6, <1>7, <1>8 DEF Next, Step, Answer

(* The inductive invariant, along every behaviour.                         *)
THEOREM Invariance == Spec => []IInv
  BY InitIInv, StepIInv, PTL DEF Spec

(* Every variable keeps its type.                                          *)
THEOREM Typing == Spec => []TypeOK
  BY Invariance, PTL DEF IInv

(* The ETag that is sent is the cached document's.                         *)
THEOREM TagIsOfCache == Spec => []TagMatchesCache
  BY Invariance, PTL DEF IInv

(* No document is used longer than CheckInterval after it was replaced.    *)
THEOREM BoundedStaleness == Spec => []StaleIsBounded
  BY Invariance, PTL DEF IInv

(* The time of the last check never goes back, whatever the order in which *)
(* calls get the mutex.                                                    *)
THEOREM ChecksGoForward == Spec => CheckedForward
  <1>1. IInv /\ [Next]_vars => [lastChecked' >= lastChecked]_vars
    BY StepIInv
  <1>2. QED BY Invariance, <1>1, PTL DEF Spec, CheckedForward

-----------------------------------------------------------------------------
(* A document is the origin's, or was replaced after its call came: the    *)
(* request it came with was sent later than that.                          *)
HandedOK ==
  \A g \in Goroutine : got[g] # None =>
    /\ got[g] <= origin
    /\ got[g] = origin \/ replacedAt[got[g]] >= called[g]

(* A request that was decided has what it was decided on.                  *)
DecidedOK ==
  \A g \in Goroutine :
    /\ outcome[g] # "none" => pc[g] = "returned"
    /\ outcome[g] = "served" /\ g \in RequireCloudflare => from[g] \in Listed(got[g])
    /\ outcome[g] = "served" /\ ip[g] # from[g] =>
         ip[g] = header[g] /\ from[g] \in Listed(got[g])

CfIInv == IInv /\ CfTypeOK /\ HandedOK /\ DecidedOK

(* Every step of the middleware is a step of its Getter, or leaves it.     *)
LEMMA CfStepIsGetterStep == [CfNext]_cfVars => [Next]_vars
  BY DEF CfNext, cfVars, Next, Arrive, Handle, DropsRequest, Forbids, Serves, Finish

(* The Getter under the middleware is the Getter.                          *)
THEOREM CfImplementsGetter == CfSpec => Spec
  <1>1. CfInit => Init
    BY DEF CfInit
  <1>2. QED BY <1>1, CfStepIsGetterStep, PTL DEF CfSpec, Spec

(* What was handed out stays as good as it was: a version is replaced at   *)
(* the time it is, which is not before any call.                           *)
LEMMA StepHanded == IInv /\ HandedOK /\ [Next]_vars => HandedOK'
  <1> SUFFICES ASSUME IInv, HandedOK, [Next]_vars PROVE HandedOK'
    OBVIOUS
  <1> USE DEF HandedOK, IInv, TypeOK, TimesOK
  <1>1. CASE Tick \/ UNCHANGED vars
    BY <1>1 DEF Tick, vars, callVars
  <1>2. CASE Publish
    BY <1>2 DEF Publish, callVars
  <1>3. ASSUME NEW g \in Goroutine, GetJson(g) PROVE HandedOK'
    BY <1>3 DEF GetJson
  <1>4. ASSUME NEW g \in Goroutine, Request(g) PROVE HandedOK'
    BY <1>4 DEF Request
  <1>5. ASSUME NEW g \in Goroutine, Step(g), ~Request(g) PROVE HandedOK'
    <2>1. /\ got' = [got EXCEPT ![g] = None] \/ got' = [got EXCEPT ![g] = origin]
          /\ UNCHANGED <<origin, replacedAt, called>>
      BY <1>5 DEF Step, ReturnCached, Answer, RequestFails, Downloaded, NotModified, FallBack,
                  Return
    <2>2. \A h \in Goroutine : got'[h] \in {got[h], None, origin}
      BY <2>1
    <2>3. QED BY <2>1, <2>2
  <1>6. QED BY <1>1, <1>2, <1>3, <1>4, <1>5 DEF Next

(* A step of the Getter on the way of one request touches no other's call, *)
(* and not the document of a call that has returned.                       *)
LEMMA StepOfOne ==
  ASSUME TypeOK, NEW g \in Goroutine, Step(g)
  PROVE  /\ pc[g] # "returned"
         /\ \A h \in Goroutine \ {g} : pc'[h] = pc[h] /\ got'[h] = got[h]
  BY DEF TypeOK, Step, ReturnCached, Request, Answer, RequestFails, Downloaded, NotModified,
         FallBack, Return

(* Each step of the middleware keeps the invariant.                        *)
LEMMA StepCf == CfIInv /\ [CfNext]_cfVars => CfIInv'
  <1> SUFFICES ASSUME CfIInv, [CfNext]_cfVars PROVE CfIInv'
    OBVIOUS
  <1>1. IInv' /\ HandedOK'
    BY CfStepIsGetterStep, StepIInv, StepHanded DEF CfIInv
  <1> USE DEF CfIInv, CfTypeOK, DecidedOK, Listed
  <1>2. TypeOK /\ TypeOK'
    BY <1>1 DEF IInv
  <1>3. CASE UNCHANGED requestVars /\ (Tick \/ Publish \/ UNCHANGED vars)
    BY <1>1, <1>2, <1>3 DEF requestVars, Tick, Publish, vars, callVars
  <1>4. ASSUME NEW g \in Goroutine, NEW a \in Addr, NEW h \in Addr \cup {NoAddr}, Arrive(g, a, h)
        PROVE  CfTypeOK' /\ DecidedOK'
    BY <1>1, <1>2, <1>4 DEF Arrive, GetJson, TypeOK
  <1>5. ASSUME NEW g \in Goroutine, Step(g), UNCHANGED requestVars
        PROVE  CfTypeOK' /\ DecidedOK'
    <2>1. \A h \in Goroutine : outcome[h] # "none" => pc'[h] = pc[h] /\ got'[h] = got[h]
      BY <1>2, <1>5, StepOfOne
    <2>2. QED BY <1>2, <1>5, <2>1 DEF requestVars
  <1>6. ASSUME NEW g \in Goroutine, Handle(g) PROVE CfTypeOK' /\ DecidedOK'
    <2>1. Ready(g) /\ UNCHANGED <<pc, got, from, header>>
      BY <1>6 DEF Handle, DropsRequest, Forbids, Serves, Finish, vars, callVars
    <2>2. CASE DropsRequest(g) \/ Forbids(g)
      BY <1>2, <2>1, <2>2, CloudflareAssumption DEF DropsRequest, Forbids, Finish, Ready
    <2>3. CASE Serves(g)
      BY <1>2, <2>1, <2>3 DEF Serves, Finish, Ready, RequestIp, ClientIp, IsFromCloudflare
    <2>4. QED BY <1>6, <2>2, <2>3 DEF Handle
  <1>7. QED
    BY <1>1, <1>3, <1>4, <1>5, <1>6 DEF CfNext, cfVars

(* The invariant of the middleware, along every behaviour.                 *)
THEOREM CfInvariance == CfSpec => []CfIInv
  <1>1. CfInit => CfIInv
    BY InitIInv DEF CfInit, CfIInv, Init, IInv, CfTypeOK, HandedOK, DecidedOK
  <1>2. QED BY <1>1, StepCf, PTL DEF CfSpec

(* Who is served where Cloudflare is required was listed by a version not  *)
(* older than CheckInterval, and a handler's idea of the client is the     *)
(* remote address or a listed one's word.                                  *)
THEOREM Vouched == CfSpec => []ServedIsVouched
  <1>1. CfIInv => ServedIsVouched
    <2> SUFFICES ASSUME CfIInv, NEW g \in Goroutine, outcome[g] = "served",
                        from[g] \in Listed(got[g])
                 PROVE  \E n \in 1..origin :
                          /\ from[g] \in Ranges[n]
                          /\ n = origin \/ replacedAt[n] + CheckInterval >= called[g]
      BY DEF ServedIsVouched, CfIInv, DecidedOK
    <2>1. got[g] \in 1..origin /\ from[g] \in Ranges[got[g]]
      BY DEF Listed, CfIInv, IInv, TypeOK, HandedOK
    <2>2. got[g] = origin \/ replacedAt[got[g]] + CheckInterval >= called[g]
      BY <2>1 DEF CfIInv, IInv, TypeOK, HandedOK
    <2>3. QED BY <2>1, <2>2
  <1>2. QED BY <1>1, CfInvariance, PTL
=============================================================================
