------------------------------- MODULE Getter -------------------------------
(***************************************************************************)
(* wwhttp/getter.go: Getter.GetJson, which fetches a JSON document, keeps  *)
(* it with its ETag, and asks again once CheckInterval has passed.  Calls  *)
(* read the clock, then queue for one mutex that is held during the HTTP   *)
(* request.  The document is abstracted to the version its origin          *)
(* publishes; got[g] is what a call left in its caller's v.                *)
(***************************************************************************)
EXTENDS Naturals

CONSTANTS Goroutine,
          CheckInterval,
          MaxTime,       \* bound: the clock stops there
          MaxVersion,    \* bound: the origin publishes no more versions
          NoTag          \* an absent ETag

None == 0                \* no document: a nil cache, or a v left unfilled
Version == 1..MaxVersion

ASSUME GetterAssumption == /\ CheckInterval \in Nat \ {0}
                           /\ MaxTime \in Nat \ {0} /\ MaxVersion \in Nat \ {0}
                           /\ NoTag \notin Version

VARIABLES now,
          origin,        \* the version the origin serves; its ETag is itself
          replacedAt,    \* history: when version n was replaced
          cache, etag, lastChecked,
          pc,            \* pc[g]: "idle", "waiting", "requesting", "returned"
          called,        \* called[g]: the time GetJson read
          got, failed    \* got[g], failed[g]: v and the error after the call

cacheVars == <<cache, etag, lastChecked>>
callVars == <<pc, called, got, failed>>
vars == <<now, origin, replacedAt, cacheVars, callVars>>

TypeOK == /\ now \in 1..MaxTime
          /\ origin \in Version
          /\ replacedAt \in [Version -> 0..MaxTime]
          /\ cache \in Version \cup {None}
          /\ etag \in Version \cup {NoTag}
          /\ lastChecked \in 0..MaxTime
          /\ pc \in [Goroutine -> {"idle", "waiting", "requesting", "returned"}]
          /\ called \in [Goroutine -> 0..MaxTime]
          /\ got \in [Goroutine -> Version \cup {None}]
          /\ failed \in [Goroutine -> BOOLEAN]

Init == /\ now = 1 /\ origin = 1 /\ replacedAt = [n \in Version |-> 0]
        /\ cache = None /\ etag = NoTag /\ lastChecked = 0
        /\ pc = [g \in Goroutine |-> "idle"]
        /\ called = [g \in Goroutine |-> 0]
        /\ got = [g \in Goroutine |-> None]
        /\ failed = [g \in Goroutine |-> FALSE]

Tick == /\ now < MaxTime
        /\ now' = now + 1
        /\ UNCHANGED <<origin, replacedAt, cacheVars, callVars>>

Publish == /\ origin < MaxVersion
           /\ origin' = origin + 1
           /\ replacedAt' = [replacedAt EXCEPT ![origin] = now]
           /\ UNCHANGED <<now, cacheVars, callVars>>

-----------------------------------------------------------------------------
GetJson(g) == /\ pc[g] \in {"idle", "returned"}
              /\ pc' = [pc EXCEPT ![g] = "waiting"]
              /\ called' = [called EXCEPT ![g] = now]
              /\ got' = [got EXCEPT ![g] = None]
              /\ failed' = [failed EXCEPT ![g] = FALSE]
              /\ UNCHANGED <<now, origin, replacedAt, cacheVars>>

MutexIsFree == \A g \in Goroutine : pc[g] # "requesting"

Return(g, v, err) == /\ pc' = [pc EXCEPT ![g] = "returned"]
                     /\ got' = [got EXCEPT ![g] = v]
                     /\ failed' = [failed EXCEPT ![g] = err]
                     /\ UNCHANGED <<now, origin, replacedAt, called>>

Recent(g) == cache # None /\ lastChecked + CheckInterval > called[g]

(* The cached document is assigned to the parameter v, not through it.     *)
ReturnCached(g) == /\ pc[g] = "waiting" /\ MutexIsFree
                   /\ Recent(g)
                   /\ Return(g, None, FALSE)
                   /\ UNCHANGED cacheVars

Request(g) == /\ pc[g] = "waiting" /\ MutexIsFree
              /\ ~Recent(g)
              /\ pc' = [pc EXCEPT ![g] = "requesting"]
              /\ UNCHANGED <<now, origin, replacedAt, cacheVars, called, got, failed>>

(* Do fails: the network, or the caller's context.                         *)
RequestFails(g) == /\ pc[g] = "requesting"
                   /\ Return(g, None, TRUE)
                   /\ UNCHANGED cacheVars

(* Mutant: an answer without an ETag leaves the old one.                   *)
StoreOldTag(v, tag, t) ==
  cache' = v /\ etag' = (IF tag = NoTag THEN etag ELSE tag) /\ lastChecked' = t

Store(v, tag, t) == cache' = v /\ etag' = tag /\ lastChecked' = t

(* Status 200 with a document that decodes, with or without an ETag.       *)
Downloaded(g) == /\ pc[g] = "requesting"
                 /\ \E tag \in {origin, NoTag} : Store(origin, tag, called[g])
                 /\ Return(g, origin, FALSE)

SentTag == IF cache # None THEN etag ELSE NoTag

NotModified(g) == /\ pc[g] = "requesting"
                  /\ SentTag = origin
                  /\ lastChecked' = called[g]
                  /\ Return(g, None, FALSE)
                  /\ UNCHANGED <<cache, etag>>

(* Mutant: a failed check counts as a check.                               *)
CheckedAnyway(g) == /\ pc[g] = "requesting"
                    /\ lastChecked' = called[g]
                    /\ Return(g, None, FALSE)
                    /\ UNCHANGED <<cache, etag>>

(* Another status, type or document (one of another shape still fills      *)
(* what fits of v).  The error is dropped: v, a pointer, is never nil.     *)
FallBack(g) == /\ pc[g] = "requesting"
               /\ \E v \in {None, origin} : Return(g, v, FALSE)
               /\ UNCHANGED cacheVars

Answer(g) == RequestFails(g) \/ Downloaded(g) \/ NotModified(g) \/ FallBack(g)

Step(g) == ReturnCached(g) \/ Request(g) \/ Answer(g)

Next == \/ Tick \/ Publish
        \/ \E g \in Goroutine : GetJson(g) \/ Step(g)

Spec == Init /\ [][Next]_vars

-----------------------------------------------------------------------------
(* The ETag a request would send is that of the cached document.           *)
TagMatchesCache == etag # NoTag => cache = etag

(* A cached document that the origin has replaced was last checked before  *)
(* it was replaced: it is used for CheckInterval more at the most.         *)
StaleIsBounded == cache # None /\ cache # origin => lastChecked <= replacedAt[cache]

(* Calls that read the clock early and got the mutex late do not turn the  *)
(* time of the last check back.                                            *)
CheckedForward == [][lastChecked' >= lastChecked]_vars
=============================================================================
