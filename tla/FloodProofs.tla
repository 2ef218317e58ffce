---------------------------- MODULE FloodProofs -----------------------------
(***************************************************************************)
(* Proofs about Flood.  A worker that is allowed has seen less than the    *)
(* threshold in a window that began no later than now's, so whoever is     *)
(* allowed last leaves room for all workers; a hit without a row has       *)
(* expired, and what has expired is out of the window, because row and     *)
(* expiration are truncated alike.                                         *)
(***************************************************************************)
EXTENDS Flood, FiniteSetTheorems, TLAPS

Asking == {"IsAllowed", "allowed", "Register"}

(* A column's time is less than a second before the exact one, and whole   *)
(* seconds do not matter to the truncation.                                *)
LEMMA DatetimeIs ==
  ASSUME NEW t \in Int
  PROVE  /\ Datetime(t) \in Int /\ t - 2 <= Datetime(t) /\ Datetime(t) <= t
         /\ \A m \in Nat : m % Second = 0 => Datetime(t + m) = Datetime(t) + m
  BY DEF Datetime, Second

(* What a worker's record can be.                                          *)
LEMMA CallIs ==
  ASSUME TypeOK, NEW w \in Worker
  PROVE  /\ worker[w].call \in Asking \cup {"none", "FloodGC"}
         /\ worker[w].call \in Asking => /\ worker[w].event \in Event
                                         /\ worker[w].identifier \in Identifier
                                         /\ worker[w].time \in Int
         /\ worker[w].call = "FloodGC" => worker[w].time \in 0..MaxTime
  <1>1. worker[w] \in {Idle} \cup Calls
    BY DEF TypeOK
  <1>2. QED BY <1>1 DEF Idle, Calls, Asking

(* A call's record.                                                        *)
LEMMA CallIsTyped ==
  ASSUME NEW name \in Asking, NEW e \in Event, NEW i \in Identifier, NEW t \in Int
  PROVE  /\ Call(name, e, i, t) \in Calls /\ Call(name, e, i, t).call = name
         /\ Call(name, e, i, t).event = e /\ Call(name, e, i, t).identifier = i
         /\ Call(name, e, i, t).time = t
  BY DEF Call, Calls, Asking

(* The row of a hit.                                                       *)
LEMMA RowIs ==
  ASSUME NEW h \in Hit
  PROVE  /\ RowOf(h) \in Row /\ RowOf(h).id = h.id
         /\ RowOf(h).event = h.event /\ RowOf(h).identifier = h.identifier
         /\ RowOf(h).timestamp = Datetime(h.at)
         /\ RowOf(h).expiration = Expiration(h.at, h.event)
         /\ h.at \in 0..MaxTime /\ h.event \in Event /\ h.identifier \in Identifier
         /\ Window[h.event] \in Nat \ {0} /\ Expiration(h.at, h.event) \in Int
  <1>1. /\ h.at \in 0..MaxTime /\ h.event \in Event /\ h.identifier \in Identifier
        /\ h.id \in Id /\ Window[h.event] \in Nat \ {0}
    BY FloodAssumption DEF Hit
  <1>2. h.at \in Int /\ h.at + Window[h.event] \in Int
    BY <1>1, FloodAssumption
  <1>3. Datetime(h.at) \in Int /\ Expiration(h.at, h.event) \in Int
    BY <1>2, DatetimeIs DEF Expiration
  <1>4. QED BY <1>1, <1>3 DEF RowOf, Row

-----------------------------------------------------------------------------
(* Workers keep their type, and the times they have read are past.         *)
LEMMA StepWorkers ==
  ASSUME TypeOK, TimesOK, Next
  PROVE  now' \in 0..MaxTime /\ now <= now' /\ worker' \in [Worker -> {Idle} \cup Calls] /\ TimesOK'
  <1> USE FloodAssumption
  <1>0. now \in 0..MaxTime /\ worker \in [Worker -> {Idle} \cup Calls]
    BY DEF TypeOK
  <1>1. CASE Tick
    <2>1. now' = now + 1 /\ now' \in 0..MaxTime /\ worker' = worker
      BY <1>0, <1>1 DEF Tick
    <2>2. ASSUME NEW v \in Worker, worker[v].call = "IsAllowed"
          PROVE  worker[v].time <= now' - Window[worker[v].event]
      <3>1. worker[v].event \in Event /\ worker[v].time \in Int
        BY <2>2, CallIs DEF Asking
      <3>2. Window[worker[v].event] \in Nat
        BY <3>1
      <3>3. worker[v].time <= now - Window[worker[v].event]
        BY <2>2 DEF TimesOK
      <3>4. QED BY <1>0, <2>1, <3>1, <3>2, <3>3
    <2>3. QED BY <1>0, <2>1, <2>2 DEF TimesOK
  <1>2. ASSUME NEW w \in Worker, NEW c \in {Idle} \cup Calls, now' = now,
               worker' = [worker EXCEPT ![w] = c],
               c.call = "IsAllowed" => c.time <= now - Window[c.event],
               c.call \in {"Register", "FloodGC"} => c.time \in 0..now
        PROVE  worker' \in [Worker -> {Idle} \cup Calls] /\ TimesOK'
    <2>1. worker' \in [Worker -> {Idle} \cup Calls]
      BY <1>0, <1>2
    <2>2. \A v \in Worker : worker'[v] = IF v = w THEN c ELSE worker[v]
      BY <1>0, <1>2
    <2>3. QED BY <1>2, <2>1, <2>2 DEF TimesOK
  <1>3. ASSUME NEW w \in Worker, now' = now, Returns(w)
        PROVE  worker' \in [Worker -> {Idle} \cup Calls] /\ TimesOK'
    <2>1. Idle \in {Idle} \cup Calls /\ Idle.call = "none"
      BY DEF Idle
    <2>2. QED BY <1>2, <1>3, <2>1 DEF Returns
  <1>4. ASSUME NEW w \in Worker, NEW e \in Event, NEW i \in Identifier, AskIsAllowed(w, e, i)
        PROVE  now' = now /\ worker' \in [Worker -> {Idle} \cup Calls] /\ TimesOK'
    <2> DEFINE c == Call("IsAllowed", e, i, now - Window[e])
    <2>1. now - Window[e] \in Int
      BY <1>0
    <2>2. c \in Calls /\ c.call = "IsAllowed" /\ c.event = e /\ c.time = now - Window[e]
      BY <2>1, CallIsTyped DEF Asking
    <2>3. now' = now /\ worker' = [worker EXCEPT ![w] = c]
      BY <1>4 DEF AskIsAllowed, Starts
    <2> HIDE DEF c
    <2>4. /\ c \in {Idle} \cup Calls
          /\ c.call = "IsAllowed" => c.time <= now - Window[c.event]
          /\ c.call \in {"Register", "FloodGC"} => c.time \in 0..now
      BY <2>1, <2>2
    <2>5. QED BY <1>2, <2>3, <2>4
  <1>5. ASSUME NEW w \in Worker, IsAllowed(w)
        PROVE  now' = now /\ worker' \in [Worker -> {Idle} \cup Calls] /\ TimesOK'
    <2> DEFINE c == Call("allowed", worker[w].event, worker[w].identifier, 0)
    <2>1. c \in Calls /\ c.call = "allowed"
      BY <1>5, CallIs, CallIsTyped DEF IsAllowed, Asking
    <2>2. now' = now /\ (worker' = [worker EXCEPT ![w] = c] \/ Returns(w))
      BY <1>5 DEF IsAllowed
    <2> HIDE DEF c
    <2>3. QED BY <1>2, <1>3, <2>1, <2>2
  <1>6. ASSUME NEW w \in Worker, CallRegister(w)
        PROVE  now' = now /\ worker' \in [Worker -> {Idle} \cup Calls] /\ TimesOK'
    <2> DEFINE c == Call("Register", worker[w].event, worker[w].identifier, now)
    <2>1. c \in Calls /\ c.call = "Register" /\ c.time = now
      BY <1>0, <1>6, CallIs, CallIsTyped DEF CallRegister, Asking
    <2>2. now' = now /\ worker' = [worker EXCEPT ![w] = c]
      BY <1>6 DEF CallRegister
    <2> HIDE DEF c
    <2>3. /\ c \in {Idle} \cup Calls
          /\ c.call = "IsAllowed" => c.time <= now - Window[c.event]
          /\ c.call \in {"Register", "FloodGC"} => c.time \in 0..now
      BY <1>0, <2>1
    <2>4. QED BY <1>2, <2>2, <2>3
  <1>7. ASSUME NEW w \in Worker, CallFloodGC(w)
        PROVE  now' = now /\ worker' \in [Worker -> {Idle} \cup Calls] /\ TimesOK'
    <2> DEFINE c == [call |-> "FloodGC", time |-> now]
    <2>1. c \in Calls /\ c.call = "FloodGC" /\ c.time = now
      BY <1>0 DEF Calls
    <2>2. now' = now /\ worker' = [worker EXCEPT ![w] = c]
      BY <1>7 DEF CallFloodGC, Starts
    <2> HIDE DEF c
    <2>3. /\ c \in {Idle} \cup Calls
          /\ c.call = "IsAllowed" => c.time <= now - Window[c.event]
          /\ c.call \in {"Register", "FloodGC"} => c.time \in 0..now
      BY <1>0, <2>1
    <2>4. QED BY <1>2, <2>2, <2>3
  <1>8. ASSUME NEW w \in Worker, Register(w) \/ StatementFails(w) \/ FloodGC(w)
        PROVE  now' = now /\ worker' \in [Worker -> {Idle} \cup Calls] /\ TimesOK'
    <2>1. now' = now /\ Returns(w)
      BY <1>8 DEF Register, StatementFails, FloodGC
    <2>2. QED BY <1>3, <2>1
  <1>9. ASSUME UNCHANGED <<now, worker>>
        PROVE  now' = now /\ worker' \in [Worker -> {Idle} \cup Calls] /\ TimesOK'
    BY <1>0, <1>9 DEF TimesOK
  <1>10. CASE now' = now /\ worker' \in [Worker -> {Idle} \cup Calls] /\ TimesOK'
    BY <1>0, <1>10
  <1>11. \/ Tick \/ UNCHANGED <<now, worker>>
         \/ \E w \in Worker :
              \/ IsAllowed(w) \/ CallRegister(w) \/ CallFloodGC(w)
              \/ Register(w) \/ StatementFails(w) \/ FloodGC(w)
              \/ \E e \in Event, i \in Identifier : AskIsAllowed(w, e, i)
    BY DEF Next, Clear, Empty, FloodUnban, Forget
  <1>12. QED BY <1>1, <1>4, <1>5, <1>6, <1>7, <1>8, <1>9, <1>10, <1>11

-----------------------------------------------------------------------------
(* The table keeps its rows, or loses expired ones, or loses some of their *)
(* hits with them.                                                         *)
LEMMA TableShrinks ==
  ASSUME TypeOK, TableOK, now' \in Int, now <= now', hits' \subseteq hits, flood' \subseteq flood,
         \A r \in flood' : \A h \in hits : r = RowOf(h) => h \in hits',
         \A h \in hits' : RowOf(h) \in flood' \/ RowOf(h) \notin flood
                          \/ Expiration(h.at, h.event) < now'
  PROVE  TableOK' /\ flood' \subseteq Row /\ hits' \subseteq Hit
  <1>0. now \in Int /\ flood \subseteq Row /\ hits \subseteq Hit
    BY FloodAssumption DEF TypeOK
  <1>1. IsFiniteSet(flood') /\ IsFiniteSet(hits')
    BY FS_Subset DEF TableOK
  <1>2. RowsAreHits'
    <2> SUFFICES ASSUME NEW r \in flood' PROVE \E h \in hits' : r = RowOf(h)
      BY DEF RowsAreHits
    <2>1. PICK h \in hits : r = RowOf(h)
      BY DEF TableOK, RowsAreHits
    <2>2. QED BY <2>1
  <1>3. HitsAreOwn'
    BY DEF TableOK, HitsAreOwn
  <1>4. HitsAreKept'
    <2> SUFFICES ASSUME NEW h \in hits', RowOf(h) \notin flood'
                 PROVE  Expiration(h.at, h.event) < now'
      BY DEF HitsAreKept
    <2>1. CASE RowOf(h) \in flood
      BY <2>1
    <2>2. CASE RowOf(h) \notin flood
      <3>1. h \in hits /\ Expiration(h.at, h.event) < now
        BY <2>2 DEF TableOK, HitsAreKept
      <3>2. Expiration(h.at, h.event) \in Int
        BY <1>0, <3>1, RowIs
      <3>3. QED BY <1>0, <3>1, <3>2
    <2>3. QED BY <2>1, <2>2
  <1>5. QED BY <1>0, <1>1, <1>2, <1>3, <1>4 DEF TableOK

(* A hit and its row are inserted.                                         *)
LEMMA TableGrows ==
  ASSUME TypeOK, TableOK, now' = now, NEW hit \in Hit, \A h \in hits : h.id # hit.id,
         flood' = flood \cup {RowOf(hit)}, hits' = hits \cup {hit}
  PROVE  TableOK' /\ flood' \subseteq Row /\ hits' \subseteq Hit
  <1>1. flood \subseteq Row /\ hits \subseteq Hit /\ RowOf(hit) \in Row
    BY RowIs DEF TypeOK
  <1>2. IsFiniteSet(flood') /\ IsFiniteSet(hits')
    BY FS_AddElement DEF TableOK
  <1>3. RowsAreHits'
    BY DEF TableOK, RowsAreHits
  <1>4. HitsAreOwn'
    BY DEF TableOK, HitsAreOwn
  <1>5. HitsAreKept'
    BY DEF TableOK, HitsAreKept
  <1>6. QED BY <1>1, <1>2, <1>3, <1>4, <1>5 DEF TableOK

(* The hits and rows that are cleared belong together.                     *)
LEMMA TableForgets ==
  ASSUME TypeOK, TableOK, NEW events, NEW identifiers, Forget(events, identifiers)
  PROVE  TableOK' /\ flood' \subseteq Row /\ hits' \subseteq Hit
  <1>1. /\ hits' = {h \in hits : ~(h.event \in events /\ h.identifier \in identifiers)}
        /\ flood' = {r \in flood : ~(r.event \in events /\ r.identifier \in identifiers)}
        /\ now' = now /\ now \in Int
    BY FloodAssumption DEF Forget, Without, TypeOK
  <1>2. \A h \in hits : RowOf(h).event = h.event /\ RowOf(h).identifier = h.identifier
    BY RowIs DEF TypeOK
  <1>3. now' \in Int /\ now <= now' /\ hits' \subseteq hits /\ flood' \subseteq flood
    BY <1>1
  <1>4. \A r \in flood' : \A h \in hits : r = RowOf(h) => h \in hits'
    BY <1>1, <1>2
  <1>5. \A h \in hits' : RowOf(h) \in flood' \/ RowOf(h) \notin flood
                         \/ Expiration(h.at, h.event) < now'
    BY <1>1, <1>2
  <1>6. QED BY <1>3, <1>4, <1>5, TableShrinks

(* The collector deletes what expired before its clock reading.            *)
LEMMA TableIsCollected ==
  ASSUME TypeOK, TableOK, TimesOK, NEW w \in Worker, FloodGC(w)
  PROVE  TableOK' /\ flood' \subseteq Row /\ hits' \subseteq Hit
  <1>1. /\ flood' = {r \in flood : ~(r.expiration < worker[w].time)}
        /\ hits' = hits /\ now' = now /\ now \in Int
        /\ worker[w].time \in Int /\ worker[w].time <= now
    BY FloodAssumption DEF FloodGC, Expired, TimesOK, TypeOK
  <1>2. now' \in Int /\ now <= now' /\ hits' \subseteq hits /\ flood' \subseteq flood
        /\ \A r \in flood' : \A h \in hits : r = RowOf(h) => h \in hits'
    BY <1>1
  <1>3. ASSUME NEW h \in hits', RowOf(h) \in flood, RowOf(h) \notin flood'
        PROVE  Expiration(h.at, h.event) < now'
    <2>1. /\ RowOf(h).expiration = Expiration(h.at, h.event)
          /\ Expiration(h.at, h.event) \in Int
      BY <1>1, RowIs DEF TypeOK
    <2>2. RowOf(h).expiration < worker[w].time
      BY <1>1, <1>3
    <2>3. QED BY <1>1, <2>1, <2>2
  <1>4. QED BY <1>2, <1>3, TableShrinks

(* Rows stay what Register made of hits, and those that miss have expired. *)
LEMMA StepTable ==
  ASSUME TypeOK, TableOK, TimesOK, Next
  PROVE  TableOK' /\ flood' \subseteq Row /\ hits' \subseteq Hit
  <1>1. CASE UNCHANGED <<flood, hits>>
    <2>1. now' \in Int /\ now <= now'
      BY StepWorkers
    <2>2. hits' \subseteq hits /\ flood' \subseteq flood
          /\ (\A r \in flood' : \A h \in hits : r = RowOf(h) => h \in hits')
          /\ (\A h \in hits' : RowOf(h) \in flood' \/ RowOf(h) \notin flood
                                \/ Expiration(h.at, h.event) < now')
      BY <1>1
    <2>3. QED BY <2>1, <2>2, TableShrinks
  <1>2. ASSUME NEW w \in Worker, Register(w)
        PROVE  TableOK' /\ flood' \subseteq Row /\ hits' \subseteq Hit
    <2>1. PICK id \in Id \ {h.id : h \in hits} :
            LET hit == [id |-> id, event |-> worker[w].event,
                        identifier |-> worker[w].identifier, at |-> worker[w].time]
            IN  flood' = flood \cup {RowOf(hit)} /\ hits' = hits \cup {hit}
      BY <1>2 DEF Register
    <2> DEFINE hit == [id |-> id, event |-> worker[w].event,
                       identifier |-> worker[w].identifier, at |-> worker[w].time]
    <2>2. /\ worker[w].event \in Event /\ worker[w].identifier \in Identifier
          /\ worker[w].time \in 0..MaxTime /\ now' = now
      <3>1. worker[w].call = "Register" /\ now' = now
        BY <1>2 DEF Register
      <3>2. worker[w].time \in 0..now /\ now \in 0..MaxTime
        BY <3>1 DEF TimesOK, TypeOK
      <3>3. QED BY <3>1, <3>2, CallIs, FloodAssumption DEF Asking
    <2>3. hit \in Hit /\ \A h \in hits : h.id # hit.id
      BY <2>2 DEF Hit
    <2>4. flood' = flood \cup {RowOf(hit)} /\ hits' = hits \cup {hit}
      BY <2>1
    <2> HIDE DEF hit
    <2>5. QED BY <2>2, <2>3, <2>4, TableGrows
  <1>3. \/ UNCHANGED <<flood, hits>>
        \/ \E w \in Worker : Register(w) \/ FloodGC(w)
        \/ \E events, identifiers : Forget(events, identifiers)
    BY DEF Next, Tick, IsAllowed, CallRegister, StatementFails, CallFloodGC, AskIsAllowed, Starts,
           Clear, Empty, FloodUnban
  <1>4. QED BY <1>1, <1>2, <1>3, TableIsCollected, TableForgets

-----------------------------------------------------------------------------
(* The window of now.                                                      *)
InWindow(e, i) == Since(e, i, now - Window[e])

(* The bound of one event and identifier.                                  *)
Bounded(e, i) == Counted(e, i) + Pending(e, i) <= Threshold - 1 + Cardinality(Worker)

LEMMA CountsAre ==
  ASSUME IsFiniteSet(flood), NEW e \in Event, NEW i \in Identifier
  PROVE  /\ IsFiniteSet(InWindow(e, i)) /\ IsFiniteSet(InBetween(e, i))
         /\ Counted(e, i) = Cardinality(InWindow(e, i)) /\ Counted(e, i) \in Nat
         /\ Pending(e, i) \in Nat /\ Pending(e, i) <= Cardinality(Worker)
         /\ Cardinality(Worker) \in Nat \ {0}
  <1>1. InWindow(e, i) \subseteq flood /\ InBetween(e, i) \subseteq Worker
    BY DEF InWindow, Since, Of, InBetween
  <1>2. IsFiniteSet(InWindow(e, i)) /\ IsFiniteSet(InBetween(e, i))
        /\ Cardinality(InBetween(e, i)) <= Cardinality(Worker)
    BY <1>1, FS_Subset, FloodAssumption
  <1>3. Cardinality(Worker) \in Nat \ {0}
    BY FS_CardinalityType, FS_EmptySet, FloodAssumption
  <1>4. QED
    BY <1>2, <1>3, FS_CardinalityType DEF Counted, Count, Pending, InWindow

(* Less in the window and fewer workers in between keep the bound.         *)
LEMMA BoundStays ==
  ASSUME NEW e \in Event, NEW i \in Identifier, IsFiniteSet(flood), IsFiniteSet(flood'),
         Bounded(e, i), InWindow(e, i)' \subseteq InWindow(e, i),
         InBetween(e, i)' \subseteq InBetween(e, i)
  PROVE  Bounded(e, i)'
  <1>1. /\ Cardinality(InWindow(e, i)') <= Cardinality(InWindow(e, i))
        /\ Cardinality(InBetween(e, i)') <= Cardinality(InBetween(e, i))
    BY CountsAre, FS_Subset
  <1>2. /\ Counted(e, i)' = Cardinality(InWindow(e, i)')
        /\ Counted(e, i) = Cardinality(InWindow(e, i))
        /\ Pending(e, i)' = Cardinality(InBetween(e, i)')
        /\ Pending(e, i) = Cardinality(InBetween(e, i))
    BY DEF Counted, Count, InWindow, Pending
  <1>3. /\ Counted(e, i) \in Nat /\ Pending(e, i) \in Nat /\ Cardinality(Worker) \in Nat
        /\ Threshold \in Nat
    BY CountsAre, FloodAssumption
  <1>4. IsFiniteSet(InWindow(e, i)') /\ IsFiniteSet(InBetween(e, i)')
    <2>1. IsFiniteSet(InWindow(e, i)) /\ IsFiniteSet(InBetween(e, i))
      BY CountsAre
    <2>2. QED BY <2>1, FS_Subset
  <1>5. Counted(e, i)' \in Nat /\ Pending(e, i)' \in Nat
    BY <1>2, <1>4, FS_CardinalityType
  <1>6. QED BY <1>1, <1>2, <1>3, <1>5 DEF Bounded

(* Who is allowed has seen less than the threshold since a time that is    *)
(* not after the begin of the window.                                      *)
LEMMA AllowedKeepsBound ==
  ASSUME TypeOK, TableOK, TimesOK, NEW w \in Worker, IsAllowed(w),
         NEW e \in Event, NEW i \in Identifier, Bounded(e, i)
  PROVE  Bounded(e, i)'
  <1> DEFINE c == worker[w]
  <1>0. /\ c.call = "IsAllowed" /\ c.event \in Event /\ c.identifier \in Identifier
        /\ c.time \in Int /\ c.time <= now - Window[c.event]
        /\ now \in Int /\ Window[c.event] \in Nat
        /\ UNCHANGED <<now, flood, hits>> /\ worker \in [Worker -> {Idle} \cup Calls]
    BY CallIs, FloodAssumption DEF IsAllowed, Asking, TimesOK, TypeOK
  <1>1. InWindow(e, i)' = InWindow(e, i)
    BY <1>0 DEF InWindow, Since, Of
  <1>2. CASE InBetween(e, i)' \subseteq InBetween(e, i)
    BY <1>0, <1>1, <1>2, BoundStays DEF TableOK
  <1>3. CASE ~(InBetween(e, i)' \subseteq InBetween(e, i))
    <2>1. PICK v \in Worker : v \in InBetween(e, i)' /\ v \notin InBetween(e, i)
      BY <1>3 DEF InBetween
    <2>2. v = w /\ ~Returns(w)
      <3>1. CASE Returns(w)
        <4>1. worker'[v] = IF v = w THEN Idle ELSE worker[v]
          BY <1>0, <3>1 DEF Returns
        <4>2. Idle.call = "none"
          BY DEF Idle
        <4>3. QED BY <2>1, <4>1, <4>2 DEF InBetween
      <3>2. CASE ~Returns(w)
        <4>1. v # w => worker'[v] = worker[v]
          BY <1>0, <3>2 DEF IsAllowed
        <4>2. QED BY <2>1, <3>2, <4>1 DEF InBetween
      <3>3. QED BY <3>1, <3>2
    <2>3. /\ Allowed(Count(c.event, c.identifier, c.time))
          /\ worker'[w] = Call("allowed", c.event, c.identifier, 0)
      BY <1>0, <2>2 DEF IsAllowed
    <2>4. e = c.event /\ i = c.identifier
      <3>1. worker'[w].event = c.event /\ worker'[w].identifier = c.identifier
        BY <1>0, <2>3, CallIsTyped DEF Asking
      <3>2. QED BY <2>1, <2>2, <3>1 DEF InBetween
    <2>5. InWindow(e, i) \subseteq Since(e, i, c.time)
      <3>1. \A r \in flood : r.timestamp \in Int
        BY DEF TypeOK, Row
      <3>2. QED BY <1>0, <2>4, <3>1 DEF InWindow, Since, Of
    <2>6. IsFiniteSet(Since(e, i, c.time))
      <3>1. Since(e, i, c.time) \subseteq flood
        BY DEF Since, Of
      <3>2. QED BY <3>1, FS_Subset DEF TableOK
    <2>7. /\ Cardinality(InWindow(e, i)) <= Count(e, i, c.time) /\ Count(e, i, c.time) \in Nat
          /\ Count(e, i, c.time) < Threshold
      BY <2>3, <2>4, <2>5, <2>6, FS_Subset, FS_CardinalityType DEF Count, Allowed
    <2>8. Counted(e, i)' = Cardinality(InWindow(e, i)) /\ Counted(e, i)' \in Nat
      <3>1. IsFiniteSet(InWindow(e, i))
        BY CountsAre DEF TableOK
      <3>2. Counted(e, i)' = Cardinality(InWindow(e, i)')
        BY DEF Counted, Count, InWindow
      <3>3. QED BY <1>1, <3>1, <3>2, FS_CardinalityType
    <2>9. /\ Pending(e, i)' <= Cardinality(Worker) /\ Pending(e, i)' \in Nat
          /\ Cardinality(Worker) \in Nat
      <3>1. InBetween(e, i)' \subseteq Worker
        BY DEF InBetween
      <3>2. QED BY <3>1, FS_Subset, FS_CardinalityType, FloodAssumption DEF Pending
    <2>10. QED BY <2>7, <2>8, <2>9, FloodAssumption DEF Bounded
  <1>4. QED BY <1>2, <1>3

(* Who registers is in between no more, and adds one row at most.          *)
LEMMA RegisterKeepsBound ==
  ASSUME TypeOK, TableOK, TimesOK, NEW w \in Worker, Register(w), IsFiniteSet(flood'),
         NEW e \in Event, NEW i \in Identifier, Bounded(e, i)
  PROVE  Bounded(e, i)'
  <1>1. PICK hit : /\ flood' = flood \cup {RowOf(hit)} /\ hit.event = worker[w].event
                   /\ hit.identifier = worker[w].identifier
    <2>1. PICK id \in Id \ {h.id : h \in hits} :
            LET hit == [id |-> id, event |-> worker[w].event,
                        identifier |-> worker[w].identifier, at |-> worker[w].time]
            IN  flood' = flood \cup {RowOf(hit)}
      BY DEF Register
    <2> DEFINE hit == [id |-> id, event |-> worker[w].event,
                       identifier |-> worker[w].identifier, at |-> worker[w].time]
    <2>2. hit.event = worker[w].event /\ hit.identifier = worker[w].identifier
      OBVIOUS
    <2>3. flood' = flood \cup {RowOf(hit)}
      BY <2>1
    <2> HIDE DEF hit
    <2>4. QED BY <2>2, <2>3
  <1>2. /\ worker[w].call = "Register" /\ now' = now
        /\ \A v \in Worker : worker'[v] = IF v = w THEN Idle ELSE worker[v]
    BY DEF Register, Returns, TypeOK
  <1>3. InBetween(e, i)' = InBetween(e, i) \ {w}
    BY <1>2 DEF InBetween, Idle
  <1>4. RowOf(hit).event = hit.event /\ RowOf(hit).identifier = hit.identifier
    BY DEF RowOf
  <1>5. InWindow(e, i)' \subseteq InWindow(e, i) \cup {RowOf(hit)}
    BY <1>1, <1>2 DEF InWindow, Since, Of
  <1>6. CASE worker[w].event = e /\ worker[w].identifier = i
    <2>1. w \in InBetween(e, i)
      BY <1>2, <1>6 DEF InBetween
    <2>2. IsFiniteSet(InBetween(e, i)) /\ IsFiniteSet(InWindow(e, i))
      BY CountsAre DEF TableOK
    <2>3. Cardinality(InBetween(e, i)') = Cardinality(InBetween(e, i)) - 1
      BY <1>3, <2>1, <2>2, FS_RemoveElement
    <2>4. /\ Cardinality(InWindow(e, i)') <= Cardinality(InWindow(e, i)) + 1
          /\ Cardinality(InWindow(e, i)') \in Nat
      <3>1. /\ IsFiniteSet(InWindow(e, i) \cup {RowOf(hit)})
            /\ Cardinality(InWindow(e, i) \cup {RowOf(hit)}) <= Cardinality(InWindow(e, i)) + 1
        <4> DEFINE A == InWindow(e, i)
                   r == RowOf(hit)
        <4>1. IsFiniteSet(A) /\ Cardinality(A) \in Nat
          BY <2>2, FS_CardinalityType
        <4> HIDE DEF A, r
        <4>2. /\ IsFiniteSet(A \cup {r})
              /\ Cardinality(A \cup {r}) = IF r \in A THEN Cardinality(A) ELSE Cardinality(A) + 1
          BY <4>1, FS_AddElement
        <4>3. QED BY <4>1, <4>2 DEF A, r
      <3>2. /\ IsFiniteSet(InWindow(e, i)')
            /\ Cardinality(InWindow(e, i)') <= Cardinality(InWindow(e, i) \cup {RowOf(hit)})
        BY <1>5, <3>1, FS_Subset
      <3>3. QED BY <2>2, <3>1, <3>2, FS_CardinalityType
    <2>5. /\ Counted(e, i)' = Cardinality(InWindow(e, i)')
          /\ Pending(e, i)' = Cardinality(InBetween(e, i)')
          /\ Pending(e, i) = Cardinality(InBetween(e, i))
          /\ Counted(e, i) = Cardinality(InWindow(e, i))
      BY DEF Counted, Count, InWindow, Pending
    <2>6. /\ Counted(e, i) \in Nat /\ Pending(e, i) \in Nat /\ Cardinality(Worker) \in Nat
          /\ Threshold \in Nat
      BY CountsAre, FloodAssumption DEF TableOK
    <2>7. QED BY <2>3, <2>4, <2>5, <2>6 DEF Bounded
  <1>7. CASE ~(worker[w].event = e /\ worker[w].identifier = i)
    <2>1. RowOf(hit) \notin InWindow(e, i)'
      BY <1>1, <1>4, <1>7 DEF InWindow, Since, Of
    <2>2. InWindow(e, i)' \subseteq InWindow(e, i) /\ InBetween(e, i)' \subseteq InBetween(e, i)
      BY <1>3, <1>5, <2>1
    <2>3. QED BY <2>2, BoundStays DEF TableOK
  <1>8. QED BY <1>6, <1>7

(* Whatever else happens, nothing comes into the window, and nobody into   *)
(* between.                                                                *)
LEMMA OthersKeepBound ==
  ASSUME TypeOK, TableOK, TimesOK, Next, \A w \in Worker : ~IsAllowed(w) /\ ~Register(w),
         NEW e \in Event, NEW i \in Identifier
  PROVE  InWindow(e, i)' \subseteq InWindow(e, i) /\ InBetween(e, i)' \subseteq InBetween(e, i)
  <1>0. worker \in [Worker -> {Idle} \cup Calls] /\ Idle.call = "none" /\ now \in Int
        /\ Window[e] \in Nat /\ \A r \in flood : r.timestamp \in Int
    BY FloodAssumption DEF TypeOK, Idle, Row
  <1>1. now' \in Int /\ now <= now'
    BY StepWorkers
  <1>2. flood' \subseteq flood
    BY DEF Next, Tick, CallRegister, StatementFails, CallFloodGC, FloodGC, AskIsAllowed, Starts,
           Clear, Empty, FloodUnban, Forget, Without
  <1>3. InWindow(e, i)' \subseteq InWindow(e, i)
    BY <1>0, <1>1, <1>2 DEF InWindow, Since, Of
  <1>4. CASE worker' = worker
    BY <1>3, <1>4 DEF InBetween
  <1>5. ASSUME NEW w \in Worker, NEW c, worker' = [worker EXCEPT ![w] = c],
               c.call \in {"allowed", "Register"} =>
                 /\ worker[w].call \in {"allowed", "Register"}
                 /\ worker[w].event = c.event /\ worker[w].identifier = c.identifier
        PROVE  InBetween(e, i)' \subseteq InBetween(e, i)
    <2>1. \A v \in Worker : worker'[v] = IF v = w THEN c ELSE worker[v]
      BY <1>0, <1>5
    <2>2. QED BY <1>5, <2>1 DEF InBetween
  <1>6. ASSUME NEW w \in Worker, Returns(w) PROVE InBetween(e, i)' \subseteq InBetween(e, i)
    BY <1>0, <1>5, <1>6 DEF Returns
  <1>7. ASSUME NEW w \in Worker, CallFloodGC(w) PROVE InBetween(e, i)' \subseteq InBetween(e, i)
    <2> DEFINE c == [call |-> "FloodGC", time |-> now]
    <2>1. c.call \notin {"allowed", "Register"} /\ worker' = [worker EXCEPT ![w] = c]
      BY <1>7 DEF CallFloodGC, Starts
    <2> HIDE DEF c
    <2>2. QED BY <1>5, <2>1
  <1>8. ASSUME NEW w \in Worker, NEW f \in Event, NEW j \in Identifier, AskIsAllowed(w, f, j)
        PROVE  InBetween(e, i)' \subseteq InBetween(e, i)
    <2> DEFINE c == Call("IsAllowed", f, j, now - Window[f])
    <2>1. c.call \notin {"allowed", "Register"} /\ worker' = [worker EXCEPT ![w] = c]
      BY <1>8 DEF AskIsAllowed, Starts, Call
    <2> HIDE DEF c
    <2>2. QED BY <1>5, <2>1
  <1>9. ASSUME NEW w \in Worker, CallRegister(w) PROVE InBetween(e, i)' \subseteq InBetween(e, i)
    <2> DEFINE c == Call("Register", worker[w].event, worker[w].identifier, now)
    <2>1. /\ c.event = worker[w].event /\ c.identifier = worker[w].identifier
          /\ worker[w].call = "allowed" /\ worker' = [worker EXCEPT ![w] = c]
      BY <1>9 DEF CallRegister, Call
    <2> HIDE DEF c
    <2>2. QED BY <1>5, <2>1
  <1>10. \/ worker' = worker
         \/ \E w \in Worker : \/ Returns(w) \/ CallFloodGC(w) \/ CallRegister(w)
                              \/ \E f \in Event, j \in Identifier : AskIsAllowed(w, f, j)
    BY DEF Next, Tick, StatementFails, FloodGC, Clear, Empty, FloodUnban, Forget
  <1>11. QED BY <1>3, <1>4, <1>6, <1>7, <1>8, <1>9, <1>10

(* The bound is kept.                                                      *)
LEMMA StepRate ==
  ASSUME Inductive, Next PROVE RateLimit'
  <1> SUFFICES ASSUME NEW e \in Event, NEW i \in Identifier PROVE Bounded(e, i)'
    BY DEF RateLimit, Bounded
  <1>1. TypeOK /\ TableOK /\ TimesOK /\ Bounded(e, i)
    BY DEF Inductive, RateLimit, Bounded
  <1>2. IsFiniteSet(flood) /\ IsFiniteSet(flood')
    <2>1. TableOK'
      BY <1>1, StepTable
    <2>2. QED BY <1>1, <2>1 DEF TableOK
  <1>3. CASE \E w \in Worker : IsAllowed(w)
    BY <1>1, <1>3, AllowedKeepsBound
  <1>4. CASE \E w \in Worker : Register(w)
    BY <1>1, <1>2, <1>4, RegisterKeepsBound
  <1>5. CASE \A w \in Worker : ~IsAllowed(w) /\ ~Register(w)
    BY <1>1, <1>2, <1>5, OthersKeepBound, BoundStays
  <1>6. QED BY <1>3, <1>4, <1>5

-----------------------------------------------------------------------------
(* The table is empty and nobody asked.                                    *)
LEMMA InitInductive == Init => Inductive
  <1> SUFFICES ASSUME Init PROVE Inductive
    OBVIOUS
  <1>1. TypeOK /\ TimesOK
    BY FloodAssumption DEF Init, TypeOK, TimesOK, Idle
  <1>2. TableOK
    BY FS_EmptySet DEF Init, TableOK, RowsAreHits, HitsAreOwn, HitsAreKept
  <1>3. RateLimit
    <2> SUFFICES ASSUME NEW e \in Event, NEW i \in Identifier PROVE Bounded(e, i)
      BY DEF RateLimit, Bounded
    <2>1. InWindow(e, i) = {} /\ InBetween(e, i) = {}
      BY DEF Init, InWindow, Since, Of, InBetween, Idle
    <2>2. Counted(e, i) = 0 /\ Pending(e, i) = 0
      BY <2>1, FS_EmptySet DEF Counted, Count, InWindow, Pending
    <2>3. Cardinality(Worker) \in Nat \ {0}
      BY FS_CardinalityType, FS_EmptySet, FloodAssumption
    <2>4. QED BY <2>2, <2>3, FloodAssumption DEF Bounded
  <1>4. QED BY <1>1, <1>2, <1>3 DEF Inductive

(* Every step keeps the invariant.                                         *)
LEMMA StepInductive == Inductive /\ [Next]_vars => Inductive'
  <1> SUFFICES ASSUME Inductive, [Next]_vars PROVE Inductive'
    OBVIOUS
  <1>1. CASE UNCHANGED vars
    BY <1>1 DEF vars, Inductive, TypeOK, TimesOK, TableOK, RowsAreHits, HitsAreOwn, HitsAreKept,
                RateLimit, Counted, Count, Since, Of, Pending, InBetween
  <1>2. CASE Next
    <2>1. TypeOK /\ TimesOK /\ TableOK
      BY DEF Inductive
    <2>2. TypeOK' /\ TimesOK' /\ TableOK'
      BY <1>2, <2>1, StepWorkers, StepTable DEF TypeOK
    <2>3. QED BY <1>2, <2>2, StepRate DEF Inductive
  <1>3. QED BY <1>1, <1>2

(* The invariant, along every behaviour.                                   *)
THEOREM Invariance == Spec => []Inductive
  BY InitInductive, StepInductive, PTL DEF Spec

(* Every variable keeps its type.                                          *)
THEOREM Typing == Spec => []TypeOK
  BY Invariance, PTL DEF Inductive

(* Of n workers that ask and register in two statements, n - 1 at most get *)
(* past the threshold, whatever is deleted in between and however late     *)
(* their clock readings are used.                                          *)
THEOREM LimitsRate == Spec => []RateLimit
  BY Invariance, PTL DEF Inductive

-----------------------------------------------------------------------------
(* As many rows as hits that they were made of.                            *)
LEMMA SameNumber ==
  ASSUME TypeOK, TableOK, NEW H \in SUBSET hits, NEW R, R = {RowOf(h) : h \in H}
  PROVE  IsFiniteSet(R) /\ Cardinality(R) = Cardinality(H)
  <1> DEFINE f == [h \in H |-> RowOf(h)]
  <1>1. f \in [H -> R]
    OBVIOUS
  <1>2. \A g, h \in H : f[g] = f[h] => g = h
    <2> SUFFICES ASSUME NEW g \in H, NEW h \in H, f[g] = f[h] PROVE g = h
      OBVIOUS
    <2>1. g.id = h.id
      BY RowIs DEF TypeOK
    <2>2. QED BY <2>1 DEF TableOK, HitsAreOwn
  <1>3. \A r \in R : \E h \in H : f[h] = r
    OBVIOUS
  <1>4. f \in Bijection(H, R)
    BY <1>1, <1>2, <1>3 DEF Bijection, Injection, Surjection, IsInjective
  <1>5. IsFiniteSet(H)
    BY FS_Subset DEF TableOK
  <1>6. QED BY <1>4, <1>5, FS_Bijection DEF ExistsBijection

(* A hit that the window of now has even after the truncation still has    *)
(* its row.                                                                *)
LEMMA RowIsThere ==
  ASSUME TypeOK, TableOK, NEW h \in hits,
         \/ h.at > now - Window[h.event] + Second - 1
         \/ Window[h.event] % Second = 0 /\ Datetime(h.at) > now - Window[h.event]
  PROVE  RowOf(h) \in flood
  <1>1. /\ h.at \in Nat /\ Window[h.event] \in Nat \ {0} /\ now \in Nat
        /\ RowOf(h) \in flood \/ Expiration(h.at, h.event) < now
    BY RowIs, FloodAssumption DEF TypeOK, TableOK, HitsAreKept
  <1> DEFINE m == Window[h.event]
  <1>2. h.at \in Int /\ h.at + m \in Int /\ m \in Nat /\ now \in Int
    BY <1>1
  <1>3. Expiration(h.at, h.event) = Datetime(h.at + m)
    BY DEF Expiration
  <1> HIDE DEF m
  <1>4. /\ Datetime(h.at + m) \in Int /\ h.at + m - 2 <= Datetime(h.at + m)
        /\ Datetime(h.at) \in Int
        /\ m % Second = 0 => Datetime(h.at + m) = Datetime(h.at) + m
    <2>1. Datetime(h.at) \in Int
          /\ \A k \in Nat : k % Second = 0 => Datetime(h.at + k) = Datetime(h.at) + k
      BY <1>2, DatetimeIs
    <2>2. Datetime(h.at + m) \in Int /\ h.at + m - 2 <= Datetime(h.at + m)
      <3> DEFINE t == h.at + m
      <3>1. t \in Int
        BY <1>2
      <3> HIDE DEF t
      <3>2. Datetime(t) \in Int /\ t - 2 <= Datetime(t)
        BY <3>1, DatetimeIs
      <3>3. QED BY <1>2, <3>2 DEF t
    <2>3. QED BY <1>2, <2>1, <2>2
  <1>5. Datetime(h.at + m) >= now
    BY <1>2, <1>4 DEF m, Second
  <1>6. QED BY <1>1, <1>2, <1>3, <1>4, <1>5

(* The hits of the window are the rows of it and those that the columns'    *)
(* truncation took out of it, which are less than a second from its start. *)
THEOREM CountsHits == Spec => []HitsCount
  <1>1. Inductive => HitsCount
    <2> SUFFICES ASSUME Inductive, NEW e \in Event, NEW i \in Identifier
                 PROVE  /\ Cardinality(HitsAfter(e, i, now - Window[e] + Second - 1))
                             <= Counted(e, i)
                        /\ Counted(e, i) <= Cardinality(HitsAfter(e, i, now - Window[e]))
      BY DEF HitsCount
    <2> DEFINE H == HitsAfter(e, i, now - Window[e] + Second - 1)
               R == {RowOf(h) : h \in H}
               G == HitsAfter(e, i, now - Window[e])
               Q == {RowOf(h) : h \in G}
    <2>1. TypeOK /\ TableOK /\ now \in Int /\ Window[e] \in Nat
      BY FloodAssumption DEF Inductive, TypeOK
    <2>2. /\ H \subseteq hits /\ \A h \in H : h.event = e /\ h.identifier = i
          /\ G \subseteq hits /\ \A h \in H : h.at > now - Window[e] + Second - 1
      BY DEF HitsAfter, Of
    <2>3. ASSUME NEW h \in H PROVE RowOf(h) \in InWindow(e, i)
      <3>1. RowOf(h) \in flood
        BY <2>1, <2>2, <2>3, RowIsThere
      <3>2. /\ RowOf(h).event = e /\ RowOf(h).identifier = i
            /\ RowOf(h).timestamp = Datetime(h.at) /\ h.at \in 0..MaxTime
        BY <2>1, <2>2, <2>3, RowIs DEF TypeOK
      <3>3. h.at \in Int /\ h.at > now - Window[e] + 2
        BY <2>1, <2>2, <2>3, <3>2, FloodAssumption DEF Second
      <3>4. Datetime(h.at) \in Int /\ h.at - 2 <= Datetime(h.at)
        BY <3>3, DatetimeIs
      <3>5. RowOf(h).timestamp > now - Window[e]
        BY <2>1, <3>2, <3>3, <3>4
      <3>6. QED BY <3>1, <3>2, <3>5 DEF InWindow, Since, Of
    <2>4. ASSUME NEW r \in InWindow(e, i) PROVE r \in Q
      <3>1. r \in flood /\ r.event = e /\ r.identifier = i /\ r.timestamp > now - Window[e]
        BY <2>4 DEF InWindow, Since, Of
      <3>2. PICK h \in hits : r = RowOf(h)
        BY <2>1, <3>1 DEF TableOK, RowsAreHits
      <3>3. /\ h.event = e /\ h.identifier = i /\ Datetime(h.at) = r.timestamp
            /\ h.at \in 0..MaxTime
        BY <2>1, <3>1, <3>2, RowIs DEF TypeOK
      <3>4. h.at \in Int
        BY <3>3, FloodAssumption
      <3>5. Datetime(h.at) \in Int /\ Datetime(h.at) <= h.at
        BY <3>4, DatetimeIs
      <3>6. h.at > now - Window[e]
        BY <2>1, <3>1, <3>3, <3>4, <3>5
      <3>7. h \in G
        BY <3>3, <3>6 DEF HitsAfter, Of
      <3>8. QED BY <3>2, <3>7
    <2> HIDE DEF H, G
    <2>5. R \subseteq InWindow(e, i) /\ InWindow(e, i) \subseteq Q
      BY <2>3, <2>4
    <2>6. /\ Cardinality(R) = Cardinality(H)
          /\ IsFiniteSet(Q) /\ Cardinality(Q) = Cardinality(G)
      BY <2>1, <2>2, SameNumber
    <2>7. IsFiniteSet(InWindow(e, i)) /\ Counted(e, i) = Cardinality(InWindow(e, i))
      BY <2>1, CountsAre DEF TableOK
    <2>8. Cardinality(R) <= Counted(e, i) /\ Counted(e, i) <= Cardinality(Q)
      BY <2>5, <2>6, <2>7, FS_Subset
    <2>9. QED BY <2>6, <2>8 DEF H, G
  <1>2. QED BY <1>1, Invariance, PTL

(* With a window of whole seconds the window's rows are those of the       *)
(* window's hits, and those that have not expired.                         *)
THEOREM CollectsUnseen == Spec => []GCIsInvisible
  <1>1. Inductive => GCIsInvisible
    <2> SUFFICES ASSUME Inductive, NEW e \in WholeSeconds, NEW i \in Identifier
                 PROVE  /\ Cardinality(Recent(e, i)) = Counted(e, i)
                        /\ Summary(e, i, now) = Counted(e, i)
      BY DEF GCIsInvisible
    <2>1. /\ TypeOK /\ TableOK /\ now \in Int /\ e \in Event
          /\ Window[e] \in Nat /\ Window[e] % Second = 0
      BY FloodAssumption DEF Inductive, TypeOK, WholeSeconds
    <2> DEFINE R == {RowOf(h) : h \in Recent(e, i)}
    <2>2. /\ Recent(e, i) \subseteq hits
          /\ \A h \in Recent(e, i) : /\ h.event = e /\ h.identifier = i
                                     /\ Datetime(h.at) > now - Window[e]
      BY DEF Recent, Of
    <2>3. ASSUME NEW h \in Recent(e, i) PROVE RowOf(h) \in InWindow(e, i)
      <3>1. RowOf(h) \in flood
        BY <2>1, <2>2, <2>3, RowIsThere
      <3>2. /\ RowOf(h).event = e /\ RowOf(h).identifier = i
            /\ RowOf(h).timestamp = Datetime(h.at)
        BY <2>1, <2>2, <2>3, RowIs DEF TypeOK
      <3>3. QED BY <2>2, <3>1, <3>2 DEF InWindow, Since, Of
    <2>4. ASSUME NEW r \in InWindow(e, i) PROVE r \in R
      <3>1. r \in flood /\ r.event = e /\ r.identifier = i /\ r.timestamp > now - Window[e]
        BY <2>4 DEF InWindow, Since, Of
      <3>2. PICK h \in hits : r = RowOf(h)
        BY <2>1, <3>1 DEF TableOK, RowsAreHits
      <3>3. h.event = e /\ h.identifier = i /\ Datetime(h.at) = r.timestamp
        BY <2>1, <3>1, <3>2, RowIs DEF TypeOK
      <3>4. h \in Recent(e, i)
        BY <3>1, <3>2, <3>3 DEF Recent, Of
      <3>5. QED BY <3>2, <3>4
    <2>5. R = InWindow(e, i)
      BY <2>3, <2>4
    <2>6. Counted(e, i) = Cardinality(InWindow(e, i))
      BY DEF Counted, Count, InWindow
    <2>7. Cardinality(R) = Cardinality(Recent(e, i))
      BY <2>1, <2>2, SameNumber
    <2>8. Listed(e, i, now) = InWindow(e, i)
      <3>1. ASSUME NEW r \in flood, r.event = e
            PROVE  r.expiration > now <=> r.timestamp > now - Window[e]
        <4>1. PICK h \in hits : r = RowOf(h)
          BY <2>1, <3>1 DEF TableOK, RowsAreHits
        <4>2. /\ h.event = e /\ h.at \in 0..MaxTime /\ r.timestamp = Datetime(h.at)
              /\ r.expiration = Expiration(h.at, h.event)
          BY <2>1, <3>1, <4>1, RowIs DEF TypeOK
        <4>3. h.at \in Int
          BY <4>2, FloodAssumption
        <4>4. Datetime(h.at) \in Int /\ Datetime(h.at + Window[e]) = Datetime(h.at) + Window[e]
          BY <2>1, <4>3, DatetimeIs
        <4>5. r.expiration = r.timestamp + Window[e] /\ r.timestamp \in Int
          BY <4>2, <4>4 DEF Expiration
        <4>6. QED BY <2>1, <4>5
      <3>2. QED BY <3>1 DEF Listed, InWindow, Since, Of
    <2>9. QED BY <2>5, <2>6, <2>7, <2>8 DEF Summary
  <1>2. QED BY <1>1, Invariance, PTL
=============================================================================
