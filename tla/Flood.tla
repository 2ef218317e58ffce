-------------------------------- MODULE Flood --------------------------------
(***************************************************************************)
(* wwdb/flood.go over the table of wwdb/flood.sql: counting the hits of an *)
(* identifier on an event in a sliding window.  Each call reads the clock  *)
(* first and runs its one statement later; the columns are DATETIME, into  *)
(* which MariaDB (whose syntax flood.sql is) truncates: whole seconds      *)
(* remain.  Workers use the two calls as a guard: ask IsAllowed, and       *)
(* Register a hit when the answer is yes.                                  *)
(***************************************************************************)
EXTENDS Integers, FiniteSets

CONSTANTS Worker, Event, Identifier,
          Window,      \* Window[e] in ticks: Flood.Window of the Flood named e
          Threshold,   \* Flood.Threshold
          Id,          \* UUID(); its number bounds the hits that nobody cleared
          MaxTime      \* bound: the clock stops there

Second == 3            \* ticks

ASSUME FloodAssumption == /\ IsFiniteSet(Worker) /\ Worker # {}
                          /\ Window \in [Event -> Nat \ {0}]
                          /\ Threshold \in Nat /\ MaxTime \in Nat

VARIABLES now,
          flood,       \* the table
          worker,      \* worker[w]: the call w is in, and the time it read
          hits         \* history: when and for whom each row was inserted, unless it was
                       \* cleared since; FloodGC leaves it alone

vars == <<now, flood, worker, hits>>

Idle == [call |-> "none"]
Call(name, e, i, t) == [call |-> name, event |-> e, identifier |-> i, time |-> t]
Calls == [call : {"IsAllowed", "allowed", "Register"}, event : Event,
          identifier : Identifier, time : Int]
         \cup [call : {"FloodGC"}, time : 0..MaxTime]

Row == [id : Id, event : Event, identifier : Identifier, timestamp : Int, expiration : Int]
Hit == [id : Id, event : Event, identifier : Identifier, at : 0..MaxTime]

TypeOK == /\ now \in 0..MaxTime
          /\ flood \subseteq Row /\ hits \subseteq Hit
          /\ worker \in [Worker -> {Idle} \cup Calls]

Init == /\ now = 0 /\ flood = {} /\ hits = {}
        /\ worker = [w \in Worker |-> Idle]

(* Mutant: the column rounds.                                              *)
Round(t) == Second * ((t + 1) \div Second)

(* How a DATETIME column stores a time.                                    *)
Datetime(t) == Second * (t \div Second)

Tick == now < MaxTime /\ now' = now + 1 /\ UNCHANGED <<flood, worker, hits>>

Starts(w, call) == /\ worker[w] = Idle
                   /\ worker' = [worker EXCEPT ![w] = call]
                   /\ UNCHANGED <<now, flood, hits>>
Returns(w) == worker' = [worker EXCEPT ![w] = Idle]

-----------------------------------------------------------------------------
AskIsAllowed(w, e, i) == Starts(w, Call("IsAllowed", e, i, now - Window[e]))

(* Mutant: one hit too many.                                               *)
AllowedUpTo(count) == count <= Threshold

Allowed(count) == count < Threshold

Of(rows, e, i) == {r \in rows : r.event = e /\ r.identifier = i}
Since(e, i, since) == {r \in Of(flood, e, i) : r.timestamp > since}
Count(e, i, since) == Cardinality(Since(e, i, since))

IsAllowed(w) ==
  /\ worker[w].call = "IsAllowed"
  /\ LET c == worker[w] IN
       IF Allowed(Count(c.event, c.identifier, c.time))
       THEN worker' = [worker EXCEPT ![w] = Call("allowed", c.event, c.identifier, 0)]
       ELSE Returns(w)
  /\ UNCHANGED <<now, flood, hits>>

CallRegister(w) ==
  /\ worker[w].call = "allowed"
  /\ worker' = [worker EXCEPT
                   ![w] = Call("Register", worker[w].event, worker[w].identifier, now)]
  /\ UNCHANGED <<now, flood, hits>>

Expiration(t, e) == Datetime(t + Window[e])

RowOf(hit) == [id |-> hit.id, event |-> hit.event, identifier |-> hit.identifier,
               timestamp |-> Datetime(hit.at), expiration |-> Expiration(hit.at, hit.event)]

Register(w) ==
  /\ worker[w].call = "Register"
  /\ \E id \in Id \ {h.id : h \in hits} :
       LET hit == [id |-> id, event |-> worker[w].event, identifier |-> worker[w].identifier,
                   at |-> worker[w].time]
       IN  flood' = flood \cup {RowOf(hit)} /\ hits' = hits \cup {hit}
  /\ Returns(w)
  /\ UNCHANGED now

(* The statement fails: Register and IsAllowed panic.                      *)
StatementFails(w) == /\ worker[w].call \in {"IsAllowed", "Register", "FloodGC"}
                     /\ Returns(w)
                     /\ UNCHANGED <<now, flood, hits>>

CallFloodGC(w) == Starts(w, [call |-> "FloodGC", time |-> now])

(* Mutant: what expires within a second is deleted too.                    *)
ExpiredSoon(r, t) == r.expiration < t + Second

Expired(r, t) == r.expiration < t

FloodGC(w) == /\ worker[w].call = "FloodGC"
              /\ flood' = {r \in flood : ~Expired(r, worker[w].time)}
              /\ Returns(w)
              /\ UNCHANGED <<now, hits>>

(* Deleting on request forgets the hits themselves.                        *)
Without(rows, events, identifiers) ==
  {r \in rows : ~(r.event \in events /\ r.identifier \in identifiers)}
Forget(events, identifiers) == /\ flood' = Without(flood, events, identifiers)
                               /\ hits' = Without(hits, events, identifiers)
                               /\ UNCHANGED <<now, worker>>

Clear(e, i) == Forget({e}, {i})
Empty(e) == Forget({e}, Identifier)
FloodUnban(i) == Forget(Event, {i})

(* What the count column of FloodGetSummary counts for one group.          *)
Listed(e, i, t) == {r \in Of(flood, e, i) : r.expiration > t}
Summary(e, i, t) == Cardinality(Listed(e, i, t))

Next == \/ Tick
        \/ \E w \in Worker :
             \/ IsAllowed(w) \/ CallRegister(w) \/ Register(w) \/ StatementFails(w)
             \/ CallFloodGC(w) \/ FloodGC(w)
             \/ \E e \in Event, i \in Identifier : AskIsAllowed(w, e, i)
        \/ \E e \in Event, i \in Identifier : Clear(e, i)
        \/ \E e \in Event : Empty(e)
        \/ \E i \in Identifier : FloodUnban(i)

Spec == Init /\ [][Next]_vars

-----------------------------------------------------------------------------
Counted(e, i) == Count(e, i, now - Window[e])
InBetween(e, i) == {w \in Worker : /\ worker[w].call \in {"allowed", "Register"}
                                   /\ worker[w].event = e /\ worker[w].identifier = i}
Pending(e, i) == Cardinality(InBetween(e, i))

(* Asking and registering are two statements: at any time the window holds *)
(* at most Threshold hits, and one more per further worker in between.     *)
RateLimit ==
  \A e \in Event, i \in Identifier :
     Counted(e, i) + Pending(e, i) <= Threshold - 1 + Cardinality(Worker)

(* A guard asked now counts no hit but those of the last Window, and all   *)
(* of them but what the column truncated out of it: a hit counts for less  *)
(* than a second less than Window says, and never for longer.              *)
HitsAfter(e, i, t) == {h \in Of(hits, e, i) : h.at > t}
HitsCount ==
  \A e \in Event, i \in Identifier :
     LET start == now - Window[e]
     IN  /\ Cardinality(HitsAfter(e, i, start + Second - 1)) <= Counted(e, i)
         /\ Counted(e, i) <= Cardinality(HitsAfter(e, i, start))

(* FloodGC is invisible: nothing it deleted would be counted, and what     *)
(* "flood get" lists is what IsAllowed counts, for windows of whole        *)
(* seconds.                                                                *)
WholeSeconds == {e \in Event : Window[e] % Second = 0}
Recent(e, i) == {h \in Of(hits, e, i) : Datetime(h.at) > now - Window[e]}
GCIsInvisible ==
  \A e \in WholeSeconds, i \in Identifier :
     /\ Cardinality(Recent(e, i)) = Counted(e, i)
     /\ Summary(e, i, now) = Counted(e, i)

-----------------------------------------------------------------------------
(* What lies behind: a time that was read is not later than now; a row is  *)
(* what Register made of a hit, of which each has its own id; a hit        *)
(* without a row has expired.                                              *)
TimesOK ==
  \A w \in Worker :
    /\ worker[w].call = "IsAllowed" => worker[w].time <= now - Window[worker[w].event]
    /\ worker[w].call \in {"Register", "FloodGC"} => worker[w].time \in 0..now
RowsAreHits == \A r \in flood : \E h \in hits : r = RowOf(h)
HitsAreOwn == \A g, h \in hits : g.id = h.id => g = h
HitsAreKept == \A h \in hits : RowOf(h) \in flood \/ Expiration(h.at, h.event) < now
TableOK == /\ IsFiniteSet(flood) /\ IsFiniteSet(hits)
           /\ RowsAreHits /\ HitsAreOwn /\ HitsAreKept

Inductive == TypeOK /\ TimesOK /\ TableOK /\ RateLimit
=============================================================================
