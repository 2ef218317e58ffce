------------------------------- MODULE Events -------------------------------
(***************************************************************************)
(* events.go: Events[T], the in-memory rendezvous between goroutines that  *)
(* wait for a group of named events and the goroutines that trigger them.  *)
(*                                                                         *)
(* A critical section of f.mut is one action: nothing else touches the map *)
(* while it runs, and a receiver that parks in its select during           *)
(* TriggerEvent's loop could as well have parked before it.  What lies     *)
(* between two critical sections of one call is a program counter:         *)
(*                                                                         *)
(*   "found"      WaitForGroup released the read lock, before the select   *)
(*   "receiving"  WaitForGroup is parked in the select                     *)
(*   "returned"   WaitForGroup returned result[g] to its caller            *)
(*   "closing"    CancelWatch released the read lock, before the lock      *)
(*   "panicked"   CancelWatch closed a closed channel                      *)
(***************************************************************************)
EXTENDS FiniteSets

CONSTANTS Goroutine,   \* the goroutines that call the package
          EventName,   \* names of events
          GroupId,     \* the uuids handed out; their number bounds a run
          NoEvent,     \* the nil *T
          NoGroup      \* no argument

ASSUME EventsAssumption == /\ NoEvent \notin EventName
                           /\ NoGroup \notin GroupId

VARIABLES
  watched,      \* the keys of f.watched
  eventNames,   \* eventNames[i]: group i's remaining names
  done,         \* done[i]: state of group i's channel
  pc,           \* pc[g]: where goroutine g is
  group,        \* group[g]: the id g passed to its latest call
  result,       \* result[g]: what g's latest WaitForGroup returned
  asked,        \* history: the names group i was opened with
  seen          \* history: the events triggered while i's channel was open

vars == <<watched, eventNames, done, pc, group, result, asked, seen>>

AtRest == {"idle", "returned"}

TypeOK == /\ watched \in SUBSET GroupId
          /\ eventNames \in [GroupId -> SUBSET EventName]
          /\ done \in [GroupId -> {"unmade", "open", "closed"}]
          /\ pc \in [Goroutine -> AtRest \cup {"found", "receiving", "closing", "panicked"}]
          /\ group \in [Goroutine -> GroupId \cup {NoGroup}]
          /\ result \in [Goroutine -> EventName \cup {NoEvent}]
          /\ asked \in [GroupId -> SUBSET EventName]
          /\ seen \in [GroupId -> SUBSET EventName]

Init == /\ watched = {}
        /\ eventNames = [i \in GroupId |-> {}]
        /\ done = [i \in GroupId |-> "unmade"]
        /\ pc = [g \in Goroutine |-> "idle"]
        /\ group = [g \in Goroutine |-> NoGroup]
        /\ result = [g \in Goroutine |-> NoEvent]
        /\ asked = [i \in GroupId |-> {}]
        /\ seen = [i \in GroupId |-> {}]

Parked(i) == {g \in Goroutine : pc[g] = "receiving" /\ group[g] = i}

Return(g, i, e) == /\ pc' = [pc EXCEPT ![g] = "returned"]
                   /\ group' = [group EXCEPT ![g] = i]
                   /\ result' = [result EXCEPT ![g] = e]

Goto(g, i, label) == /\ pc' = [pc EXCEPT ![g] = label]
                     /\ group' = [group EXCEPT ![g] = i]
                     /\ result' = [result EXCEPT ![g] = NoEvent]

-----------------------------------------------------------------------------
(* WatchForEvents: a fresh uuid, registered with an open channel.          *)
WatchForEvents(g, i, names) ==
  /\ pc[g] \in AtRest
  /\ done[i] = "unmade"
  /\ watched' = watched \cup {i}
  /\ eventNames' = [eventNames EXCEPT ![i] = names]
  /\ done' = [done EXCEPT ![i] = "open"]
  /\ asked' = [asked EXCEPT ![i] = names]
  /\ UNCHANGED <<pc, group, result, seen>>

(* WaitForGroup up to RUnlock: an id that is not in the map returns nil.   *)
WaitForGroup(g, i) ==
  /\ pc[g] \in AtRest
  /\ IF i \in watched THEN Goto(g, i, "found") ELSE Return(g, i, NoEvent)
  /\ UNCHANGED <<watched, eventNames, done, asked, seen>>

WaitSelect(g) ==
  /\ pc[g] = "found"
  /\ pc' = [pc EXCEPT ![g] = "receiving"]
  /\ UNCHANGED <<watched, eventNames, done, group, result, asked, seen>>

(* A receive from a closed channel yields the zero *T.                     *)
WaitClosed(g) ==
  /\ pc[g] = "receiving"
  /\ done[group[g]] = "closed"
  /\ Return(g, group[g], NoEvent)
  /\ UNCHANGED <<watched, eventNames, done, asked, seen>>

WaitCtxDone(g) ==
  /\ pc[g] = "receiving"
  /\ Return(g, group[g], NoEvent)
  /\ UNCHANGED <<watched, eventNames, done, asked, seen>>

CancelWatch(g, i) ==
  /\ pc[g] \in AtRest
  /\ i \in watched   \* otherwise CancelWatch returns and changes nothing
  /\ Goto(g, i, "closing")
  /\ UNCHANGED <<watched, eventNames, done, asked, seen>>

(* Mutant: the channel is never closed.                                    *)
CancelForget(g) ==
  /\ pc[g] = "closing"
  /\ watched' = watched \ {group[g]}
  /\ pc' = [pc EXCEPT ![g] = "idle"]
  /\ UNCHANGED <<eventNames, done, group, result, asked, seen>>

(* The second critical section deletes and closes without looking again;   *)
(* closing a closed channel panics, and the deferred Unlock still runs.    *)
CancelClose(g) ==
  /\ pc[g] = "closing"
  /\ watched' = watched \ {group[g]}
  /\ done' = [done EXCEPT ![group[g]] = "closed"]
  /\ pc' = [pc EXCEPT ![g] = IF done[group[g]] = "closed" THEN "panicked" ELSE "idle"]
  /\ UNCHANGED <<eventNames, group, result, asked, seen>>

-----------------------------------------------------------------------------
(* Mutant: the group is reported at the first of its names.                *)
CompletesAny(e) == {i \in watched : e \in eventNames[i]}

Completes(e) == {i \in watched : eventNames[i] = {e}}

(* Mutant: every parked receiver gets the event.                           *)
TakersAll(ended, takers) == takers = UNION {Parked(i) : i \in ended}

(* The non-blocking sends of one TriggerEvent: in each group that          *)
(* completes one parked receiver, if there is one, takes the event.        *)
Takers(ended, takers) ==
  /\ \A g \in takers : \E i \in ended : g \in Parked(i)
  /\ \A i \in ended : Parked(i) # {} => \E g \in takers : group[g] = i
  /\ \A g, h \in takers : group[g] = group[h] => g = h

TriggerEvent(g, e) ==
  /\ pc[g] \in AtRest
  /\ eventNames' = [i \in GroupId |-> IF i \in watched THEN eventNames[i] \ {e}
                                      ELSE eventNames[i]]
  /\ watched' = watched \ Completes(e)
  /\ done' = [i \in GroupId |-> IF i \in Completes(e) THEN "closed" ELSE done[i]]
  /\ seen' = [i \in GroupId |-> IF done[i] = "open" THEN seen[i] \cup {e} ELSE seen[i]]
  /\ \E takers \in SUBSET Goroutine :
       /\ Takers(Completes(e), takers)
       /\ pc' = [h \in Goroutine |-> IF h \in takers THEN "returned" ELSE pc[h]]
       /\ result' = [h \in Goroutine |-> IF h \in takers THEN e ELSE result[h]]
  /\ UNCHANGED <<group, asked>>

EventIsBeingWatched(e) == \E i \in watched : e \in eventNames[i]

Next == \E g \in Goroutine :
          \/ \E i \in GroupId, names \in SUBSET EventName : WatchForEvents(g, i, names)
          \/ \E i \in GroupId : WaitForGroup(g, i) \/ CancelWatch(g, i)
          \/ \E e \in EventName : TriggerEvent(g, e)
          \/ WaitSelect(g) \/ WaitClosed(g) \/ WaitCtxDone(g) \/ CancelClose(g)

Spec == Init /\ [][Next]_vars

(* A goroutine that can run does run; nobody has to make a call, and a     *)
(* context need never be done.                                             *)
FairSpec == Spec /\ \A g \in Goroutine : WF_vars(WaitSelect(g) \/ WaitClosed(g) \/ CancelClose(g))
-----------------------------------------------------------------------------
(* A group is in the map exactly while its channel is open: the two are    *)
(* updated by three critical sections, one of which acts on a stale look.  *)
OpenIffWatched == \A i \in GroupId : done[i] = "open" <=> i \in watched

(* Nobody is handed an event before every name of its group was triggered  *)
(* while the group was open, and by then the group has left the map.       *)
CompleteBeforeDelivery ==
  \A g \in Goroutine : pc[g] = "returned" /\ result[g] # NoEvent =>
      /\ asked[group[g]] \subseteq seen[group[g]]
      /\ group[g] \notin watched

(* The completing event is handed to one waiter of the group at most.      *)
SingleDelivery ==
  \A g, h \in Goroutine :
    /\ pc[g] = "returned" /\ result[g] # NoEvent
    /\ pc[h] = "returned" /\ result[h] # NoEvent
    /\ group[g] = group[h]
    => g = h

(* The completing event goes to one waiter at most, and to none before.    *)
DeliveredOnce == CompleteBeforeDelivery /\ SingleDelivery

(* EventIsBeingWatched says yes exactly while some open group still lacks  *)
(* the event, however calls interleave.                                    *)
WatchedExactly ==
  \A e \in EventName : EventIsBeingWatched(e)
     <=> \E i \in GroupId : done[i] = "open" /\ e \in asked[i] \ seen[i]

(* A waiter whose group is over, fired or cancelled, comes back.           *)
Waits(g) == pc[g] \in {"found", "receiving"}
NoStranding ==
  \A g \in Goroutine : (Waits(g) /\ group[g] \notin watched) ~> ~Waits(g)

(* The package implements OneShot: the life of a group can be read off its *)
(* channel and its remaining names.                                        *)
LifeOf(i) == CASE done[i] = "unmade" -> "unmade"
               [] done[i] = "open" -> "open"
               [] done[i] = "closed" /\ asked[i] # {} /\ eventNames[i] = {} -> "fired"
               [] OTHER -> "cancelled"

Abstract == INSTANCE OneShot WITH life <- [i \in GroupId |-> LifeOf(i)],
                                  awaited <- eventNames
ImplementsOneShot == Abstract!Spec
=============================================================================
