---------------------------- MODULE EventsProofs ----------------------------
(***************************************************************************)
(* Proofs about events.go for any goroutines, events and groups.  The      *)
(* inductive invariant ties the map to the channels (OpenIffWatched), the  *)
(* remaining names to the history (Remaining), and whoever holds an event  *)
(* to a group that is over (DeliveredIsOver).                              *)
(***************************************************************************)
EXTENDS Events, TLAPS

Delivered(g) == pc[g] = "returned" /\ result[g] # NoEvent

Remaining == \A i \in GroupId : /\ eventNames[i] = asked[i] \ seen[i]
                                /\ done[i] = "unmade" => seen[i] = {}

OpenLacksNames ==
  \A i \in GroupId : done[i] = "open" /\ asked[i] # {} => eventNames[i] # {}

DeliveredIsOver ==
  \A g \in Goroutine : Delivered(g) =>
     group[g] \in GroupId /\ done[group[g]] = "closed" /\ eventNames[group[g]] = {}

CallHasGroup ==
  \A g \in Goroutine : pc[g] \in {"found", "receiving", "closing"} =>
     group[g] \in GroupId /\ done[group[g]] # "unmade"

IInv == /\ TypeOK
        /\ OpenIffWatched
        /\ Remaining
        /\ OpenLacksNames
        /\ DeliveredIsOver
        /\ CallHasGroup
        /\ SingleDelivery

USE DEF AtRest

(* It holds before the first call.                                         *)
LEMMA InitIInv == Init => IInv
  BY EventsAssumption DEF Init, IInv, TypeOK, OpenIffWatched, Remaining, OpenLacksNames,
     DeliveredIsOver, CallHasGroup, SingleDelivery, Delivered

(* Every step keeps the types and the map in step with the channels.       *)
LEMMA StepTypeOK == IInv /\ [Next]_vars => TypeOK' /\ OpenIffWatched'
  <1> SUFFICES ASSUME IInv, [Next]_vars PROVE TypeOK' /\ OpenIffWatched'
    OBVIOUS
  <1> USE EventsAssumption DEF IInv, TypeOK, OpenIffWatched, CallHasGroup
  <1>1. ASSUME NEW g \in Goroutine, NEW i \in GroupId, NEW names \in SUBSET EventName,
               WatchForEvents(g, i, names)
        PROVE  TypeOK' /\ OpenIffWatched'
    BY <1>1 DEF WatchForEvents
  <1>2. ASSUME NEW g \in Goroutine, NEW i \in GroupId, WaitForGroup(g, i)
        PROVE  TypeOK' /\ OpenIffWatched'
    BY <1>2 DEF WaitForGroup, Goto, Return
  <1>3. ASSUME NEW g \in Goroutine, NEW i \in GroupId, CancelWatch(g, i)
        PROVE  TypeOK' /\ OpenIffWatched'
    BY <1>3 DEF CancelWatch, Goto
  <1>4. ASSUME NEW g \in Goroutine, NEW e \in EventName, TriggerEvent(g, e)
        PROVE  TypeOK' /\ OpenIffWatched'
    <2>1. PICK takers \in SUBSET Goroutine :
            /\ pc' = [h \in Goroutine |-> IF h \in takers THEN "returned" ELSE pc[h]]
            /\ result' = [h \in Goroutine |-> IF h \in takers THEN e ELSE result[h]]
      BY <1>4 DEF TriggerEvent
    <2>2. TypeOK'
      BY <1>4, <2>1 DEF TriggerEvent, Completes
    <2>3. OpenIffWatched'
      BY <1>4 DEF TriggerEvent, Completes
    <2>4. QED BY <2>2, <2>3
  <1>5. ASSUME NEW g \in Goroutine, WaitSelect(g)
        PROVE  TypeOK' /\ OpenIffWatched'
    BY <1>5 DEF WaitSelect
  <1>6. ASSUME NEW g \in Goroutine, WaitClosed(g) \/ WaitCtxDone(g)
        PROVE  TypeOK' /\ OpenIffWatched'
    BY <1>6 DEF WaitClosed, WaitCtxDone, Return
  <1>7. ASSUME NEW g \in Goroutine, CancelClose(g)
        PROVE  TypeOK' /\ OpenIffWatched'
    BY <1>7 DEF CancelClose
  <1>8. CASE UNCHANGED vars
    BY <1>8 DEF vars
  <1>9. QED
    BY <1>1, <1>2, <1>3, <1>4, <1>5, <1>6, <1>7, <1>8 DEF Next

(* A trigger strikes the event off every group in the map, and hands it to *)
(* parked waiters of the groups that are over by it.                       *)
LEMMA TriggerRest ==
  ASSUME IInv, NEW g \in Goroutine, NEW e \in EventName, TriggerEvent(g, e)
  PROVE  Remaining' /\ OpenLacksNames' /\ DeliveredIsOver' /\ CallHasGroup' /\ SingleDelivery'
  <1>1. PICK takers \in SUBSET Goroutine :
          /\ Takers(Completes(e), takers)
          /\ pc' = [h \in Goroutine |-> IF h \in takers THEN "returned" ELSE pc[h]]
          /\ result' = [h \in Goroutine |-> IF h \in takers THEN e ELSE result[h]]
    BY DEF TriggerEvent
  <1>2. /\ group' = group
        /\ asked' = asked
        /\ \A i \in GroupId :
             /\ eventNames'[i] = IF i \in watched THEN eventNames[i] \ {e} ELSE eventNames[i]
             /\ done'[i] = IF i \in Completes(e) THEN "closed" ELSE done[i]
             /\ seen'[i] = IF done[i] = "open" THEN seen[i] \cup {e} ELSE seen[i]
    BY DEF TriggerEvent
  <1>3. \A i \in GroupId : done[i] = "open" <=> i \in watched
    BY DEF IInv, OpenIffWatched
  <1>4. \A i \in GroupId : i \in Completes(e) <=> i \in watched /\ eventNames[i] = {e}
    BY DEF Completes
  <1>5. Completes(e) \subseteq GroupId
    BY DEF Completes, IInv, TypeOK
  <1>6. \A h \in takers : group[h] \in Completes(e) /\ pc[h] = "receiving"
    BY <1>1 DEF Takers, Parked
  <1>7. \A h \in Goroutine : Delivered(h)' =>
           h \in takers \/ (h \notin takers /\ Delivered(h))
    BY <1>1 DEF Delivered
  <1>8. Remaining'
    <2>1. \A i \in GroupId : eventNames[i] = asked[i] \ seen[i] /\ (done[i] = "unmade" => seen[i] = {})
      BY DEF IInv, Remaining
    <2>2. QED BY <2>1, <1>2, <1>3, <1>4 DEF Remaining
  <1>9. OpenLacksNames'
    <2>1. \A i \in GroupId : eventNames[i] \in SUBSET EventName
      BY DEF IInv, TypeOK
    <2>2. \A i \in GroupId : done[i] = "open" /\ asked[i] # {} => eventNames[i] # {}
      BY DEF IInv, OpenLacksNames
    <2>3. \A S \in SUBSET EventName : S # {} /\ S # {e} => S \ {e} # {}
      OBVIOUS
    <2>4. QED BY <2>1, <2>2, <2>3, <1>2, <1>3, <1>4 DEF OpenLacksNames
  <1>10. DeliveredIsOver'
    <2>1. SUFFICES ASSUME NEW h \in Goroutine, Delivered(h)'
                   PROVE  /\ group[h] \in GroupId
                          /\ done'[group[h]] = "closed"
                          /\ eventNames'[group[h]] = {}
      BY <1>2 DEF DeliveredIsOver
    <2>2. CASE h \in takers
      <3>1. {e} \ {e} = {}
        OBVIOUS
      <3>2. group[h] \in GroupId /\ group[h] \in watched /\ eventNames[group[h]] = {e}
        BY <2>2, <1>4, <1>5, <1>6
      <3>3. QED BY <3>1, <3>2, <1>2, <1>4
    <2>3. CASE Delivered(h)
      <3>1. group[h] \in GroupId /\ done[group[h]] = "closed" /\ eventNames[group[h]] = {}
        BY <2>3 DEF IInv, DeliveredIsOver
      <3>2. QED BY <3>1, <1>2
    <2>4. QED BY <2>1, <2>2, <2>3, <1>7
  <1>11. CallHasGroup'
    <2>1. \A h \in Goroutine : pc'[h] \in {"found", "receiving", "closing"} => pc'[h] = pc[h]
      BY <1>1
    <2>2. QED BY <2>1, <1>2 DEF IInv, CallHasGroup
  <1>12. SingleDelivery'
    <2>1. SUFFICES ASSUME NEW h \in Goroutine, NEW k \in Goroutine,
                          Delivered(h)', Delivered(k)', group[h] = group[k]
                   PROVE  h = k
      BY <1>2 DEF SingleDelivery, Delivered
    <2>2. \A m \in Goroutine : Delivered(m) => group[m] \notin Completes(e)
      BY <1>3, <1>4, <1>5 DEF IInv, DeliveredIsOver
    <2>3. CASE h \in takers /\ k \in takers
      BY <2>1, <2>3, <1>1 DEF Takers
    <2>4. CASE h \notin takers /\ k \notin takers
      BY <2>1, <2>4, <1>7 DEF IInv, SingleDelivery, Delivered
    <2>5. CASE ~(h \in takers <=> k \in takers)
      BY <2>1, <2>2, <2>5, <1>6, <1>7
    <2>6. QED BY <2>3, <2>4, <2>5
  <1>13. QED BY <1>8, <1>9, <1>10, <1>11, <1>12

(* Every step keeps remaining names, deliveries and callers consistent.    *)
LEMMA StepRest ==
  IInv /\ [Next]_vars => Remaining' /\ OpenLacksNames' /\ DeliveredIsOver'
                         /\ CallHasGroup' /\ SingleDelivery'
  <1> DEFINE Rest == Remaining /\ OpenLacksNames /\ DeliveredIsOver /\ CallHasGroup
                     /\ SingleDelivery
  <1> SUFFICES ASSUME IInv, [Next]_vars PROVE Rest'
    OBVIOUS
  <1> USE EventsAssumption DEF IInv, TypeOK, OpenIffWatched, Remaining, OpenLacksNames,
      DeliveredIsOver, CallHasGroup, SingleDelivery, Delivered
  <1>1. ASSUME NEW g \in Goroutine, NEW i \in GroupId, NEW names \in SUBSET EventName,
               WatchForEvents(g, i, names)
        PROVE  Rest'
    BY <1>1 DEF WatchForEvents
  <1>2. ASSUME NEW g \in Goroutine, NEW i \in GroupId, WaitForGroup(g, i)
        PROVE  Rest'
    BY <1>2 DEF WaitForGroup, Goto, Return
  <1>3. ASSUME NEW g \in Goroutine, NEW i \in GroupId, CancelWatch(g, i)
        PROVE  Rest'
    BY <1>3 DEF CancelWatch, Goto
  <1>4. ASSUME NEW g \in Goroutine, NEW e \in EventName, TriggerEvent(g, e)
        PROVE  Rest'
    BY <1>4, TriggerRest
  <1>5. ASSUME NEW g \in Goroutine, WaitSelect(g)
        PROVE  Rest'
    BY <1>5 DEF WaitSelect
  <1>6. ASSUME NEW g \in Goroutine, WaitClosed(g) \/ WaitCtxDone(g)
        PROVE  Rest'
    BY <1>6 DEF WaitClosed, WaitCtxDone, Return
  <1>7. ASSUME NEW g \in Goroutine, CancelClose(g)
        PROVE  Rest'
    BY <1>7 DEF CancelClose
  <1>8. CASE UNCHANGED vars
    BY <1>8 DEF vars
  <1>9. QED
    BY <1>1, <1>2, <1>3, <1>4, <1>5, <1>6, <1>7, <1>8 DEF Next

(* The inductive invariant holds in every behaviour of the package.        *)
THEOREM Invariance == Spec => []IInv
  <1>1. IInv /\ [Next]_vars => IInv'
    BY StepTypeOK, StepRest DEF IInv
  <1>2. QED
    BY InitIInv, <1>1, PTL DEF Spec

(* Every variable keeps its type, for any number of goroutines and groups. *)
THEOREM Typing == Spec => []TypeOK
  BY Invariance, PTL DEF IInv

(* A group is in the map exactly while its channel is open.                *)
THEOREM MapMatchesChannels == Spec => []OpenIffWatched
  BY Invariance, PTL DEF IInv

(* No waiter is handed an event before its whole group was triggered.      *)
THEOREM NoEarlyDelivery == Spec => []CompleteBeforeDelivery
  <1>1. IInv => CompleteBeforeDelivery
    BY DEF IInv, TypeOK, OpenIffWatched, Remaining, DeliveredIsOver, Delivered,
           CompleteBeforeDelivery
  <1>2. QED BY Invariance, <1>1, PTL

(* At most one waiter of a group is handed the completing event.           *)
THEOREM AtMostOneDelivery == Spec => []SingleDelivery
  BY Invariance, PTL DEF IInv

(* The two together: whoever is handed the event is the only one, and      *)
(* its group was complete.                                                 *)
THEOREM DeliversOnce == Spec => []DeliveredOnce
  BY NoEarlyDelivery, AtMostOneDelivery, PTL DEF DeliveredOnce

(* EventIsBeingWatched agrees with the history of opens and triggers.      *)
THEOREM WatchIsExact == Spec => []WatchedExactly
  <1>1. IInv => WatchedExactly
    BY DEF IInv, TypeOK, OpenIffWatched, Remaining, WatchedExactly, EventIsBeingWatched
  <1>2. QED BY Invariance, <1>1, PTL

-----------------------------------------------------------------------------
(* Every behaviour of the package is one of OneShot: its steps open, fire  *)
(* or cancel groups, or are invisible there.                               *)
THEOREM Refinement == Spec => ImplementsOneShot
  <1> USE EventsAssumption
  <1>1. Init => Abstract!Init
    BY DEF Init, Abstract!Init, LifeOf
  <1>2. IInv /\ [Next]_vars => [Abstract!Next]_(Abstract!vars)
    <2> SUFFICES ASSUME IInv, [Next]_vars PROVE [Abstract!Next]_(Abstract!vars)
      OBVIOUS
    <2> USE DEF IInv, TypeOK, OpenIffWatched, OpenLacksNames, CallHasGroup, Remaining
    <2> DEFINE life == [i \in GroupId |-> LifeOf(i)]
    <2>1. ASSUME NEW g \in Goroutine, NEW i \in GroupId, NEW names \in SUBSET EventName,
                 WatchForEvents(g, i, names)
          PROVE  Abstract!Open(i, names)
      <3>1. \A j \in GroupId : LifeOf(j)' = IF j = i THEN "open" ELSE LifeOf(j)
        BY <2>1 DEF WatchForEvents, LifeOf
      <3>2. LifeOf(i) = "unmade" /\ eventNames' = [eventNames EXCEPT ![i] = names]
        BY <2>1 DEF WatchForEvents, LifeOf
      <3>3. QED BY <3>1, <3>2 DEF Abstract!Open
    <2>2. ASSUME NEW g \in Goroutine, NEW i \in GroupId, WaitForGroup(g, i) \/ CancelWatch(g, i)
          PROVE  UNCHANGED <<life, eventNames>>
      BY <2>2 DEF WaitForGroup, CancelWatch, LifeOf
    <2>3. ASSUME NEW g \in Goroutine, WaitSelect(g) \/ WaitClosed(g) \/ WaitCtxDone(g)
          PROVE  UNCHANGED <<life, eventNames>>
      BY <2>3 DEF WaitSelect, WaitClosed, WaitCtxDone, LifeOf
    <2>4. ASSUME NEW g \in Goroutine, NEW e \in EventName, TriggerEvent(g, e)
          PROVE  Abstract!Occur(e)
      <3>1. \A i \in GroupId : LifeOf(i) = "open" <=> i \in watched
        BY DEF LifeOf
      <3>2. \A i \in GroupId : LifeOf(i)' = IF LifeOf(i) = "open" /\ eventNames[i] = {e}
                                            THEN "fired" ELSE LifeOf(i)
        BY <2>4, <3>1 DEF TriggerEvent, Completes, LifeOf
      <3>3. eventNames' = [i \in GroupId |-> IF LifeOf(i) = "open" THEN eventNames[i] \ {e}
                                             ELSE eventNames[i]]
        BY <2>4, <3>1 DEF TriggerEvent
      <3>4. QED BY <3>2, <3>3 DEF Abstract!Occur
    <2>5. ASSUME NEW g \in Goroutine, CancelClose(g)
          PROVE  Abstract!Cancel(group[g]) \/ UNCHANGED <<life, eventNames>>
      <3>1. group[g] \in GroupId /\ eventNames' = eventNames
        BY <2>5 DEF CancelClose
      <3>2. CASE done[group[g]] = "closed"
        BY <2>5, <3>1, <3>2 DEF CancelClose, LifeOf
      <3>3. CASE done[group[g]] = "open"
        <4>1. \A j \in GroupId : LifeOf(j)' = IF j = group[g] THEN "cancelled" ELSE LifeOf(j)
          BY <2>5, <3>1, <3>3 DEF CancelClose, LifeOf
        <4>2. LifeOf(group[g]) = "open"
          BY <3>1, <3>3 DEF LifeOf
        <4>3. QED BY <3>1, <4>1, <4>2 DEF Abstract!Cancel
      <3>4. QED BY <2>5, <3>1, <3>2, <3>3 DEF CancelClose
    <2>6. CASE UNCHANGED vars
      BY <2>6 DEF vars, LifeOf, Abstract!vars
    <2>7. ASSUME NEW g \in Goroutine, CancelClose(g)
          PROVE  [Abstract!Next]_(Abstract!vars)
      <3>1. group[g] \in GroupId
        BY <2>7 DEF CancelClose
      <3>2. QED BY <3>1, <2>5, <2>7 DEF Abstract!Next, Abstract!vars
    <2>8. QED
      BY <2>1, <2>2, <2>3, <2>4, <2>6, <2>7 DEF Next, Abstract!Next, Abstract!vars
  <1>3. QED
    BY Invariance, <1>1, <1>2, PTL DEF Spec, Abstract!Spec, ImplementsOneShot
=============================================================================
