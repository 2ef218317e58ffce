------------------------------ MODULE OneShot ------------------------------
(***************************************************************************)
(* What events.go promises of a group of awaited events, without its lock, *)
(* its map or its channel: a group is opened with the names it waits for,  *)
(* each occurrence of an event is struck off every open group at once, and *)
(* a group ends exactly once, either because its last name was struck off  *)
(* or because somebody cancelled it.  An ended group never opens again.    *)
(***************************************************************************)
CONSTANTS EventName,   \* names of events
          GroupId      \* identifiers of groups (uuids)

VARIABLES life,        \* life[i]: where group i is in its life
          awaited      \* awaited[i]: the names group i still waits for

vars == <<life, awaited>>

Life == {"unmade", "open", "fired", "cancelled"}

TypeOK == /\ life \in [GroupId -> Life]
          /\ awaited \in [GroupId -> SUBSET EventName]

Init == /\ life = [i \in GroupId |-> "unmade"]
        /\ awaited = [i \in GroupId |-> {}]

Open(i, names) == /\ life[i] = "unmade"
                  /\ life' = [life EXCEPT ![i] = "open"]
                  /\ awaited' = [awaited EXCEPT ![i] = names]

(* Event e happens: the open groups that wait for nothing else fire.       *)
Occur(e) ==
  /\ life' = [i \in GroupId |-> IF life[i] = "open" /\ awaited[i] = {e}
                                THEN "fired" ELSE life[i]]
  /\ awaited' = [i \in GroupId |-> IF life[i] = "open" THEN awaited[i] \ {e}
                                   ELSE awaited[i]]

Cancel(i) == /\ life[i] = "open"
             /\ life' = [life EXCEPT ![i] = "cancelled"]
             /\ UNCHANGED awaited

Next == \/ \E i \in GroupId, names \in SUBSET EventName : Open(i, names)
        \/ \E e \in EventName : Occur(e)
        \/ \E i \in GroupId : Cancel(i)

Spec == Init /\ [][Next]_vars
=============================================================================
