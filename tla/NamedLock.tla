----------------------------- MODULE NamedLock -----------------------------
(* What wwdb/lock.go promises its callers: a name has one holder at most.  *)
(* It is released by Unlock, or by the server with the holder's session.   *)
CONSTANTS Thread, Name, NoThread
VARIABLE holder   \* holder[n]: who has locked n

Init == holder = [n \in Name |-> NoThread]

Acquire(t, n) == /\ holder[n] = NoThread
                 /\ holder' = [holder EXCEPT ![n] = t]

Release(t, n) == /\ holder[n] = t
                 /\ holder' = [holder EXCEPT ![n] = NoThread]

Next == \E t \in Thread, n \in Name : Acquire(t, n) \/ Release(t, n)

Spec == Init /\ [][Next]_holder
=============================================================================
