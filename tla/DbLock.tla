------------------------------- MODULE DbLock -------------------------------
(***************************************************************************)
(* wwdb/lock.go: named locks shared by the processes that use one MySQL    *)
(* server.  Lock(n) takes the process's mutex of n, checks a connection    *)
(* out of the process's pool and runs GET_LOCK(n, 30) on it; Unlock(n)     *)
(* runs RELEASE_LOCK(n) there, returns the connection and frees the mutex. *)
(* A session that goes back to the pool does not end: what it holds on the *)
(* server it keeps.                                                        *)
(*                                                                         *)
(* pc[t]: "idle", or inside a call on name want[t]:                        *)
(*   "trying"      Lock, before the process's mutex                        *)
(*   "connecting"  Lock, has the mutex, waits for a connection             *)
(*   "locking"     Lock, GET_LOCK is in flight                             *)
(*   "closing"     Unlock, before its deferred calls                       *)
(* session[s]: "off", "idle" (pooled), "lent" (checked out), "lost"        *)
(* (checked out, ended by the server without the client knowing) or        *)
(* "dying" (dropped by the client, not yet noticed by the server).         *)
(***************************************************************************)
EXTENDS Naturals, FiniteSets

CONSTANTS Process, Thread, Name, Session,
          HostOf,     \* HostOf[t]: the process that runs t
          PoolOf,     \* PoolOf[s]: the process that opened s
          MaxOpen,    \* SetMaxOpenConns
          MaxHeld,    \* how many names a thread holds at once
          MaxDepth,   \* bound: nested GET_LOCKs of one name by one session
          Faults,     \* which of "cancel", "connect", "death" may happen
          NoThread, NoName, NoSession

ASSUME DbLockAssumption ==
  /\ HostOf \in [Thread -> Process] /\ NoThread \notin Thread
  /\ PoolOf \in [Session -> Process] /\ NoSession \notin Session
  /\ NoName \notin Name
  /\ MaxOpen \in Nat /\ MaxHeld \in Nat /\ MaxDepth \in Nat \ {0}
  /\ Faults \subseteq {"cancel", "connect", "death"}

VARIABLES pc, want, held,   \* the threads; held[t]: the names t has locked
          mutex,            \* mutex[p][n]: who took p's mutex of n
          conn,             \* conn[p][n]: the conn field of p's lock of n
          session,          \* the state of each session
          owner, depth      \* the server's lock table

vars == <<pc, want, held, mutex, conn, session, owner, depth>>
server == <<owner, depth>>

TypeOK == /\ pc \in [Thread -> {"idle", "trying", "connecting", "locking", "closing"}]
          /\ want \in [Thread -> Name \cup {NoName}]
          /\ held \in [Thread -> SUBSET Name]
          /\ mutex \in [Process -> [Name -> Thread \cup {NoThread}]]
          /\ conn \in [Process -> [Name -> Session \cup {NoSession}]]
          /\ session \in [Session -> {"off", "idle", "lent", "lost", "dying"}]
          /\ owner \in [Name -> Session \cup {NoSession}]
          /\ depth \in [Name -> 0..MaxDepth]

Init == /\ pc = [t \in Thread |-> "idle"]
        /\ want = [t \in Thread |-> NoName]
        /\ held = [t \in Thread |-> {}]
        /\ mutex = [p \in Process |-> [n \in Name |-> NoThread]]
        /\ conn = [p \in Process |-> [n \in Name |-> NoSession]]
        /\ session = [s \in Session |-> "off"]
        /\ owner = [n \in Name |-> NoSession]
        /\ depth = [n \in Name |-> 0]

ConnOf(t) == conn[HostOf[t]][want[t]]
Open(p) == {s \in Session : PoolOf[s] = p /\ session[s] \in {"idle", "lent", "lost"}}

(* The server forgets everything a session held.                           *)
FreeLocks(s) == /\ owner' = [n \in Name |-> IF owner[n] = s THEN NoSession ELSE owner[n]]
                /\ depth' = [n \in Name |-> IF owner[n] = s THEN 0 ELSE depth[n]]

(* conn.Close: back to the pool, unless the connection is gone.            *)
Closed(s) == IF session[s] = "lent" THEN "idle"
             ELSE IF session[s] = "lost" THEN "off" ELSE session[s]
Close(s) == session' = [session EXCEPT ![s] = Closed(s)]

Goto(t, label) == pc' = [pc EXCEPT ![t] = label] /\ UNCHANGED want
Enter(t, label, n) == /\ pc' = [pc EXCEPT ![t] = label]
                      /\ want' = [want EXCEPT ![t] = n]
Return(t) == Enter(t, "idle", NoName)

-----------------------------------------------------------------------------
CallLock(t, n) == /\ pc[t] = "idle" /\ n \notin held[t] /\ Cardinality(held[t]) < MaxHeld
                  /\ Enter(t, "trying", n)
                  /\ UNCHANGED <<held, mutex, conn, session, server>>

TryLock(t) == /\ pc[t] = "trying"
              /\ mutex[HostOf[t]][want[t]] = NoThread
              /\ mutex' = [mutex EXCEPT ![HostOf[t]][want[t]] = t]
              /\ Goto(t, "connecting")
              /\ UNCHANGED <<held, conn, session, server>>

TryLockFail(t) == /\ pc[t] = "trying" /\ "cancel" \in Faults
                  /\ Return(t)
                  /\ UNCHANGED <<held, mutex, conn, session, server>>

(* db.Connx: an idle session, or a new one while the pool has room.        *)
Connect(t, s) ==
  /\ pc[t] = "connecting" /\ PoolOf[s] = HostOf[t]
  /\ \/ session[s] = "idle"
     \/ session[s] = "off" /\ Cardinality(Open(HostOf[t])) < MaxOpen
  /\ session' = [session EXCEPT ![s] = "lent"]
  /\ conn' = [conn EXCEPT ![HostOf[t]][want[t]] = s]
  /\ Goto(t, "locking")
  /\ UNCHANGED <<held, mutex, server>>

(* Lock returns an error; nobody unlocks the mutex.                        *)
ConnectFail(t) ==
  /\ pc[t] = "connecting" /\ Faults \cap {"cancel", "connect"} # {}
  /\ conn' = [conn EXCEPT ![HostOf[t]][want[t]] = NoSession]
  /\ Return(t)
  /\ UNCHANGED <<held, mutex, session, server>>

Grantable(s, n) == owner[n] \in {s, NoSession} /\ depth[n] < MaxDepth
Grant(s, n) == /\ owner' = [owner EXCEPT ![n] = s]
               /\ depth' = [depth EXCEPT ![n] = @ + 1]

GetLock(t) == /\ pc[t] = "locking" /\ session[ConnOf(t)] = "lent"
              /\ Grantable(ConnOf(t), want[t])
              /\ Grant(ConnOf(t), want[t])
              /\ held' = [held EXCEPT ![t] = @ \cup {want[t]}]
              /\ Return(t)
              /\ UNCHANGED <<mutex, conn, session>>

(* Mutant: nobody looks at success.                                        *)
TimeoutIgnored(t) ==
  /\ pc[t] = "locking" /\ session[ConnOf(t)] = "lent"
  /\ owner[want[t]] \notin {ConnOf(t), NoSession}
  /\ held' = [held EXCEPT ![t] = @ \cup {want[t]}]
  /\ Return(t)
  /\ UNCHANGED <<mutex, conn, session, server>>

(* Mutant: the connection is not closed.                                   *)
TimeoutKeepsConn(t) ==
  /\ pc[t] = "locking" /\ session[ConnOf(t)] = "lent"
  /\ owner[want[t]] \notin {ConnOf(t), NoSession}
  /\ Return(t)
  /\ UNCHANGED <<held, mutex, conn, session, server>>

(* Another session kept the name for 30 seconds: GET_LOCK selects 0.       *)
GetLockTimeout(t) ==
  /\ pc[t] = "locking" /\ session[ConnOf(t)] = "lent"
  /\ owner[want[t]] \notin {ConnOf(t), NoSession}
  /\ Close(ConnOf(t))
  /\ Return(t)
  /\ UNCHANGED <<held, mutex, conn, server>>

(* Scan fails: the connection was lost, the context was done before the    *)
(* statement was sent, or it ended while the statement was in flight and   *)
(* the driver dropped the connection, granted or not.                      *)
GetLockError(t) ==
  LET s == ConnOf(t) IN
  /\ pc[t] = "locking"
  /\ \/ session[s] = "lost" /\ Close(s) /\ UNCHANGED server
     \/ "cancel" \in Faults /\ session[s] = "lent" /\ Close(s) /\ UNCHANGED server
     \/ /\ "cancel" \in Faults /\ session[s] = "lent"
        /\ session' = [session EXCEPT ![s] = "dying"]
        /\ (Grantable(s, want[t]) /\ Grant(s, want[t])) \/ UNCHANGED server
  /\ Return(t)
  /\ UNCHANGED <<held, mutex, conn>>

-----------------------------------------------------------------------------
(* RELEASE_LOCK undoes one GET_LOCK of the session that owns the name.     *)
Release(s, n) ==
  IF owner[n] = s
  THEN /\ depth' = [depth EXCEPT ![n] = @ - 1]
       /\ owner' = [owner EXCEPT ![n] = IF depth[n] = 1 THEN NoSession ELSE s]
  ELSE UNCHANGED server

UnlockStarts(t, n) == /\ pc[t] = "idle" /\ n \in held[t]
                      /\ held' = [held EXCEPT ![t] = @ \ {n}]
                      /\ Enter(t, "closing", n)
                      /\ UNCHANGED <<mutex, conn>>

Unlock(t, n) == /\ UnlockStarts(t, n)
                /\ session[conn[HostOf[t]][n]] = "lent"
                /\ Release(conn[HostOf[t]][n], n)
                /\ UNCHANGED session

(* ExecContext fails: as in GetLockError.                                  *)
UnlockError(t, n) ==
  LET s == conn[HostOf[t]][n] IN
  /\ UnlockStarts(t, n)
  /\ \/ session[s] = "lost" /\ UNCHANGED <<session, server>>
     \/ "cancel" \in Faults /\ session[s] = "lent" /\ UNCHANGED <<session, server>>
     \/ /\ "cancel" \in Faults /\ session[s] = "lent"
        /\ session' = [session EXCEPT ![s] = "dying"]
        /\ Release(s, n) \/ UNCHANGED server

(* The deferred calls: conn.Close, then mut.Unlock.                        *)
UnlockReturns(t) == /\ pc[t] = "closing"
                    /\ Close(ConnOf(t))
                    /\ mutex' = [mutex EXCEPT ![HostOf[t]][want[t]] = NoThread]
                    /\ Return(t)
                    /\ UNCHANGED <<held, conn, server>>

(* The server ends a session.                                              *)
SessionDies(s) ==
  /\ "death" \in Faults /\ session[s] \in {"idle", "lent"}
  /\ session' = [session EXCEPT ![s] = IF @ = "lent" THEN "lost" ELSE "off"]
  /\ FreeLocks(s)
  /\ UNCHANGED <<pc, want, held, mutex, conn>>

(* The server notices that the client is gone.  (An Unlock that is only    *)
(* left to return comes first: s is about to be another session.)          *)
Reap(s) == /\ session[s] = "dying"
           /\ \A t \in Thread : pc[t] = "closing" => ConnOf(t) # s
           /\ session' = [session EXCEPT ![s] = "off"]
           /\ FreeLocks(s)
           /\ UNCHANGED <<pc, want, held, mutex, conn>>

InLock(t) == \/ TryLock(t) \/ GetLock(t) \/ GetLockTimeout(t)
             \/ \E s \in Session : Connect(t, s)
InUnlock(t) == \/ UnlockReturns(t) \/ \E n \in Name : Unlock(t, n)

Next == \/ \E t \in Thread : \/ InLock(t) \/ InUnlock(t)
                             \/ TryLockFail(t) \/ ConnectFail(t) \/ GetLockError(t)
                             \/ \E n \in Name : CallLock(t, n) \/ UnlockError(t, n)
        \/ \E s \in Session : SessionDies(s) \/ Reap(s)

Spec == Init /\ [][Next]_vars

-----------------------------------------------------------------------------
(* A connection that t works on, for its call or for a name it has locked. *)
Uses(t, s) == \/ pc[t] \in {"locking", "closing"} /\ ConnOf(t) = s
              \/ \E n \in held[t] : conn[HostOf[t]][n] = s

(* Two threads hold one name at once only if they are in two processes and *)
(* the server has dropped the session of one of them.                      *)
Lost(t, n) == session[conn[HostOf[t]][n]] = "lost"
Exclusion ==
  \A t, u \in Thread, n \in Name :
     t # u /\ n \in held[t] \cap held[u] =>
       HostOf[t] # HostOf[u] /\ (Lost(t, n) \/ Lost(u, n))

(* Every connection that is out of its pool is in the hands of one thread, *)
(* through every early return of Lock, for one name.                       *)
LentOnce ==
  \A s \in Session : session[s] \in {"lent", "lost"} =>
    \E t \in Thread :
      /\ Uses(t, s)
      /\ \A u \in Thread : Uses(u, s) => u = t
      /\ \A n, m \in held[t] : conn[HostOf[t]][n] = s /\ conn[HostOf[t]][m] = s => n = m

(* A process's mutex is taken only by a thread that is between Lock and    *)
(* the end of Unlock (lock.go:51: "could not aquire lock").  Every early   *)
(* return of Lock after TryLock breaks this.                               *)
NoOrphan ==
  \A p \in Process, n \in Name : mutex[p][n] # NoThread =>
    LET t == mutex[p][n]
    IN  n \in held[t] \/ (want[t] = n /\ pc[t] \in {"connecting", "locking", "closing"})

(* Whatever fails, this is a lock: a thread holds a name from GET_LOCK to  *)
(* its Unlock or to the loss of its session, and nobody else meanwhile.    *)
Holders(n) == {t \in Thread : n \in held[t] /\ ~Lost(t, n)}
HolderOf == [n \in Name |-> IF Holders(n) = {} THEN NoThread
                            ELSE CHOOSE t \in Thread : t \in Holders(n)]
Abstract == INSTANCE NamedLock WITH holder <- HolderOf
ImplementsNamedLock == Abstract!Spec
=============================================================================
