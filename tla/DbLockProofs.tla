---------------------------- MODULE DbLockProofs ----------------------------
(***************************************************************************)
(* Proofs about wwdb/lock.go for any processes, threads, names, sessions,  *)
(* pool sizes and faults: a name has one holder, but for the sessions the  *)
(* server drops under their holders.  The argument: a thread between Lock  *)
(* and the end of Unlock has the mutex of its process (HeldOK, CallOK) and *)
(* a connection nobody else works on (ConnUnique); while that connection   *)
(* lives, the server's lock table names it (HeldOwner).  Who keeps a name  *)
(* in the sense of NamedLock has a session that is not lost (Keeps).       *)
(***************************************************************************)
EXTENDS DbLock, TLAPS

(* t has the mutex of n and works on a connection of its own process.      *)
Busy(t, n, states) ==
  /\ mutex[HostOf[t]][n] = t
  /\ conn[HostOf[t]][n] \in Session
  /\ session[conn[HostOf[t]][n]] \in states

HeldOK == \A t \in Thread, n \in Name : n \in held[t] => Busy(t, n, {"lent", "lost"})

CallOK ==
  \A t \in Thread :
    /\ pc[t] # "idle" => want[t] \in Name
    /\ pc[t] = "connecting" => mutex[HostOf[t]][want[t]] = t
    /\ pc[t] = "locking" => Busy(t, want[t], {"lent", "lost"})
    /\ pc[t] = "closing" => Busy(t, want[t], {"lent", "lost", "dying"})
    /\ pc[t] \in {"connecting", "locking", "closing"} => want[t] \notin held[t]

Active(t, n) == n \in held[t] \/ (want[t] = n /\ pc[t] \in {"locking", "closing"})

ConnUnique ==
  \A t, u \in Thread, n, m \in Name :
    Active(t, n) /\ Active(u, m) /\ conn[HostOf[t]][n] = conn[HostOf[u]][m]
      => t = u /\ n = m

HeldOwner ==
  \A t \in Thread, n \in Name :
    n \in held[t] /\ session[conn[HostOf[t]][n]] = "lent" => owner[n] = conn[HostOf[t]][n]

DepthOK == \A n \in Name : owner[n] # NoSession <=> depth[n] > 0

LentUsed ==
  \A s \in Session : session[s] \in {"lent", "lost"} =>
    \E t \in Thread, n \in Name : Active(t, n) /\ conn[HostOf[t]][n] = s

IInv == /\ TypeOK /\ HeldOK /\ CallOK /\ ConnUnique
        /\ HeldOwner /\ DepthOK /\ LentUsed

(* It holds before the first call.                                         *)
LEMMA InitIInv == Init => IInv
  BY DbLockAssumption DEF Init, IInv, TypeOK, HeldOK, CallOK, Active, ConnUnique, HeldOwner,
         DepthOK, LentUsed

(* A step that checks nothing out, and takes no connection that stays      *)
(* checked out from its user, keeps every one in use.                      *)
LEMMA KeepsLent ==
  ASSUME LentUsed,
         \A s \in Session : session'[s] \in {"lent", "lost"} => session[s] \in {"lent", "lost"},
         \A u \in Thread, m \in Name :
            Active(u, m) /\ session'[conn[HostOf[u]][m]] \in {"lent", "lost"} =>
              Active(u, m)' /\ conn'[HostOf[u]][m] = conn[HostOf[u]][m]
  PROVE  LentUsed'
  BY DEF LentUsed

(* RELEASE_LOCK keeps the server's lock table well formed.                 *)
LEMMA ReleaseOK ==
  ASSUME TypeOK, DepthOK, NEW s \in Session, NEW n \in Name, Release(s, n)
  PROVE  /\ owner' \in [Name -> Session \cup {NoSession}]
         /\ depth' \in [Name -> 0..MaxDepth]
         /\ DepthOK'
  <1> USE DbLockAssumption DEF TypeOK, DepthOK, server
  <1>1. CASE owner[n] = s
    <2>1. depth[n] \in Nat /\ depth[n] > 0 /\ depth[n] <= MaxDepth
      BY <1>1
    <2>2. depth' = [depth EXCEPT ![n] = depth[n] - 1]
      BY <1>1 DEF Release
    <2>3. owner' = [owner EXCEPT ![n] = IF depth[n] = 1 THEN NoSession ELSE s]
      BY <1>1 DEF Release
    <2>4. depth[n] - 1 \in 0..MaxDepth /\ (depth[n] - 1 > 0 <=> depth[n] # 1)
      BY <2>1
    <2>5. owner' \in [Name -> Session \cup {NoSession}] /\ depth' \in [Name -> 0..MaxDepth]
      BY <2>2, <2>3, <2>4
    <2>6. DepthOK'
      BY <2>2, <2>3, <2>4
    <2>7. QED BY <2>5, <2>6
  <1>2. CASE owner[n] # s
    BY <1>2 DEF Release
  <1>3. QED BY <1>1, <1>2

(* So does a GET_LOCK that is granted.                                     *)
LEMMA GrantOK ==
  ASSUME TypeOK, DepthOK, NEW s \in Session, NEW n \in Name, Grantable(s, n), Grant(s, n)
  PROVE  /\ owner' \in [Name -> Session \cup {NoSession}]
         /\ depth' \in [Name -> 0..MaxDepth]
         /\ DepthOK'
         /\ \A m \in Name : owner[m] \in Session => owner'[m] = owner[m]
  BY DbLockAssumption DEF TypeOK, DepthOK, Grantable, Grant

(* Calling Lock touches only the caller.                                   *)
LEMMA CallLockIInv ==
  ASSUME IInv, NEW t \in Thread, NEW n \in Name, CallLock(t, n)
  PROVE  IInv'
  <1> USE DbLockAssumption DEF IInv, server
  <1>1. TypeOK'
    BY DEF TypeOK, CallOK, Busy, DepthOK, CallLock, Enter
  <1>2. HeldOK'
    BY DEF TypeOK, HeldOK, CallOK, ConnUnique, Active, Busy, CallLock, Enter
  <1>3. CallOK'
    BY DEF TypeOK, CallOK, HeldOK, ConnUnique, Active, Busy, CallLock, Enter
  <1>4. ConnUnique'
    BY DEF TypeOK, CallOK, HeldOK, ConnUnique, Active, Busy, CallLock, Enter
  <1>5. HeldOwner'
    BY DEF TypeOK, CallOK, HeldOK, ConnUnique, HeldOwner, DepthOK, Active, Busy, CallLock, Enter
  <1>6. DepthOK'
    BY DEF TypeOK, DepthOK, CallOK, Busy, CallLock, Enter
  <1>7. LentUsed'
    <2>1. \A x \in Session : session'[x] \in {"lent", "lost"} => session[x] \in {"lent", "lost"}
      BY DEF TypeOK, CallOK, Busy, CallLock, Enter
    <2>2. \A u \in Thread, m \in Name :
             Active(u, m) /\ session'[conn[HostOf[u]][m]] \in {"lent", "lost"} =>
               Active(u, m)' /\ conn'[HostOf[u]][m] = conn[HostOf[u]][m]
      BY DEF TypeOK, CallOK, HeldOK, Active, Busy, CallLock, Enter
    <2>3. QED BY <2>1, <2>2, KeepsLent
  <1> QED BY <1>1, <1>2, <1>3, <1>4, <1>5, <1>6, <1>7

(* Taking the mutex: nobody of the process was inside for this name.       *)
LEMMA TryLockIInv ==
  ASSUME IInv, NEW t \in Thread, TryLock(t)
  PROVE  IInv'
  <1> USE DbLockAssumption DEF IInv, server
  <1>1. TypeOK'
    BY DEF TypeOK, CallOK, Busy, DepthOK, TryLock, Goto
  <1>2. HeldOK'
    BY DEF TypeOK, HeldOK, CallOK, ConnUnique, Active, Busy, TryLock, Goto
  <1>3. CallOK'
    <2>1. \A u \in Thread, m \in Name : mutex[HostOf[u]][m] = u => mutex'[HostOf[u]][m] = u
      BY DEF TryLock, TypeOK, CallOK
    <2>2. mutex'[HostOf[t]][want[t]] = t /\ want[t] \notin held[t]
      BY DEF TryLock, TypeOK, CallOK, HeldOK, Busy
    <2>3. QED BY <2>1, <2>2 DEF TryLock, Goto, TypeOK, CallOK, Busy
  <1>4. ConnUnique'
    BY DEF TypeOK, CallOK, HeldOK, ConnUnique, Active, Busy, TryLock, Goto
  <1>5. HeldOwner'
    BY DEF TypeOK, CallOK, HeldOK, ConnUnique, HeldOwner, DepthOK, Active, Busy, TryLock, Goto
  <1>6. DepthOK'
    BY DEF TypeOK, DepthOK, CallOK, Busy, TryLock, Goto
  <1>7. LentUsed'
    <2>1. \A x \in Session : session'[x] \in {"lent", "lost"} => session[x] \in {"lent", "lost"}
      BY DEF TypeOK, CallOK, Busy, TryLock, Goto
    <2>2. \A u \in Thread, m \in Name :
             Active(u, m) /\ session'[conn[HostOf[u]][m]] \in {"lent", "lost"} =>
               Active(u, m)' /\ conn'[HostOf[u]][m] = conn[HostOf[u]][m]
      BY DEF TypeOK, CallOK, HeldOK, Active, Busy, TryLock, Goto
    <2>3. QED BY <2>1, <2>2, KeepsLent
  <1> QED BY <1>1, <1>2, <1>3, <1>4, <1>5, <1>6, <1>7

(* Giving up on the mutex leaves nothing behind.                           *)
LEMMA TryLockFailIInv ==
  ASSUME IInv, NEW t \in Thread, TryLockFail(t)
  PROVE  IInv'
  <1> USE DbLockAssumption DEF IInv, server
  <1>1. TypeOK'
    BY DEF TypeOK, CallOK, Busy, DepthOK, TryLockFail, Return, Enter
  <1>2. HeldOK'
    BY DEF TypeOK, HeldOK, CallOK, ConnUnique, Active, Busy, TryLockFail, Return, Enter
  <1>3. CallOK'
    BY DEF TypeOK, CallOK, HeldOK, ConnUnique, Active, Busy, TryLockFail, Return, Enter
  <1>4. ConnUnique'
    BY DEF TypeOK, CallOK, HeldOK, ConnUnique, Active, Busy, TryLockFail, Return, Enter
  <1>5. HeldOwner'
    BY DEF TypeOK, CallOK, HeldOK, ConnUnique, HeldOwner, DepthOK, Active, Busy, TryLockFail,
           Return, Enter
  <1>6. DepthOK'
    BY DEF TypeOK, DepthOK, CallOK, Busy, TryLockFail, Return, Enter
  <1>7. LentUsed'
    <2>1. \A x \in Session : session'[x] \in {"lent", "lost"} => session[x] \in {"lent", "lost"}
      BY DEF TypeOK, CallOK, Busy, TryLockFail, Return, Enter
    <2>2. \A u \in Thread, m \in Name :
             Active(u, m) /\ session'[conn[HostOf[u]][m]] \in {"lent", "lost"} =>
               Active(u, m)' /\ conn'[HostOf[u]][m] = conn[HostOf[u]][m]
      BY DEF TypeOK, CallOK, HeldOK, Active, Busy, TryLockFail, Return, Enter
    <2>3. QED BY <2>1, <2>2, KeepsLent
  <1> QED BY <1>1, <1>2, <1>3, <1>4, <1>5, <1>6, <1>7

(* A session from the pool is nobody's until it is lent.                   *)
LEMMA ConnectIInv ==
  ASSUME IInv, NEW t \in Thread, NEW s \in Session, Connect(t, s)
  PROVE  IInv'
  <1> USE DbLockAssumption DEF IInv, server
  <1>1. TypeOK'
    BY DEF TypeOK, CallOK, Busy, DepthOK, Connect, Goto
  <1>2. HeldOK'
    BY DEF TypeOK, HeldOK, CallOK, ConnUnique, Active, Busy, Connect, Goto
  <1>3. CallOK'
    <2>1. \A u \in Thread, m \in Name, st \in SUBSET {"lent", "lost", "dying"} :
             Busy(u, m, st) /\ ~(HostOf[u] = HostOf[t] /\ m = want[t]) => Busy(u, m, st)'
      BY DEF Connect, TypeOK, CallOK, Busy
    <2>2. Busy(t, want[t], {"lent", "lost"})'
      <3>1. want[t] \in Name /\ mutex[HostOf[t]][want[t]] = t /\ HostOf[t] \in Process
        BY DEF Connect, CallOK
      <3>2. conn'[HostOf[t]][want[t]] = s /\ session'[s] = "lent"
        BY <3>1 DEF Connect, TypeOK
      <3>3. mutex' = mutex /\ want' = want
        BY DEF Connect, Goto
      <3>4. QED BY <3>1, <3>2, <3>3 DEF Busy
    <2>3. \A u \in Thread : u # t /\ want[u] = want[t] /\ HostOf[u] = HostOf[t]
                              => pc[u] \notin {"connecting", "locking", "closing"}
      BY DEF Connect, CallOK, Busy
    <2>4. ASSUME NEW u \in Thread, u # t
          PROVE  /\ pc'[u] = "locking" => Busy(u, want[u], {"lent", "lost"})'
                 /\ pc'[u] = "closing" => Busy(u, want[u], {"lent", "lost", "dying"})'
      BY <2>1, <2>3, <2>4 DEF Connect, Goto, TypeOK, CallOK
    <2>5. want' = want /\ held' = held /\ mutex' = mutex /\ pc' = [pc EXCEPT ![t] = "locking"]
      BY DEF Connect, Goto
    <2>6. QED BY <2>2, <2>4, <2>5 DEF Connect, TypeOK, CallOK
  <1>4. ConnUnique'
    <2>1. \A u \in Thread, m \in Name : Active(u, m) =>
             /\ session[conn[HostOf[u]][m]] \in {"lent", "lost", "dying"}
             /\ mutex[HostOf[u]][m] = u
      BY DEF Active, HeldOK, CallOK, Busy
    <2>2. \A u \in Thread, m \in Name : Active(u, m)' =>
             Active(u, m) \/ (u = t /\ m = want[t])
      BY DEF Active, Connect, Goto, TypeOK
    <2>3. \A u \in Thread, m \in Name :
             conn'[HostOf[u]][m] = IF HostOf[u] = HostOf[t] /\ m = want[t] THEN s
                                   ELSE conn[HostOf[u]][m]
      BY DEF Connect, TypeOK, CallOK
    <2>4. mutex[HostOf[t]][want[t]] = t /\ session[s] \notin {"lent", "lost", "dying"}
      BY DEF Connect, CallOK
    <2>5. \A u \in Thread, m \in Name : Active(u, m)' =>
             IF u = t /\ m = want[t] THEN conn'[HostOf[u]][m] = s
             ELSE Active(u, m) /\ conn'[HostOf[u]][m] = conn[HostOf[u]][m]
                  /\ conn'[HostOf[u]][m] # s
      BY <2>1, <2>2, <2>3, <2>4
    <2>6. QED BY <2>5 DEF ConnUnique
  <1>5. HeldOwner'
    BY DEF TypeOK, CallOK, HeldOK, ConnUnique, HeldOwner, DepthOK, Active, Busy, Connect, Goto
  <1>6. DepthOK'
    BY DEF TypeOK, DepthOK, CallOK, Busy, Connect, Goto
  <1>7. LentUsed'
    <2>1. PICK n \in Name : n = want[t] /\ mutex[HostOf[t]][n] = t
      BY DEF Connect, CallOK
    <2>2. \A u \in Thread, m \in Name : Active(u, m) =>
             /\ mutex[HostOf[u]][m] = u
             /\ u = t => m # n
      BY <2>1 DEF Connect, Active, HeldOK, CallOK, Busy
    <2>3. conn' = [conn EXCEPT ![HostOf[t]][n] = s] /\ HostOf[t] \in Process
      BY <2>1 DEF Connect
    <2>4. ASSUME NEW u \in Thread, NEW m \in Name, Active(u, m)
          PROVE  Active(u, m)' /\ conn'[HostOf[u]][m] = conn[HostOf[u]][m]
      <3>1. Active(u, m)'
        BY <2>4 DEF Connect, Goto, TypeOK, Active
      <3>2. ~(HostOf[u] = HostOf[t] /\ m = n)
        BY <2>1, <2>2, <2>4
      <3>3. QED BY <2>3, <3>1, <3>2 DEF TypeOK
    <2>5. Active(t, n)' /\ conn'[HostOf[t]][n] = s
      BY <2>1, <2>3 DEF Connect, Goto, TypeOK, Active
    <2>6. \A x \in Session : x # s => session'[x] = session[x]
      BY DEF Connect, TypeOK
    <2>7. ASSUME NEW x \in Session, session'[x] \in {"lent", "lost"}
          PROVE  \E u \in Thread, m \in Name : Active(u, m)' /\ conn'[HostOf[u]][m] = x
      <3>1. CASE x = s
        BY <2>5, <3>1
      <3>2. CASE x # s
        <4>1. PICK u \in Thread, m \in Name : Active(u, m) /\ conn[HostOf[u]][m] = x
          BY <3>2, <2>6, <2>7 DEF LentUsed
        <4>2. Active(u, m)' /\ conn'[HostOf[u]][m] = x
          BY <2>4, <4>1
        <4>3. QED BY <4>2
      <3>3. QED BY <3>1, <3>2
    <2>8. QED BY <2>7 DEF LentUsed
  <1> QED BY <1>1, <1>2, <1>3, <1>4, <1>5, <1>6, <1>7

(* No connection: the mutex stays taken, by a thread that left.            *)
LEMMA ConnectFailIInv ==
  ASSUME IInv, NEW t \in Thread, ConnectFail(t)
  PROVE  IInv'
  <1> USE DbLockAssumption DEF IInv, server
  <1>1. TypeOK'
    BY DEF TypeOK, CallOK, Busy, DepthOK, ConnectFail, Return, Enter
  <1>2. HeldOK'
    BY DEF TypeOK, HeldOK, CallOK, ConnUnique, Active, Busy, ConnectFail, Return, Enter
  <1>3. CallOK'
    BY DEF TypeOK, CallOK, HeldOK, ConnUnique, Active, Busy, ConnectFail, Return, Enter
  <1>4. ConnUnique'
    BY DEF TypeOK, CallOK, HeldOK, ConnUnique, Active, Busy, ConnectFail, Return, Enter
  <1>5. HeldOwner'
    BY DEF TypeOK, CallOK, HeldOK, ConnUnique, HeldOwner, DepthOK, Active, Busy, ConnectFail,
           Return, Enter
  <1>6. DepthOK'
    BY DEF TypeOK, DepthOK, CallOK, Busy, ConnectFail, Return, Enter
  <1>7. LentUsed'
    <2>1. \A x \in Session : session'[x] \in {"lent", "lost"} => session[x] \in {"lent", "lost"}
      BY DEF TypeOK, CallOK, Busy, ConnectFail, Return, Enter
    <2>2. \A u \in Thread, m \in Name :
             Active(u, m) /\ session'[conn[HostOf[u]][m]] \in {"lent", "lost"} =>
               Active(u, m)' /\ conn'[HostOf[u]][m] = conn[HostOf[u]][m]
      BY DEF TypeOK, CallOK, HeldOK, Active, Busy, ConnectFail, Return, Enter
    <2>3. QED BY <2>1, <2>2, KeepsLent
  <1> QED BY <1>1, <1>2, <1>3, <1>4, <1>5, <1>6, <1>7

(* A granted GET_LOCK turns the call into a holder.                        *)
LEMMA GetLockIInv ==
  ASSUME IInv, NEW t \in Thread, GetLock(t)
  PROVE  IInv'
  <1> USE DbLockAssumption DEF IInv, server
  <1>1. TypeOK'
    BY DEF TypeOK, CallOK, Busy, DepthOK, GetLock, Grantable, Grant, Return, Enter, ConnOf
  <1>2. HeldOK'
    BY DEF TypeOK, HeldOK, CallOK, ConnUnique, Active, Busy, GetLock, Grantable, Grant, Return,
           Enter, ConnOf
  <1>3. CallOK'
    BY DEF TypeOK, CallOK, HeldOK, ConnUnique, Active, Busy, GetLock, Grantable, Grant, Return,
           Enter, ConnOf
  <1>4. ConnUnique'
    BY DEF TypeOK, CallOK, HeldOK, ConnUnique, Active, Busy, GetLock, Grantable, Grant, Return,
           Enter, ConnOf
  <1>5. HeldOwner'
    BY DEF TypeOK, CallOK, HeldOK, ConnUnique, HeldOwner, DepthOK, Active, Busy, GetLock,
           Grantable, Grant, Return, Enter, ConnOf
  <1>6. DepthOK'
    BY DEF TypeOK, DepthOK, CallOK, Busy, GetLock, Grantable, Grant, Return, Enter, ConnOf
  <1>7. LentUsed'
    <2>1. \A x \in Session : session'[x] \in {"lent", "lost"} => session[x] \in {"lent", "lost"}
      BY DEF TypeOK, CallOK, Busy, GetLock, Grantable, Grant, Return, Enter, ConnOf
    <2>2. \A u \in Thread, m \in Name :
             Active(u, m) /\ session'[conn[HostOf[u]][m]] \in {"lent", "lost"} =>
               Active(u, m)' /\ conn'[HostOf[u]][m] = conn[HostOf[u]][m]
      BY DEF TypeOK, CallOK, HeldOK, Active, Busy, GetLock, Grantable, Grant, Return, Enter, ConnOf
    <2>3. QED BY <2>1, <2>2, KeepsLent
  <1> QED BY <1>1, <1>2, <1>3, <1>4, <1>5, <1>6, <1>7

(* A GET_LOCK that timed out gives its session back.                       *)
LEMMA GetLockTimeoutIInv ==
  ASSUME IInv, NEW t \in Thread, GetLockTimeout(t)
  PROVE  IInv'
  <1> USE DbLockAssumption DEF IInv, server
  <1>1. TypeOK'
    BY DEF TypeOK, CallOK, Busy, DepthOK, GetLockTimeout, Close, Closed, Return, Enter, ConnOf
  <1>2. HeldOK'
    BY DEF TypeOK, HeldOK, CallOK, ConnUnique, Active, Busy, GetLockTimeout, Close, Closed,
           Return, Enter, ConnOf
  <1>3. CallOK'
    BY DEF TypeOK, CallOK, HeldOK, ConnUnique, Active, Busy, GetLockTimeout, Close, Closed,
           Return, Enter, ConnOf
  <1>4. ConnUnique'
    BY DEF TypeOK, CallOK, HeldOK, ConnUnique, Active, Busy, GetLockTimeout, Close, Closed,
           Return, Enter, ConnOf
  <1>5. HeldOwner'
    BY DEF TypeOK, CallOK, HeldOK, ConnUnique, HeldOwner, DepthOK, Active, Busy, GetLockTimeout,
           Close, Closed, Return, Enter, ConnOf
  <1>6. DepthOK'
    BY DEF TypeOK, DepthOK, CallOK, Busy, GetLockTimeout, Close, Closed, Return, Enter, ConnOf
  <1>7. LentUsed'
    <2>1. \A x \in Session : session'[x] \in {"lent", "lost"} => session[x] \in {"lent", "lost"}
      BY DEF TypeOK, CallOK, Busy, GetLockTimeout, Close, Closed, Return, Enter, ConnOf
    <2>2. \A u \in Thread, m \in Name :
             Active(u, m) /\ session'[conn[HostOf[u]][m]] \in {"lent", "lost"} =>
               Active(u, m)' /\ conn'[HostOf[u]][m] = conn[HostOf[u]][m]
      BY DEF TypeOK, CallOK, HeldOK, Active, Busy, GetLockTimeout, Close, Closed, Return, Enter,
             ConnOf
    <2>3. QED BY <2>1, <2>2, KeepsLent
  <1> QED BY <1>1, <1>2, <1>3, <1>4, <1>5, <1>6, <1>7

(* A GET_LOCK that failed gives back or drops its session.                 *)
LEMMA GetLockErrorIInv ==
  ASSUME IInv, NEW t \in Thread, GetLockError(t)
  PROVE  IInv'
  <1> USE DbLockAssumption DEF IInv, server
  <1>1. PICK s \in Session : /\ s = ConnOf(t)
                             /\ (Grantable(s, want[t]) /\ Grant(s, want[t])) \/ UNCHANGED server
    BY DEF GetLockError, CallOK, Busy, ConnOf
  <1>2. /\ session' \in [Session -> {"off", "idle", "lent", "lost", "dying"}]
        /\ session'[s] \in {"idle", "off", "dying"}
        /\ \A x \in Session : x # s => session'[x] = session[x]
    BY <1>1 DEF GetLockError, Close, Closed, TypeOK
  <1>3. /\ pc' = [pc EXCEPT ![t] = "idle"] /\ want' = [want EXCEPT ![t] = NoName]
        /\ UNCHANGED <<held, mutex, conn>>
        /\ pc[t] = "locking" /\ want[t] \in Name
    BY DEF GetLockError, Return, Enter, CallOK
  <1>4. /\ owner' \in [Name -> Session \cup {NoSession}] /\ depth' \in [Name -> 0..MaxDepth]
        /\ DepthOK'
        /\ \A m \in Name : owner[m] \in Session => owner'[m] = owner[m]
    BY <1>1, <1>3, GrantOK DEF TypeOK, DepthOK
  <1>5. \A u \in Thread, m \in Name : Active(u, m)' => Active(u, m)
    BY <1>3 DEF TypeOK, Active
  <1>6. \A u \in Thread, m \in Name : Active(u, m) /\ conn[HostOf[u]][m] # s => Active(u, m)'
    BY <1>1, <1>3 DEF TypeOK, Active, ConnOf
  <1>7. Active(t, want[t]) /\ want[t] \notin held[t] /\ conn[HostOf[t]][want[t]] = s
    BY <1>1, <1>3 DEF Active, CallOK, ConnOf
  <1>8. \A u \in Thread, m \in Name : Active(u, m) /\ ~(u = t /\ m = want[t])
           => conn[HostOf[u]][m] # s /\ conn[HostOf[u]][m] \in Session
    BY <1>3, <1>7 DEF ConnUnique, HeldOK, CallOK, Busy, Active
  <1>9. TypeOK'
    BY <1>2, <1>3, <1>4 DEF TypeOK
  <1>10. HeldOK'
    BY <1>2, <1>3, <1>7, <1>8 DEF HeldOK, Busy, Active
  <1>11. CallOK'
    <2>1. ASSUME NEW u \in Thread, u # t, pc[u] \in {"locking", "closing"}
          PROVE  session'[conn[HostOf[u]][want[u]]] = session[conn[HostOf[u]][want[u]]]
      BY <1>2, <1>8, <2>1 DEF Active, CallOK
    <2>2. QED BY <1>3, <2>1 DEF CallOK, Busy, TypeOK
  <1>12. ConnUnique'
    BY <1>3, <1>5 DEF ConnUnique
  <1>13. HeldOwner'
    BY <1>2, <1>3, <1>4, <1>7, <1>8 DEF HeldOwner, Active
  <1>14. LentUsed'
    <2>1. \A x \in Session : session'[x] \in {"lent", "lost"} => session[x] \in {"lent", "lost"}
      BY <1>2
    <2>2. \A u \in Thread, m \in Name :
             Active(u, m) /\ session'[conn[HostOf[u]][m]] \in {"lent", "lost"} =>
               Active(u, m)' /\ conn'[HostOf[u]][m] = conn[HostOf[u]][m]
      BY <1>2, <1>3, <1>6
    <2>3. QED BY <2>1, <2>2, KeepsLent
  <1>15. QED BY <1>4, <1>9, <1>10, <1>11, <1>12, <1>13, <1>14

(* Unlock, whether its statement ran, failed or cost it the connection.    *)
LEMMA UnlockStartsIInv ==
  ASSUME IInv, NEW t \in Thread, NEW n \in Name, UnlockStarts(t, n), NEW s \in Session,
         s = conn[HostOf[t]][n],
         session' = session \/ session' = [session EXCEPT ![s] = "dying"],
         Release(s, n) \/ UNCHANGED server
  PROVE  IInv'
  <1> USE DbLockAssumption DEF IInv, server
  <1>1. /\ pc' = [pc EXCEPT ![t] = "closing"] /\ want' = [want EXCEPT ![t] = n]
        /\ held' = [held EXCEPT ![t] = held[t] \ {n}]
        /\ UNCHANGED <<mutex, conn>>
        /\ pc[t] = "idle" /\ n \in held[t]
    BY DEF UnlockStarts, Enter
  <1>2. /\ session' \in [Session -> {"off", "idle", "lent", "lost", "dying"}]
        /\ session'[s] \in {session[s], "dying"}
        /\ \A x \in Session : x # s => session'[x] = session[x]
    BY DEF TypeOK
  <1>3. /\ owner' \in [Name -> Session \cup {NoSession}] /\ depth' \in [Name -> 0..MaxDepth]
        /\ DepthOK'
    BY ReleaseOK DEF TypeOK, DepthOK
  <1>4. \A m \in Name : m # n => owner'[m] = owner[m]
    BY DEF Release, TypeOK
  <1>5. \A u \in Thread, m \in Name : Active(u, m)' <=> Active(u, m)
    BY <1>1 DEF TypeOK, Active
  <1>6. Active(t, n)
    BY <1>1 DEF Active
  <1>7. \A u \in Thread, m \in Name : Active(u, m) /\ ~(u = t /\ m = n)
           => conn[HostOf[u]][m] # s /\ conn[HostOf[u]][m] \in Session
    BY <1>6 DEF ConnUnique, HeldOK, CallOK, Busy, Active
  <1>8. \A u \in Thread, m \in Name : m \in held'[u] <=> m \in held[u] /\ ~(u = t /\ m = n)
    BY <1>1 DEF TypeOK
  <1>9. TypeOK'
    BY <1>1, <1>2, <1>3 DEF TypeOK
  <1>10. HeldOK'
    BY <1>1, <1>2, <1>7, <1>8 DEF HeldOK, Busy, Active
  <1>11. CallOK'
    <2>1. Busy(t, n, {"lent", "lost"})
      BY <1>1 DEF HeldOK
    <2>2. Busy(t, n, {"lent", "lost", "dying"})'
      BY <1>1, <1>2, <2>1 DEF Busy
    <2>3. ASSUME NEW u \in Thread, u # t, pc[u] \in {"locking", "closing"}
          PROVE  session'[conn[HostOf[u]][want[u]]] = session[conn[HostOf[u]][want[u]]]
      BY <1>2, <1>7, <2>3 DEF Active, CallOK
    <2>4. ASSUME NEW u \in Thread, u # t
          PROVE  pc'[u] = pc[u] /\ want'[u] = want[u] /\ held'[u] = held[u]
      BY <1>1, <2>4 DEF TypeOK
    <2>5. pc'[t] = "closing" /\ want'[t] = n /\ n \notin held'[t]
      BY <1>1 DEF TypeOK
    <2>6. ASSUME NEW u \in Thread, u # t
          PROVE  /\ pc[u] = "locking" => Busy(u, want[u], {"lent", "lost"})'
                 /\ pc[u] = "closing" => Busy(u, want[u], {"lent", "lost", "dying"})'
      BY <1>1, <2>3, <2>4, <2>6 DEF CallOK, Busy
    <2>7. ASSUME NEW u \in Thread
          PROVE  /\ pc'[u] # "idle" => want'[u] \in Name
                 /\ pc'[u] = "connecting" => mutex'[HostOf[u]][want'[u]] = u
                 /\ pc'[u] = "locking" => Busy(u, want[u], {"lent", "lost"})'
                 /\ pc'[u] = "closing" => Busy(u, want[u], {"lent", "lost", "dying"})'
                 /\ pc'[u] \in {"connecting", "locking", "closing"} => want'[u] \notin held'[u]
      <3>1. CASE u = t
        BY <3>1, <1>1, <2>2, <2>5 DEF Busy
      <3>2. CASE u # t
        BY <3>2, <1>1, <2>4, <2>6 DEF CallOK
      <3>3. QED BY <3>1, <3>2
    <2>8. QED BY <2>7 DEF CallOK
  <1>12. ConnUnique'
    BY <1>1, <1>5 DEF ConnUnique
  <1>13. HeldOwner'
    <2>1. ASSUME NEW u \in Thread, NEW m \in Name, m \in held'[u],
                 session'[conn[HostOf[u]][m]] = "lent"
          PROVE  owner'[m] = conn[HostOf[u]][m]
      <3>1. m \in held[u] /\ conn[HostOf[u]][m] # s /\ conn[HostOf[u]][m] \in Session
        BY <1>7, <1>8, <2>1 DEF Active
      <3>2. owner[m] = conn[HostOf[u]][m] /\ owner[m] # s
        BY <1>2, <2>1, <3>1 DEF HeldOwner
      <3>3. owner'[m] = owner[m]
        BY <1>4, <3>2 DEF Release
      <3>4. QED BY <3>2, <3>3
    <2>2. QED BY <1>1, <2>1 DEF HeldOwner
  <1>14. LentUsed'
    <2>1. \A x \in Session : session'[x] \in {"lent", "lost"} => session[x] \in {"lent", "lost"}
      BY <1>2
    <2>2. QED BY <1>1, <1>5, <2>1, KeepsLent
  <1>15. QED BY <1>3, <1>9, <1>10, <1>11, <1>12, <1>13, <1>14

(* RELEASE_LOCK that ran, then the common part of Unlock.                  *)
LEMMA UnlockIInv ==
  ASSUME IInv, NEW t \in Thread, NEW n \in Name, Unlock(t, n) \/ UnlockError(t, n)
  PROVE  IInv'
  <1> DEFINE s == conn[HostOf[t]][n]
  <1>1. s \in Session /\ UnlockStarts(t, n)
    BY DEF Unlock, UnlockError, UnlockStarts, IInv, HeldOK, Busy
  <1>2. session' = session \/ session' = [session EXCEPT ![s] = "dying"]
    BY DEF Unlock, UnlockError
  <1>3. Release(s, n) \/ UNCHANGED server
    BY DEF Unlock, UnlockError, server
  <1>4. QED BY <1>1, <1>2, <1>3, UnlockStartsIInv

(* The deferred calls give the session back and free the mutex.            *)
LEMMA UnlockReturnsIInv ==
  ASSUME IInv, NEW t \in Thread, UnlockReturns(t)
  PROVE  IInv'
  <1> USE DbLockAssumption DEF IInv, server
  <1>1. TypeOK'
    BY DEF TypeOK, CallOK, Busy, DepthOK, UnlockReturns, Close, Closed, Return, Enter, ConnOf
  <1>2. HeldOK'
    BY DEF TypeOK, HeldOK, CallOK, ConnUnique, Active, Busy, UnlockReturns, Close, Closed,
           Return, Enter, ConnOf
  <1>3. CallOK'
    <2>1. want[t] \in Name /\ mutex[HostOf[t]][want[t]] = t /\ Active(t, want[t])
      BY DEF UnlockReturns, CallOK, Busy, Active
    <2>2. ASSUME NEW u \in Thread, u # t, NEW m \in Name, mutex[HostOf[u]][m] = u
          PROVE  mutex'[HostOf[u]][m] = u
      BY <2>1, <2>2 DEF UnlockReturns, TypeOK
    <2>3. ASSUME NEW u \in Thread, u # t, pc[u] \in {"locking", "closing"}
          PROVE  session'[conn[HostOf[u]][want[u]]] = session[conn[HostOf[u]][want[u]]]
      <3>1. conn[HostOf[u]][want[u]] # ConnOf(t)
        BY <2>1, <2>3 DEF ConnUnique, Active, CallOK, ConnOf
      <3>2. QED BY <2>3, <3>1 DEF UnlockReturns, Close, TypeOK, CallOK, Busy
    <2>4. /\ pc' = [pc EXCEPT ![t] = "idle"] /\ want' = [want EXCEPT ![t] = NoName]
          /\ held' = held /\ conn' = conn
      BY DEF UnlockReturns, Return, Enter
    <2>5. QED BY <2>2, <2>3, <2>4 DEF CallOK, Busy, TypeOK
  <1>4. ConnUnique'
    BY DEF TypeOK, CallOK, HeldOK, ConnUnique, Active, Busy, UnlockReturns, Close, Closed,
           Return, Enter, ConnOf
  <1>5. HeldOwner'
    BY DEF TypeOK, CallOK, HeldOK, ConnUnique, HeldOwner, DepthOK, Active, Busy, UnlockReturns,
           Close, Closed, Return, Enter, ConnOf
  <1>6. DepthOK'
    BY DEF TypeOK, DepthOK, CallOK, Busy, UnlockReturns, Close, Closed, Return, Enter, ConnOf
  <1>7. LentUsed'
    <2>1. \A x \in Session : session'[x] \in {"lent", "lost"} => session[x] \in {"lent", "lost"}
      BY DEF TypeOK, CallOK, Busy, UnlockReturns, Close, Closed, Return, Enter, ConnOf
    <2>2. \A u \in Thread, m \in Name :
             Active(u, m) /\ session'[conn[HostOf[u]][m]] \in {"lent", "lost"} =>
               Active(u, m)' /\ conn'[HostOf[u]][m] = conn[HostOf[u]][m]
      BY DEF TypeOK, CallOK, HeldOK, Active, Busy, UnlockReturns, Close, Closed, Return, Enter,
             ConnOf
    <2>3. QED BY <2>1, <2>2, KeepsLent
  <1> QED BY <1>1, <1>2, <1>3, <1>4, <1>5, <1>6, <1>7

(* A session that dies takes its locks along, and no mutex.                *)
LEMMA SessionDiesIInv ==
  ASSUME IInv, NEW s \in Session, SessionDies(s)
  PROVE  IInv'
  <1> USE DbLockAssumption DEF IInv, server
  <1>1. TypeOK'
    BY DEF TypeOK, CallOK, Busy, DepthOK, SessionDies, FreeLocks
  <1>2. HeldOK'
    BY DEF TypeOK, HeldOK, CallOK, ConnUnique, Active, Busy, SessionDies, FreeLocks
  <1>3. CallOK'
    BY DEF TypeOK, CallOK, HeldOK, ConnUnique, Active, Busy, SessionDies, FreeLocks
  <1>4. ConnUnique'
    BY DEF TypeOK, CallOK, HeldOK, ConnUnique, Active, Busy, SessionDies, FreeLocks
  <1>5. HeldOwner'
    BY DEF TypeOK, CallOK, HeldOK, ConnUnique, HeldOwner, DepthOK, Active, Busy, SessionDies,
           FreeLocks
  <1>6. DepthOK'
    BY DEF TypeOK, DepthOK, CallOK, Busy, SessionDies, FreeLocks
  <1>7. LentUsed'
    <2>1. \A x \in Session : session'[x] \in {"lent", "lost"} => session[x] \in {"lent", "lost"}
      BY DEF TypeOK, CallOK, Busy, SessionDies, FreeLocks
    <2>2. \A u \in Thread, m \in Name :
             Active(u, m) /\ session'[conn[HostOf[u]][m]] \in {"lent", "lost"} =>
               Active(u, m)' /\ conn'[HostOf[u]][m] = conn[HostOf[u]][m]
      BY DEF TypeOK, CallOK, HeldOK, Active, Busy, SessionDies, FreeLocks
    <2>3. QED BY <2>1, <2>2, KeepsLent
  <1> QED BY <1>1, <1>2, <1>3, <1>4, <1>5, <1>6, <1>7

(* A session that is reaped was nobody's any more.                         *)
LEMMA ReapIInv ==
  ASSUME IInv, NEW s \in Session, Reap(s)
  PROVE  IInv'
  <1> USE DbLockAssumption DEF IInv, server
  <1>1. TypeOK'
    BY DEF TypeOK, CallOK, Busy, DepthOK, Reap, FreeLocks, ConnOf
  <1>2. HeldOK'
    BY DEF TypeOK, HeldOK, CallOK, ConnUnique, Active, Busy, Reap, FreeLocks, ConnOf
  <1>3. CallOK'
    BY DEF TypeOK, CallOK, HeldOK, ConnUnique, Active, Busy, Reap, FreeLocks, ConnOf
  <1>4. ConnUnique'
    BY DEF TypeOK, CallOK, HeldOK, ConnUnique, Active, Busy, Reap, FreeLocks, ConnOf
  <1>5. HeldOwner'
    BY DEF TypeOK, CallOK, HeldOK, ConnUnique, HeldOwner, DepthOK, Active, Busy, Reap, FreeLocks,
           ConnOf
  <1>6. DepthOK'
    BY DEF TypeOK, DepthOK, CallOK, Busy, Reap, FreeLocks, ConnOf
  <1>7. LentUsed'
    <2>1. \A x \in Session : session'[x] \in {"lent", "lost"} => session[x] \in {"lent", "lost"}
      BY DEF TypeOK, CallOK, Busy, Reap, FreeLocks, ConnOf
    <2>2. \A u \in Thread, m \in Name :
             Active(u, m) /\ session'[conn[HostOf[u]][m]] \in {"lent", "lost"} =>
               Active(u, m)' /\ conn'[HostOf[u]][m] = conn[HostOf[u]][m]
      BY DEF TypeOK, CallOK, HeldOK, Active, Busy, Reap, FreeLocks, ConnOf
    <2>3. QED BY <2>1, <2>2, KeepsLent
  <1> QED BY <1>1, <1>2, <1>3, <1>4, <1>5, <1>6, <1>7


(* No step breaks the inductive invariant.                                 *)
LEMMA InvarianceStep == IInv /\ [Next]_vars => IInv'
  <1> SUFFICES ASSUME IInv, [Next]_vars PROVE IInv'
    OBVIOUS
  <1>1. CASE UNCHANGED vars
    BY <1>1 DEF IInv, vars, TypeOK, HeldOK, CallOK, Busy, Active, ConnUnique, HeldOwner,
                DepthOK, LentUsed
  <1>2. CASE Next
      BY <1>2, CallLockIInv, TryLockIInv, TryLockFailIInv, ConnectIInv, ConnectFailIInv,
         GetLockIInv, GetLockTimeoutIInv, GetLockErrorIInv, UnlockIInv,
         UnlockReturnsIInv, SessionDiesIInv, ReapIInv DEF Next, InLock, InUnlock
  <1>3. QED BY <1>1, <1>2

(* So it holds in every behaviour.                                         *)
THEOREM Invariance == Spec => []IInv
  BY InitIInv, InvarianceStep, PTL DEF Spec

(* Every variable keeps its type, whatever fails.                          *)
THEOREM Typing == Spec => []TypeOK
  BY Invariance, PTL DEF IInv

(* A name has one holder, unless the server dropped a holder's session;    *)
(* and never two holders in one process.                                   *)
THEOREM MutualExclusion == Spec => []Exclusion
  <1>1. IInv => Exclusion
    <2> SUFFICES ASSUME IInv, NEW t \in Thread, NEW u \in Thread, NEW n \in Name,
                        t # u, n \in held[t] \cap held[u]
                 PROVE  HostOf[t] # HostOf[u] /\ (Lost(t, n) \/ Lost(u, n))
      BY DEF Exclusion
    <2>1. Busy(t, n, {"lent", "lost"}) /\ Busy(u, n, {"lent", "lost"})
      BY DEF IInv, HeldOK
    <2>2. HostOf[t] # HostOf[u]
      BY <2>1 DEF Busy
    <2>3. conn[HostOf[t]][n] # conn[HostOf[u]][n]
      BY DEF IInv, ConnUnique, Active
    <2>4. Lost(t, n) \/ Lost(u, n)
      BY <2>1, <2>3 DEF IInv, HeldOwner, Busy, Lost
    <2>5. QED BY <2>2, <2>4
  <1>2. QED BY Invariance, <1>1, PTL

(* A connection that is out of its pool is in the hands of one thread, for *)
(* one name: no early return of Lock or Unlock loses or shares it.         *)
THEOREM NoConnectionLost == Spec => []LentOnce
  <1>1. IInv => LentOnce
    <2> SUFFICES ASSUME IInv, NEW s \in Session, session[s] \in {"lent", "lost"}
                 PROVE  \E t \in Thread :
                          /\ Uses(t, s)
                          /\ \A u \in Thread : Uses(u, s) => u = t
                          /\ \A n, m \in held[t] :
                               conn[HostOf[t]][n] = s /\ conn[HostOf[t]][m] = s => n = m
      BY DEF LentOnce
    <2>1. PICK t \in Thread, n \in Name : Active(t, n) /\ conn[HostOf[t]][n] = s
      BY DEF IInv, LentUsed
    <2>2. \A u \in Thread : Uses(u, s) => \E m \in Name : Active(u, m) /\ conn[HostOf[u]][m] = s
      BY DEF IInv, TypeOK, CallOK, Uses, ConnOf, Active
    <2>3. \A u \in Thread, m \in Name : Active(u, m) /\ conn[HostOf[u]][m] = s => u = t /\ m = n
      BY <2>1 DEF IInv, ConnUnique
    <2>4. Uses(t, s)
      BY <2>1 DEF Uses, Active, ConnOf
    <2>5. \A m \in held[t] : m \in Name /\ Active(t, m)
      BY DEF IInv, TypeOK, Active
    <2>6. QED BY <2>2, <2>3, <2>4, <2>5
  <1>2. QED BY Invariance, <1>1, PTL

-----------------------------------------------------------------------------
Keeps(t, n) == n \in held[t] /\ ~Lost(t, n)

(* Who keeps a name works on a live connection, and the server knows it.   *)
LEMMA KeeperOwns ==
  ASSUME IInv, NEW t \in Thread, NEW n \in Name, Keeps(t, n)
  PROVE  /\ conn[HostOf[t]][n] \in Session
         /\ session[conn[HostOf[t]][n]] = "lent"
         /\ owner[n] = conn[HostOf[t]][n]
  <1>1. Busy(t, n, {"lent", "lost"})
    BY DEF IInv, HeldOK, Keeps
  <1>2. session[conn[HostOf[t]][n]] = "lent"
    BY <1>1 DEF Busy, Keeps, Lost
  <1>3. QED BY <1>1, <1>2 DEF IInv, HeldOwner, Busy, Keeps

HolderCorrect ==
  \A n \in Name : /\ \A t \in Thread : Keeps(t, n) => HolderOf[n] = t
                  /\ (\A t \in Thread : ~Keeps(t, n)) => HolderOf[n] = NoThread

(* A name has at most one keeper, and HolderOf names it.                   *)
LEMMA HolderIsHolder == IInv => HolderCorrect
  <1> SUFFICES ASSUME IInv, NEW n \in Name
               PROVE  /\ \A t \in Thread : Keeps(t, n) => HolderOf[n] = t
                      /\ (\A t \in Thread : ~Keeps(t, n)) => HolderOf[n] = NoThread
    BY DEF HolderCorrect
  <1>1. \A t, u \in Thread : Keeps(t, n) /\ Keeps(u, n) => t = u
    BY KeeperOwns DEF IInv, ConnUnique, Active, Keeps
  <1>2. \A t \in Thread : t \in Holders(n) <=> Keeps(t, n)
    BY DEF Holders, Keeps
  <1>3. ASSUME NEW t \in Thread, Keeps(t, n)
        PROVE  HolderOf[n] = t
    <2>1. \A u \in Thread : u \in Holders(n) <=> u = t
      BY <1>1, <1>2, <1>3
    <2>2. HolderOf[n] = CHOOSE u \in Thread : u \in Holders(n)
      BY <2>1 DEF HolderOf
    <2>3. QED BY <2>1, <2>2
  <1>4. ASSUME \A t \in Thread : ~Keeps(t, n)
        PROVE  HolderOf[n] = NoThread
    <2>1. Holders(n) = {}
      BY <1>2, <1>4 DEF Holders
    <2>2. QED BY <2>1 DEF HolderOf
  <1>5. QED BY <1>3, <1>4

(* A granted GET_LOCK finds no keeper, and makes its caller one.           *)
LEMMA GetLockKeeps ==
  ASSUME IInv, NEW t \in Thread, GetLock(t)
  PROVE  /\ want[t] \in Name /\ \A u \in Thread : ~Keeps(u, want[t])
         /\ \A u \in Thread, n \in Name :
              Keeps(u, n)' <=> Keeps(u, n) \/ (u = t /\ n = want[t])
  <1>1. want[t] \in Name /\ want[t] \notin held[t] /\ pc[t] = "locking"
    BY DEF GetLock, IInv, CallOK
  <1>2. ASSUME NEW u \in Thread, Keeps(u, want[t])
        PROVE  FALSE
    <2>1. /\ conn[HostOf[u]][want[t]] \in Session
          /\ owner[want[t]] = conn[HostOf[u]][want[t]]
      BY <1>1, <1>2, KeeperOwns
    <2>2. conn[HostOf[u]][want[t]] = conn[HostOf[t]][want[t]]
      BY <2>1, DbLockAssumption DEF GetLock, Grantable, ConnOf
    <2>3. QED BY <1>1, <1>2, <2>2 DEF IInv, ConnUnique, Active, Keeps
  <1>3. session[ConnOf(t)] = "lent" /\ UNCHANGED <<conn, session>>
    BY DEF GetLock
  <1>4. \A u \in Thread, n \in Name :
           n \in held'[u] <=> n \in held[u] \/ (u = t /\ n = want[t])
    BY <1>1 DEF GetLock, IInv, TypeOK
  <1>5. QED BY <1>1, <1>2, <1>3, <1>4 DEF Keeps, Lost, ConnOf

(* Unlock ends one keeping at most, whatever becomes of its statement.     *)
LEMMA UnlockKeeps ==
  ASSUME IInv, NEW t \in Thread, NEW n \in Name, Unlock(t, n) \/ UnlockError(t, n)
  PROVE  \A u \in Thread, m \in Name : Keeps(u, m)' <=> Keeps(u, m) /\ ~(u = t /\ m = n)
  <1>1. n \in held[t] /\ held' = [held EXCEPT ![t] = held[t] \ {n}] /\ conn' = conn
    BY DEF Unlock, UnlockError, UnlockStarts
  <1>2. \A u \in Thread, m \in Name : m \in held'[u] <=> m \in held[u] /\ ~(u = t /\ m = n)
    BY <1>1 DEF IInv, TypeOK
  <1>3. \A s \in Session : s # conn[HostOf[t]][n] => session'[s] = session[s]
    BY DEF Unlock, UnlockError, IInv, TypeOK
  <1>4. ASSUME NEW u \in Thread, NEW m \in Name, m \in held'[u]
        PROVE  session'[conn'[HostOf[u]][m]] = session[conn[HostOf[u]][m]]
    <2>1. Active(u, m) /\ Active(t, n) /\ ~(u = t /\ m = n)
      BY <1>1, <1>2, <1>4 DEF Active
    <2>2. conn[HostOf[u]][m] \in Session
      BY <1>2, <1>4 DEF IInv, HeldOK, Busy
    <2>3. QED BY <1>1, <1>3, <2>1, <2>2 DEF IInv, ConnUnique
  <1>5. QED BY <1>2, <1>4 DEF Keeps, Lost

(* So does the end of a session.                                           *)
LEMMA SessionDiesKeeps ==
  ASSUME IInv, NEW s \in Session, SessionDies(s)
  PROVE  \A u \in Thread, m \in Name :
            Keeps(u, m)' <=> Keeps(u, m) /\ conn[HostOf[u]][m] # s
  <1>1. held' = held /\ conn' = conn
    BY DEF SessionDies
  <1>2. \A r \in Session : session'[r] = IF r = s THEN IF session[s] = "lent" THEN "lost" ELSE "off"
                                         ELSE session[r]
    BY DEF SessionDies, IInv, TypeOK
  <1>3. session[s] \in {"idle", "lent"}
    BY DEF SessionDies
  <1>4. \A u \in Thread, m \in Name : m \in held[u] =>
           conn[HostOf[u]][m] \in Session /\ session[conn[HostOf[u]][m]] \in {"lent", "lost"}
    BY DEF IInv, HeldOK, Busy
  <1>5. QED BY <1>1, <1>2, <1>3, <1>4 DEF Keeps, Lost

(* Nothing else touches what a keeper has: a connection that is checked    *)
(* out, closed or reaped is another one.                                   *)
LEMMA OthersKeep ==
  ASSUME IInv, [Next]_vars,
         \A t \in Thread : ~GetLock(t),
         \A t \in Thread, n \in Name : ~Unlock(t, n) /\ ~UnlockError(t, n),
         \A s \in Session : ~SessionDies(s)
  PROVE  \A u \in Thread, m \in Name : Keeps(u, m)' <=> Keeps(u, m)
  <1> SUFFICES /\ held' = held
               /\ \A u \in Thread, m \in Name : m \in held[u] =>
                    session'[conn'[HostOf[u]][m]] = session[conn[HostOf[u]][m]]
    BY DEF Keeps, Lost
  <1> DEFINE Untouched == \A u \in Thread, m \in Name : m \in held[u] =>
                            session'[conn'[HostOf[u]][m]] = session[conn[HostOf[u]][m]]
  <1>1. \A u \in Thread, m \in Name : m \in held[u] =>
           /\ mutex[HostOf[u]][m] = u /\ conn[HostOf[u]][m] \in Session /\ Active(u, m)
           /\ session[conn[HostOf[u]][m]] \in {"lent", "lost"}
    BY DEF IInv, HeldOK, Busy, Active
  <1>2. CASE UNCHANGED vars
    BY <1>2 DEF vars
  <1>3. ASSUME NEW t \in Thread, TryLock(t) \/ TryLockFail(t) \/ \E n \in Name : CallLock(t, n)
        PROVE  held' = held /\ Untouched
    BY <1>3 DEF TryLock, TryLockFail, CallLock
  <1>4. ASSUME NEW t \in Thread, NEW s \in Session, Connect(t, s)
        PROVE  held' = held /\ Untouched
    <2>1. /\ want[t] \in Name /\ mutex[HostOf[t]][want[t]] = t /\ want[t] \notin held[t]
          /\ held' = held /\ session[s] \in {"idle", "off"}
      BY <1>4 DEF Connect, IInv, CallOK
    <2>2. ASSUME NEW u \in Thread, NEW m \in Name, m \in held[u]
          PROVE  conn'[HostOf[u]][m] = conn[HostOf[u]][m]
      <3>1. ~(HostOf[u] = HostOf[t] /\ m = want[t])
        BY <1>1, <2>1, <2>2
      <3>2. HostOf[u] \in Process /\ HostOf[t] \in Process
        BY DbLockAssumption
      <3>3. QED BY <1>4, <2>1, <3>1, <3>2 DEF Connect, IInv, TypeOK
    <2>3. \A r \in Session : r # s => session'[r] = session[r]
      BY <1>4 DEF Connect, IInv, TypeOK
    <2>4. QED BY <1>1, <2>1, <2>2, <2>3
  <1>5. ASSUME NEW t \in Thread, ConnectFail(t)
        PROVE  held' = held /\ Untouched
    <2>1. /\ want[t] \in Name /\ mutex[HostOf[t]][want[t]] = t /\ want[t] \notin held[t]
          /\ held' = held /\ session' = session
      BY <1>5 DEF ConnectFail, IInv, CallOK
    <2>2. ASSUME NEW u \in Thread, NEW m \in Name, m \in held[u]
          PROVE  conn'[HostOf[u]][m] = conn[HostOf[u]][m]
      <3>1. ~(HostOf[u] = HostOf[t] /\ m = want[t])
        BY <1>1, <2>1, <2>2
      <3>2. HostOf[u] \in Process /\ HostOf[t] \in Process
        BY DbLockAssumption
      <3>3. QED BY <1>5, <2>1, <3>1, <3>2 DEF ConnectFail, IInv, TypeOK
    <2>3. QED BY <2>1, <2>2
  <1>6. ASSUME NEW t \in Thread, GetLockTimeout(t) \/ GetLockError(t) \/ UnlockReturns(t)
        PROVE  held' = held /\ Untouched
    <2>1. /\ held' = held /\ conn' = conn
          /\ pc[t] \in {"locking", "closing"} /\ want[t] \in Name /\ want[t] \notin held[t]
          /\ Active(t, want[t])
      BY <1>6 DEF GetLockTimeout, GetLockError, UnlockReturns, IInv, CallOK, Active
    <2>2. \A r \in Session : r # conn[HostOf[t]][want[t]] => session'[r] = session[r]
      BY <1>6 DEF GetLockTimeout, GetLockError, UnlockReturns, Close, ConnOf, IInv, TypeOK
    <2>3. \A u \in Thread, m \in Name : m \in held[u] =>
             conn[HostOf[u]][m] # conn[HostOf[t]][want[t]]
      BY <1>1, <2>1 DEF IInv, ConnUnique
    <2>4. QED BY <1>1, <2>1, <2>2, <2>3
  <1>7. ASSUME NEW s \in Session, Reap(s)
        PROVE  held' = held /\ Untouched
    <2>1. \A r \in Session : r # s => session'[r] = session[r]
      BY <1>7 DEF Reap, IInv, TypeOK
    <2>2. held' = held /\ conn' = conn /\ session[s] = "dying"
      BY <1>7 DEF Reap
    <2>3. QED BY <1>1, <2>1, <2>2
  <1>8. QED BY <1>2, <1>3, <1>4, <1>5, <1>6, <1>7 DEF Next, InLock, InUnlock

(* Whatever fails, the package implements NamedLock: a GET_LOCK that is    *)
(* granted acquires, the start of Unlock and the end of a session release  *)
(* what is still kept, and everything else is invisible.                   *)
THEOREM Refinement == Spec => ImplementsNamedLock
  <1> USE DbLockAssumption
  <1>1. Init => Abstract!Init
    <2> SUFFICES ASSUME Init PROVE Abstract!Init
      OBVIOUS
    <2>1. \A n \in Name, t \in Thread : ~Keeps(t, n)
      BY DEF Init, Keeps
    <2>2. \A n \in Name : HolderOf[n] = NoThread
      BY <2>1, InitIInv, HolderIsHolder DEF HolderCorrect
    <2>3. HolderOf = [n \in Name |-> NoThread]
      BY <2>2 DEF HolderOf
    <2>4. QED BY <2>3 DEF Abstract!Init
  <1>2. IInv /\ IInv' /\ [Next]_vars => [Abstract!Next]_HolderOf
    <2> SUFFICES ASSUME IInv, IInv', [Next]_vars PROVE [Abstract!Next]_HolderOf
      OBVIOUS
    <2>1. \A n \in Name : /\ \A t \in Thread : Keeps(t, n) => HolderOf[n] = t
                          /\ (\A t \in Thread : ~Keeps(t, n)) => HolderOf[n] = NoThread
      BY HolderIsHolder DEF HolderCorrect
    <2>2. \A n \in Name : /\ \A t \in Thread : Keeps(t, n)' => HolderOf'[n] = t
                          /\ (\A t \in Thread : ~Keeps(t, n)') => HolderOf'[n] = NoThread
      <3>1. HolderCorrect'
        BY HolderIsHolder, PTL
      <3>2. QED BY <3>1 DEF HolderCorrect
    <2>3. ASSUME NEW n \in Name, \A t \in Thread : Keeps(t, n)' <=> Keeps(t, n)
          PROVE  HolderOf'[n] = HolderOf[n]
      BY <2>1, <2>2, <2>3
    <2>4. /\ HolderOf = [n \in Name |-> HolderOf[n]]
          /\ HolderOf' = [n \in Name |-> HolderOf'[n]]
      BY DEF HolderOf
    <2>5. ASSUME \A u \in Thread, m \in Name : Keeps(u, m)' <=> Keeps(u, m)
          PROVE  HolderOf' = HolderOf
      <3>1. \A n \in Name : HolderOf'[n] = HolderOf[n]
        BY <2>3, <2>5
      <3>2. QED BY <2>4, <3>1
    <2>6. ASSUME NEW t \in Thread, GetLock(t)
          PROVE  Abstract!Next
      <3>1. /\ want[t] \in Name /\ \A u \in Thread : ~Keeps(u, want[t])
            /\ \A u \in Thread, n \in Name :
                 Keeps(u, n)' <=> Keeps(u, n) \/ (u = t /\ n = want[t])
        BY <2>6, GetLockKeeps
      <3>2. HolderOf[want[t]] = NoThread /\ HolderOf'[want[t]] = t
        BY <3>1, <2>1, <2>2
      <3>3. \A n \in Name : n # want[t] => HolderOf'[n] = HolderOf[n]
        BY <3>1, <2>3
      <3>4. HolderOf' = [HolderOf EXCEPT ![want[t]] = t]
        BY <2>4, <3>1, <3>2, <3>3
      <3>5. Abstract!Acquire(t, want[t])
        BY <3>2, <3>4 DEF Abstract!Acquire
      <3>6. QED BY <3>1, <3>5 DEF Abstract!Next
    <2>7. ASSUME NEW t \in Thread, NEW n \in Name, Keeps(t, n),
                 \A u \in Thread, m \in Name :
                    Keeps(u, m)' <=> Keeps(u, m) /\ ~(u = t /\ m = n)
          PROVE  Abstract!Next
      <3>1. \A u \in Thread : ~Keeps(u, n)'
        BY <2>7, <2>1
      <3>2. HolderOf[n] = t /\ HolderOf'[n] = NoThread
        BY <3>1, <2>7, <2>1, <2>2
      <3>3. \A m \in Name : m # n => HolderOf'[m] = HolderOf[m]
        BY <2>7, <2>3
      <3>4. HolderOf' = [HolderOf EXCEPT ![n] = NoThread]
        BY <2>4, <3>2, <3>3
      <3>5. QED BY <3>2, <3>4 DEF Abstract!Release, Abstract!Next
    <2>8. ASSUME NEW t \in Thread, NEW n \in Name, Unlock(t, n) \/ UnlockError(t, n)
          PROVE  [Abstract!Next]_HolderOf
      <3>1. \A u \in Thread, m \in Name : Keeps(u, m)' <=> Keeps(u, m) /\ ~(u = t /\ m = n)
        BY <2>8, UnlockKeeps
      <3>2. CASE Keeps(t, n)
        BY <2>7, <3>1, <3>2
      <3>3. CASE ~Keeps(t, n)
        BY <2>5, <3>1, <3>3
      <3>4. QED BY <3>2, <3>3
    <2>9. ASSUME NEW s \in Session, SessionDies(s)
          PROVE  [Abstract!Next]_HolderOf
      <3>1. \A u \in Thread, m \in Name :
               Keeps(u, m)' <=> Keeps(u, m) /\ conn[HostOf[u]][m] # s
        BY <2>9, SessionDiesKeeps
      <3>2. CASE \E t \in Thread, n \in Name : Keeps(t, n) /\ conn[HostOf[t]][n] = s
        <4>1. PICK t \in Thread, n \in Name : Keeps(t, n) /\ conn[HostOf[t]][n] = s
          BY <3>2
        <4>2. \A u \in Thread, m \in Name :
                 Keeps(u, m) /\ conn[HostOf[u]][m] = s => u = t /\ m = n
          BY <4>1 DEF IInv, ConnUnique, Active, Keeps
        <4>3. \A u \in Thread, m \in Name :
                 Keeps(u, m)' <=> Keeps(u, m) /\ ~(u = t /\ m = n)
          BY <3>1, <4>1, <4>2
        <4>4. QED BY <2>7, <4>1, <4>3
      <3>3. CASE ~\E t \in Thread, n \in Name : Keeps(t, n) /\ conn[HostOf[t]][n] = s
        BY <2>5, <3>1, <3>3
      <3>4. QED BY <3>2, <3>3
    <2>10. QED BY <2>5, <2>6, <2>8, <2>9, OthersKeep
  <1>3. QED BY <1>1, <1>2, InitIInv, InvarianceStep, PTL
           DEF Spec, Abstract!Spec, ImplementsNamedLock
=============================================================================
