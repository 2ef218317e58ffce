--------------------------- MODULE DaemonsProofs ----------------------------
(***************************************************************************)
(* Proofs about what runs as long as its process, for any number of        *)
(* servers and requests, any jobs and runs and any group of goroutines.    *)
(* Each part has its own inductive invariant: HttpInv follows the shutdown *)
(* goroutine (the servers it is past have no request left, and when its    *)
(* deadline expires or Start returns, some listener has already put the    *)
(* error in the group that Wait expects); ContainerInv the close of the    *)
(* socket and the child's status; CronInv says of each place a run can be  *)
(* at which alerts it has asked for; GroupInv is what Wait promises.       *)
(***************************************************************************)
EXTENDS Daemons, Integers, SequenceTheorems, TLAPS

-----------------------------------------------------------------------------
(* The HTTP daemon.                                                        *)

(* Where the goroutine is, and what the deadline can then be.              *)
CloserOK == /\ closer = "waiting" => closing = 0 /\ deadline = "unset"
            /\ closer = "closing" => closing \in 1..Count
            /\ \A s \in Server : s < closing => requests[s] = 0
            /\ closer = "returned" =>
                 deadline = "expired" \/ (closing = Count /\ \A s \in Server : requests[s] = 0)

(* The group's error is that of a listener.                                *)
GroupOK == /\ group \in {"none", "ErrServerClosed"}
           /\ (\E s \in Server : listener[s] = "returned") => group = "ErrServerClosed"
           /\ deadline = "expired" => \E s \in Server : listener[s] = "returned"

(* Start returns that error, and after its goroutines.                     *)
StartOK == /\ start \in {"running", "ErrServerClosed"}
           /\ start # "running" => closer = "returned"
           /\ process \in {"running", "exit130", "crashed"}
           /\ process = "exit130" => start # "running"

HttpInv == TypeOK /\ CloserOK /\ GroupOK /\ StartOK

(* Nothing is served and nobody asked to stop.                             *)
LEMMA HttpInitInv == ASSUME Init PROVE HttpInv
  <1> USE HttpServerAssumption DEF Init, DaemonInit, Server
  <1>1. TypeOK
    <2>1. DaemonTypeOK
      BY DEF DaemonTypeOK
    <2>2. listener \in [Server -> {"starting", "serving", "returned"}]
      OBVIOUS
    <2>3. requests \in [Server -> 0..MaxRequests]
      OBVIOUS
    <2>4. QED BY <2>1, <2>2, <2>3 DEF TypeOK
  <1>2. CloserOK /\ GroupOK /\ StartOK
    BY DEF CloserOK, GroupOK, StartOK
  <1>3. QED BY <1>1, <1>2 DEF HttpInv

(* Every step keeps the type and follows the goroutine; the group's first  *)
(* error is that of a listener that was shut down.                         *)
LEMMA HttpStepInv == ASSUME HttpInv, [Next]_vars PROVE HttpInv'
  <1> USE HttpServerAssumption DEF HttpInv, TypeOK, DaemonTypeOK, Server, Errors,
                                   CloserOK, GroupOK, StartOK, Alive
  <1>1. CASE UNCHANGED vars
    BY <1>1 DEF vars, daemonVars, serverVars
  <1>2. CASE WatcherTakesSignal /\ UNCHANGED serverVars
    BY <1>2 DEF WatcherTakesSignal, serverVars
  <1>3. CASE WatcherIsDone /\ UNCHANGED serverVars
    BY <1>3 DEF WatcherIsDone, serverVars
  <1>4. CASE Interrupt /\ UNCHANGED serverVars
    BY <1>4 DEF Interrupt, serverVars
  <1>5. CASE ParentCancels /\ UNCHANGED serverVars
    BY <1>5 DEF ParentCancels, serverVars
  <1>6. CASE Wait /\ UNCHANGED serverVars
    BY <1>6 DEF Wait, serverVars
  <1>7. CASE StartShutdown
    BY <1>7 DEF StartShutdown, daemonVars
  <1>8. CASE ShutdownDrained
    BY <1>8 DEF ShutdownDrained, daemonVars
  <1>9. CASE ShutdownFails
    BY <1>9 DEF ShutdownFails, daemonVars, FirstError
  <1>10. CASE DeadlineExpires
    BY <1>10 DEF DeadlineExpires, daemonVars
  <1>11. CASE StartReturns
    BY <1>11 DEF StartReturns, serverVars, StartIsOver
  <1>12. ASSUME NEW s \in Server, Listen(s) PROVE HttpInv'
    BY <1>12 DEF Listen, daemonVars
  <1>13. ASSUME NEW s \in Server, ListenPanics(s) PROVE HttpInv'
    BY <1>13 DEF ListenPanics, serverVars
  <1>14. ASSUME NEW s \in Server, ServerClosed(s) PROVE HttpInv'
    BY <1>14 DEF ServerClosed, daemonVars, FirstError
  <1>15. ASSUME NEW s \in Server, Accept(s) PROVE HttpInv'
    BY <1>15 DEF Accept, daemonVars
  <1>16. ASSUME NEW s \in Server, Finish(s) PROVE HttpInv'
    BY <1>16 DEF Finish, daemonVars
  <1>17. QED
    BY <1>1, <1>2, <1>3, <1>4, <1>5, <1>6, <1>7, <1>8, <1>9,
       <1>10, <1>11, <1>12, <1>13, <1>14, <1>15, <1>16
    DEF Next, Daemon, Watcher, Outside, Shutdown

(* The process exits with requests in flight only after the deadline, and  *)
(* Wait never panics: not even when requests outlast the deadline.         *)
LEMMA HttpEndsWell == ASSUME HttpInv PROVE HttpExitIsGraceful
  BY DEF HttpInv, CloserOK, StartOK, HttpExitIsGraceful, ExitIsGraceful, NoPanicInWait

-----------------------------------------------------------------------------
(* The FastCGI daemon in its container.                                    *)

(* Start of fcgi.go: the socket is open only while it is served, the other *)
(* goroutine leaves it closed, and the flag says that ctx was done.        *)
SocketOK == /\ serve = "unstarted" => ~open /\ served = "none" /\ socketCloser = "starting"
            /\ serve = "serving" => served = "none"
            /\ serve = "returned" => served # "none"
            /\ served \in {"none", "accept", "closed"}
            /\ socketCloser = "returned" => ~open
            /\ closed => ctx = "cancelled"

(* What Start returned, and that it did before the process ended well.     *)
ResultOK == /\ start = "running" \/ start = "listen" \/ socketCloser = "returned"
            /\ start = "listen" => serve = "unstarted"
            /\ start = "ErrServerClosed" => closed /\ served = "closed"
            /\ process = "exit130" => start = "ErrServerClosed"

(* The wrapper has a child since it started the command, and a status only *)
(* of a child that is over.                                                *)
StatusOK == /\ wrapper = "setup" => process = "unborn"
            /\ wrapper \in {"started", "proxying"} => process # "unborn"
            /\ waitCh # "empty" => Container!ChildOver /\ waitCh = process
            /\ wrapper = "exited" /\ process # "unborn" =>
                 waitCh # "empty" /\ code = Container!ExitStatus(waitCh)

ContainerInv == Container!ContainerTypeOK /\ SocketOK /\ ResultOK /\ StatusOK

(* The statuses that the wrapper can exit with.                            *)
LEMMA ExitStatusIs ==
  ASSUME NEW status \in {"exit130", "panicked", "crashed", "killed"}
  PROVE  /\ Container!ExitStatus(status) \in {2, 130, 255}
         /\ Container!ExitStatus(status) = 130 <=> status = "exit130"
  <1>1. (-1) % 256 = 255
    <2>1. \A n \in Int : /\ n % 256 \in 0..255 /\ n \div 256 \in Int
                         /\ n = 256 * (n \div 256) + (n % 256)
      OBVIOUS
    <2>2. \A q \in Int, r \in 0..255 : -1 = 256 * q + r => r = 255
      OBVIOUS
    <2>3. -1 \in Int
      OBVIOUS
    <2>4. QED BY <2>1, <2>2, <2>3, Zenon
  <1>2. QED BY <1>1 DEF Container!ExitStatus

(* The container has not begun to set up.                                  *)
LEMMA ContainerInitInv == ASSUME Container!ContainerInit PROVE ContainerInv
  BY DEF Container!ContainerInit, Container!ServerInit, Container!DaemonInit, ContainerInv,
         Container!ContainerTypeOK, Container!TypeOK, Container!DaemonTypeOK, Container!Errors,
         Container!Signals, SocketOK, ResultOK, StatusOK, Container!ChildOver

(* Each step of the daemon in the child keeps the invariant.               *)
LEMMA ChildRunsInv == ASSUME ContainerInv, Container!ChildRuns PROVE ContainerInv'
  <1> USE DEF ContainerInv, Container!ContainerTypeOK, Container!TypeOK, Container!DaemonTypeOK,
              Container!Errors, Container!Signals, SocketOK, ResultOK, StatusOK,
              Container!ChildOver, Container!ChildRuns, Container!wrapperVars,
              Container!Alive, Container!SrvCtxDone, Container!GosCtxDone
  <1>1. CASE Container!WatcherTakesSignal /\ UNCHANGED Container!serverVars
    <2>1. ch' = FALSE /\ ch' \in BOOLEAN
      BY <1>1, Zenon DEF Container!WatcherTakesSignal
    <2>2. QED BY <1>1, <2>1 DEF Container!WatcherTakesSignal, Container!serverVars
  <1>2. CASE Container!WatcherIsDone /\ UNCHANGED Container!serverVars
    BY <1>2 DEF Container!WatcherIsDone, Container!serverVars
  <1>3. CASE Container!Wait /\ UNCHANGED Container!serverVars
    BY <1>3 DEF Container!Wait, Container!serverVars
  <1>4. CASE Container!ParentCancels /\ UNCHANGED Container!serverVars
    BY <1>4 DEF Container!ParentCancels, Container!serverVars
  <1>5. CASE Container!ListenFails
    BY <1>5 DEF Container!ListenFails, Container!serverVars
  <1>6. CASE Container!Listen
    BY <1>6 DEF Container!Listen, Container!daemonVars
  <1>7. CASE Container!AcceptFails
    BY <1>7 DEF Container!AcceptFails, Container!daemonVars
  <1>8. CASE Container!ServeReturns
    BY <1>8 DEF Container!ServeReturns, Container!daemonVars
  <1>9. CASE Container!Park
    BY <1>9 DEF Container!Park, Container!daemonVars
  <1>10. CASE Container!SelectsCtx
    BY <1>10 DEF Container!SelectsCtx, Container!WakesBy, Container!daemonVars
  <1>11. CASE Container!SelectsGosCtx
    <2>1. closed' = FALSE /\ closed' \in BOOLEAN
      BY <1>11, Zenon DEF Container!SelectsGosCtx, Container!WakesBy
    <2>2. QED BY <1>11, <2>1 DEF Container!SelectsGosCtx, Container!WakesBy, Container!daemonVars
  <1>12. CASE Container!CloseListener
    <2>1. open' = FALSE /\ open' \in BOOLEAN
      BY <1>12, Zenon DEF Container!CloseListener
    <2>2. QED BY <1>12, <2>1 DEF Container!CloseListener, Container!daemonVars
  <1>13. CASE Container!StartReturns
    BY <1>13 DEF Container!StartReturns, Container!Suppresses, Container!serverVars
  <1>14. QED
    BY <1>1, <1>2, <1>3, <1>4, <1>5, <1>6, <1>7, <1>8, <1>9, <1>10, <1>11, <1>12, <1>13
    DEF Container!Watcher, Container!Closer

(* So does each step of the wrapper: a signal reaches only a child that is *)
(* not over, so that a status stays what it was.                           *)
LEMMA ContainerStepInv ==
  ASSUME ContainerInv, [Container!ContainerNext]_Container!containerVars
  PROVE  ContainerInv'
  <1> USE DEF ContainerInv, Container!ContainerTypeOK, Container!TypeOK, Container!DaemonTypeOK,
              Container!Errors, Container!Signals, SocketOK, ResultOK, StatusOK,
              Container!ChildOver, Container!vars, Container!daemonVars, Container!serverVars
  <1>1. CASE UNCHANGED Container!containerVars
    BY <1>1 DEF Container!containerVars, Container!wrapperVars
  <1>2. CASE Container!SetupFails
    BY <1>2 DEF Container!SetupFails
  <1>3. CASE Container!StartCommand
    BY <1>3 DEF Container!StartCommand
  <1>4. CASE Container!Notify
    BY <1>4 DEF Container!Notify
  <1>5. CASE Container!ProxySignal
    BY <1>5 DEF Container!ProxySignal, Container!Deliver, Container!Kills, Container!Stops,
                Container!Alive
  <1>6. CASE Container!CommandEnds
    BY <1>6 DEF Container!CommandEnds, Container!Running
  <1>7. CASE Container!Exit
    <2>1. /\ Container!ExitStatus(waitCh) \in {2, 130, 255}
          /\ waitCh' = waitCh /\ code' = Container!ExitStatus(waitCh)
      BY <1>7, ExitStatusIs DEF Container!Exit
    <2>2. QED BY <1>7, <2>1 DEF Container!Exit
  <1>8. CASE Container!ChildBoots
    BY <1>8 DEF Container!ChildBoots, Container!wrapperVars
  <1>9. CASE Container!ChildRuns
    BY <1>9, ChildRunsInv
  <1>10. ASSUME NEW sig \in Container!Signals, Container!SignalArrives(sig) PROVE ContainerInv'
    BY <1>10 DEF Container!SignalArrives
  <1>11. QED
    BY <1>1, <1>2, <1>3, <1>4, <1>5, <1>6, <1>7, <1>8, <1>9, <1>10 DEF Container!ContainerNext

(* A clean exit was asked for and left the socket closed; the wrapper says *)
(* of its child what became of it.                                         *)
LEMMA ContainerInvTells ==
  ASSUME ContainerInv PROVE Container!ExitIsAsked /\ Container!WrapperTellsTheEnd
  <1>1. Container!ExitIsAsked
    BY DEF ContainerInv, SocketOK, ResultOK, Container!ExitIsAsked
  <1>2. Container!WrapperTellsTheEnd
    BY ExitStatusIs DEF ContainerInv, StatusOK, Container!WrapperTellsTheEnd, Container!ChildOver
  <1>3. QED BY <1>1, <1>2

-----------------------------------------------------------------------------
(* The cron jobs.                                                          *)

Sent(about, names, result) == [about |-> about, names |-> names, result |-> result]

(* The alerts of a run that is over, by its outcome.                       *)
ErrorReported(r) ==
  \/ \E result \in {"sent", "error"} : alerts[r] = <<Sent("error", NoJob, result)>>
  \/ \E result \in Crons!Results :
       alerts[r] = <<Sent("error", NoJob, "panic"), Sent("panic", job[r], result)>>
PanicReported(r) ==
  \E result \in Crons!Results : alerts[r] = <<Sent("panic", job[r], result)>>

FreeOK(r) == \/ outcome[r] \in {"none", "nil"} /\ alerts[r] = <<>>
             \/ outcome[r] = "error" /\ ErrorReported(r)
             \/ outcome[r] = "panic" /\ PanicReported(r)

RunOK(r) ==
  /\ at[r] = "free" => FreeOK(r)
  /\ at[r] = "fn" => outcome[r] = "none" /\ alerts[r] = <<>>
  /\ at[r] = "failed" => outcome[r] = "error" /\ alerts[r] = <<>>
  /\ at[r] = "recovering" =>
       \/ outcome[r] = "panic" /\ alerts[r] = <<>>
       \/ outcome[r] = "error" /\ alerts[r] = <<Sent("error", NoJob, "panic")>>

RunsOK == \A r \in Run : RunOK(r)

CronInv == Crons!TypeOK /\ RunsOK /\ Crons!PanicIsContained

(* No job has run.                                                         *)
LEMMA CronInitInv == ASSUME Crons!Init PROVE CronInv
  <1>1. Crons!TypeOK
    BY DEF Crons!Init, Crons!TypeOK
  <1>2. RunsOK
    BY DEF Crons!Init, RunsOK, RunOK, FreeOK
  <1>3. Crons!PanicIsContained
    BY DEF Crons!Init, Crons!PanicIsContained
  <1>4. QED BY <1>1, <1>2, <1>3 DEF CronInv

(* The type is kept by every step.                                         *)
LEMMA CronStepTypeOK == ASSUME Crons!TypeOK, [Crons!Next]_Crons!vars PROVE Crons!TypeOK'
  <1> USE DEF Crons!TypeOK
  <1>1. CASE UNCHANGED Crons!vars
    BY <1>1 DEF Crons!vars, Crons!runVars
  <1>2. CASE Crons!ParentCancels
    BY <1>2 DEF Crons!ParentCancels, Crons!runVars
  <1>3. CASE Crons!StopSchedule
    BY <1>3 DEF Crons!StopSchedule, Crons!runVars
  <1>4. ASSUME NEW r \in Run, NEW j \in Job, Crons!Start(r, j) PROVE Crons!TypeOK'
    BY <1>4 DEF Crons!Start
  <1>5. ASSUME NEW r \in Run, NEW how \in {"nil", "error", "panic"}, Crons!FnEnds(r, how)
        PROVE  Crons!TypeOK'
    BY <1>5 DEF Crons!FnEnds
  <1>6. ASSUME NEW r \in Run, NEW result \in Crons!Results, Crons!ReportError(r, result)
        PROVE  Crons!TypeOK'
    <2>1. Sent("error", NoJob, result) \in Crons!Alert
      BY DEF Sent, Crons!Alert
    <2>2. alerts' = [alerts EXCEPT ![r] = Append(@, Sent("error", NoJob, result))]
      BY <1>6 DEF Crons!ReportError, Crons!SendAlert, Sent
    <2>3. alerts' \in [Run -> Seq(Crons!Alert)]
      BY <2>1, <2>2, AppendProperties
    <2>4. QED BY <1>6, <2>3 DEF Crons!ReportError
  <1>7. ASSUME NEW r \in Run, NEW result \in Crons!Results, Crons!ReportPanic(r, result)
        PROVE  Crons!TypeOK'
    <2>1. Sent("panic", job[r], result) \in Crons!Alert
      BY DEF Sent, Crons!Alert
    <2>2. alerts' = [alerts EXCEPT ![r] = Append(@, Sent("panic", job[r], result))]
      BY <1>7 DEF Crons!ReportPanic, Crons!SendAlert, Sent
    <2>3. alerts' \in [Run -> Seq(Crons!Alert)]
      BY <2>1, <2>2, AppendProperties
    <2>4. QED BY <1>7, <2>3 DEF Crons!ReportPanic
  <1>8. QED BY <1>1, <1>2, <1>3, <1>4, <1>5, <1>6, <1>7 DEF Crons!Next, Crons!Report,
                                                            Crons!FnReturns

(* A run that another step leaves alone is as it was.                      *)
LEMMA Untouched ==
  ASSUME NEW r \in Run, RunOK(r), at'[r] = at[r], outcome'[r] = outcome[r],
         alerts'[r] = alerts[r], job'[r] = job[r]
  PROVE  RunOK(r)'
  BY DEF RunOK, FreeOK, ErrorReported, PanicReported

(* The second alert of a run.                                              *)
LEMMA AppendSecond == ASSUME NEW a, NEW b PROVE Append(<<a>>, b) = <<a, b>>
  <1> DEFINE S == {a, b}
             s == <<a>>
             t == <<a, b>>
  <1>1. s \in Seq(S) /\ Len(s) = 1 /\ s[1] = a
    OBVIOUS
  <1>2. t \in Seq(S) /\ Len(t) = 2 /\ t[1] = a /\ t[2] = b
    OBVIOUS
  <1>3. b \in S
    OBVIOUS
  <1> HIDE DEF S, s, t
  <1>3a. PICK q \in Seq(S) : q = s
    BY <1>1
  <1>4. /\ Append(q, b) \in Seq(S) /\ Len(Append(q, b)) = Len(q) + 1
        /\ \A i \in 1..Len(q) : Append(q, b)[i] = q[i]
        /\ Append(q, b)[Len(q) + 1] = b
    BY <1>3, AppendProperties
  <1>5. Len(q) = 1 /\ q[1] = a
    BY <1>1, <1>3a
  <1>6. Len(Append(q, b)) = 2 /\ Append(q, b)[1] = a /\ Append(q, b)[2] = b
    BY <1>4, <1>5
  <1>7. \A i \in 1..2 : Append(q, b)[i] = t[i]
    BY <1>2, <1>6
  <1>8. Append(q, b) = t
    BY <1>2, <1>4, <1>6, <1>7, SeqEqual
  <1>9. QED BY <1>3a, <1>8 DEF s, t

(* Each step of a run asks for the alert that its place calls for.         *)
LEMMA StepRunsOK == ASSUME CronInv, [Crons!Next]_Crons!vars PROVE RunsOK'
  <1> SUFFICES ASSUME NEW q \in Run PROVE RunOK(q)'
    BY DEF RunsOK
  <1> Crons!TypeOK /\ RunOK(q)
    BY DEF CronInv, RunsOK
  <1>0. CASE at'[q] = at[q] /\ outcome'[q] = outcome[q] /\ alerts'[q] = alerts[q] /\ job'[q] = job[q]
    BY <1>0, Untouched
  <1>1. CASE UNCHANGED Crons!vars
    BY <1>0, <1>1 DEF Crons!vars, Crons!runVars
  <1>2. CASE Crons!ParentCancels
    BY <1>0, <1>2 DEF Crons!ParentCancels, Crons!runVars
  <1>3. CASE Crons!StopSchedule
    BY <1>0, <1>3 DEF Crons!StopSchedule, Crons!runVars
  <1>4. ASSUME NEW r \in Run, NEW j \in Job, Crons!Start(r, j) PROVE RunOK(q)'
    <2>1. CASE q = r
      BY <1>4, <2>1 DEF Crons!Start, Crons!TypeOK, RunOK
    <2>2. CASE q # r
      BY <1>0, <1>4, <2>2 DEF Crons!Start, Crons!TypeOK
    <2>3. QED BY <2>1, <2>2
  <1>5. ASSUME NEW r \in Run, NEW how \in {"nil", "error", "panic"}, Crons!FnEnds(r, how)
        PROVE  RunOK(q)'
    <2>1. CASE q = r
      BY <1>5, <2>1 DEF Crons!FnEnds, Crons!TypeOK, RunOK, FreeOK
    <2>2. CASE q # r
      BY <1>0, <1>5, <2>2 DEF Crons!FnEnds, Crons!TypeOK
    <2>3. QED BY <2>1, <2>2
  <1>6. ASSUME NEW r \in Run, NEW result \in Crons!Results, Crons!ReportError(r, result)
        PROVE  RunOK(q)'
    <2>1. alerts' = [alerts EXCEPT ![r] = Append(@, Sent("error", NoJob, result))]
      BY <1>6 DEF Crons!ReportError, Crons!SendAlert, Sent
    <2>2. CASE q = r
      <3>1. alerts[r] = <<>> /\ outcome'[r] = "error"
        BY <1>6, <2>2 DEF Crons!ReportError, RunOK, Crons!TypeOK
      <3>2. alerts'[r] = <<Sent("error", NoJob, result)>>
        BY <2>1, <3>1 DEF Crons!TypeOK
      <3>3. at'[r] = IF result = "panic" THEN "recovering" ELSE "free"
        BY <1>6 DEF Crons!ReportError, Crons!TypeOK
      <3>4. CASE result = "panic"
        BY <2>2, <3>1, <3>2, <3>3, <3>4 DEF RunOK
      <3>5. CASE result \in {"sent", "error"}
        BY <2>2, <3>1, <3>2, <3>3, <3>5 DEF RunOK, FreeOK, ErrorReported
      <3>6. QED BY <3>4, <3>5 DEF Crons!Results
    <2>3. CASE q # r
      BY <1>0, <1>6, <2>1, <2>3 DEF Crons!ReportError, Crons!TypeOK
    <2>4. QED BY <2>2, <2>3
  <1>7. ASSUME NEW r \in Run, NEW result \in Crons!Results, Crons!ReportPanic(r, result)
        PROVE  RunOK(q)'
    <2>1. alerts' = [alerts EXCEPT ![r] = Append(@, Sent("panic", job[r], result))]
      BY <1>7 DEF Crons!ReportPanic, Crons!SendAlert, Sent
    <2>2. CASE q = r
      <3>1. /\ at[r] = "recovering" /\ at'[r] = "free"
            /\ outcome'[r] = outcome[r] /\ job'[r] = job[r]
        BY <1>7 DEF Crons!ReportPanic, Crons!TypeOK
      <3>2. CASE outcome[r] = "panic" /\ alerts[r] = <<>>
        <4>1. alerts'[r] = <<Sent("panic", job'[r], result)>>
          BY <2>1, <3>1, <3>2 DEF Crons!TypeOK
        <4>2. QED BY <2>2, <3>1, <3>2, <4>1 DEF RunOK, FreeOK, PanicReported
      <3>3. CASE outcome[r] = "error" /\ alerts[r] = <<Sent("error", NoJob, "panic")>>
        <4>1. alerts'[r] = <<Sent("error", NoJob, "panic"), Sent("panic", job'[r], result)>>
          <5>1. alerts'[r] = Append(alerts[r], Sent("panic", job'[r], result))
            BY <2>1, <3>1 DEF Crons!TypeOK
          <5>2. QED BY <5>1, <3>3, AppendSecond
        <4>2. QED BY <2>2, <3>1, <3>3, <4>1 DEF RunOK, FreeOK, ErrorReported
      <3>4. QED BY <2>2, <3>1, <3>2, <3>3 DEF RunOK
    <2>3. CASE q # r
      BY <1>0, <1>7, <2>1, <2>3 DEF Crons!ReportPanic, Crons!TypeOK
    <2>4. QED BY <2>2, <2>3
  <1>8. QED BY <1>1, <1>2, <1>3, <1>4, <1>5, <1>6, <1>7 DEF Crons!Next, Crons!Report,
                                                            Crons!FnReturns

(* Some report of a panic ended in a panic.                                *)
Ended(s) == \E n \in DOMAIN s : s[n].about = "panic" /\ s[n].result = "panic"

(* An alert that is added ends the process if it is such a report.         *)
LEMMA AppendEnded ==
  ASSUME NEW s \in Seq(Crons!Alert), NEW about, NEW names, NEW result,
         Sent(about, names, result) \in Crons!Alert
  PROVE  Ended(Append(s, Sent(about, names, result)))
           <=> Ended(s) \/ (about = "panic" /\ result = "panic")
  <1> DEFINE e == Sent(about, names, result)
             t == Append(s, e)
  <1>1. /\ t \in Seq(Crons!Alert) /\ Len(t) = Len(s) + 1 /\ t[Len(s) + 1] = e
        /\ \A n \in 1..Len(s) : t[n] = s[n]
    BY AppendProperties
  <1>2. e.about = about /\ e.result = result
    BY DEF Sent
  <1> HIDE DEF e, t
  <1>3. Len(s) \in Nat /\ DOMAIN s = 1..Len(s) /\ DOMAIN t = 1..Len(s) + 1
    BY <1>1, LenProperties
  <1>4. Ended(t) <=> Ended(s) \/ (about = "panic" /\ result = "panic")
    BY <1>1, <1>2, <1>3 DEF Ended
  <1>5. QED BY <1>4 DEF e, t

(* Only a panic of the alerter in the deferred function ends the process.  *)
LEMMA StepContained == ASSUME CronInv, [Crons!Next]_Crons!vars PROVE Crons!PanicIsContained'
  <1> DEFINE Crash == \E r \in Run : Ended(alerts[r])
  <1>a. Crons!PanicIsContained <=> (process = "crashed" <=> Crash)
    BY DEF Crons!PanicIsContained, Ended
  <1>b. Crons!PanicIsContained' <=> (process' = "crashed" <=> Crash')
    BY DEF Crons!PanicIsContained, Ended
  <1> SUFFICES process' = "crashed" <=> Crash'
    BY <1>b
  <1>c. Crons!TypeOK /\ (process = "crashed" <=> Crash)
    BY <1>a DEF CronInv
  <1>0. CASE UNCHANGED <<process, alerts>>
    BY <1>0, <1>c
  <1>1. CASE UNCHANGED Crons!vars
    BY <1>0, <1>1 DEF Crons!vars, Crons!runVars
  <1>2. CASE Crons!ParentCancels
    BY <1>0, <1>2 DEF Crons!ParentCancels, Crons!runVars
  <1>3. CASE Crons!StopSchedule
    BY <1>0, <1>3 DEF Crons!StopSchedule, Crons!runVars
  <1>4. ASSUME NEW r \in Run, NEW j \in Job, Crons!Start(r, j) PROVE process' = "crashed" <=> Crash'
    <2>1. process = "running" /\ process' = "running" /\ alerts' = [alerts EXCEPT ![r] = <<>>]
      BY <1>4 DEF Crons!Start, Crons!Alive
    <2>2. ~Ended(<<>>)
      BY DEF Ended
    <2>3. QED BY <1>c, <2>1, <2>2 DEF Crons!TypeOK
  <1>5. ASSUME NEW r \in Run, NEW how \in {"nil", "error", "panic"}, Crons!FnEnds(r, how)
        PROVE  process' = "crashed" <=> Crash'
    BY <1>0, <1>5 DEF Crons!FnEnds
  <1>6. ASSUME NEW r \in Run, NEW result \in Crons!Results, Crons!ReportError(r, result)
        PROVE  process' = "crashed" <=> Crash'
    <2>1. /\ process = "running" /\ process' = "running" /\ alerts[r] \in Seq(Crons!Alert)
          /\ alerts' = [alerts EXCEPT ![r] = Append(@, Sent("error", NoJob, result))]
      BY <1>6, <1>c DEF Crons!ReportError, Crons!SendAlert, Sent, Crons!Alive, Crons!TypeOK
    <2>2. Sent("error", NoJob, result) \in Crons!Alert
      BY DEF Sent, Crons!Alert
    <2>3. Ended(alerts'[r]) <=> Ended(alerts[r])
      BY <2>1, <2>2, <1>c, AppendEnded DEF Crons!TypeOK
    <2>4. \A q \in Run \ {r} : alerts'[q] = alerts[q]
      BY <2>1, <1>c DEF Crons!TypeOK
    <2>5. QED BY <1>c, <2>1, <2>3, <2>4
  <1>7. ASSUME NEW r \in Run, NEW result \in Crons!Results, Crons!ReportPanic(r, result)
        PROVE  process' = "crashed" <=> Crash'
    <2>1. /\ process = "running" /\ alerts[r] \in Seq(Crons!Alert)
          /\ process' = IF result = "panic" THEN "crashed" ELSE "running"
          /\ alerts' = [alerts EXCEPT ![r] = Append(@, Sent("panic", job[r], result))]
      BY <1>7, <1>c DEF Crons!ReportPanic, Crons!SendAlert, Sent, Crons!Alive, Crons!TypeOK
    <2>2. Sent("panic", job[r], result) \in Crons!Alert
      BY <1>c DEF Sent, Crons!Alert, Crons!TypeOK
    <2>3. Ended(alerts'[r]) <=> Ended(alerts[r]) \/ result = "panic"
      BY <2>1, <2>2, <1>c, AppendEnded DEF Crons!TypeOK
    <2>4. \A q \in Run \ {r} : alerts'[q] = alerts[q]
      BY <2>1, <1>c DEF Crons!TypeOK
    <2>5. QED BY <1>c, <2>1, <2>3, <2>4
  <1>8. QED
    BY <1>1, <1>2, <1>3, <1>4, <1>5, <1>6, <1>7 DEF Crons!Next, Crons!Report, Crons!FnReturns

(* What the alerts of a run that is over say.                              *)
LEMMA FreeIsReported == ASSUME Crons!TypeOK, NEW r \in Run, FreeOK(r) PROVE Crons!Reported(r)
  <1> USE DEF Sent, Crons!Asked
  <1>1. CASE outcome[r] \in {"none", "nil"} /\ alerts[r] = <<>>
    <2>1. Crons!Asked(r) = <<>>
      BY <1>1
    <2>2. QED BY <1>1, <2>1 DEF Crons!Reported
  <1>2. ASSUME NEW result \in {"sent", "error"}, outcome[r] = "error",
               alerts[r] = <<Sent("error", NoJob, result)>>
        PROVE  Crons!Reported(r)
    <2>1. Crons!Asked(r) = <<<<"error", NoJob>>>>
      BY <1>2
    <2>2. Len(alerts[r]) = 1 /\ alerts[r][1].result = result
      BY <1>2
    <2>3. QED BY <1>2, <2>1, <2>2 DEF Crons!Reported
  <1>3. ASSUME NEW result \in Crons!Results, outcome[r] = "error",
               alerts[r] = <<Sent("error", NoJob, "panic"), Sent("panic", job[r], result)>>
        PROVE  Crons!Reported(r)
    <2>1. Crons!Asked(r) = <<<<"error", NoJob>>, <<"panic", job[r]>>>>
      BY <1>3
    <2>2. Len(alerts[r]) = 2 /\ alerts[r][1].result = "panic"
      BY <1>3
    <2>3. QED BY <1>3, <2>1, <2>2 DEF Crons!Reported
  <1>4. ASSUME NEW result \in Crons!Results, outcome[r] = "panic",
               alerts[r] = <<Sent("panic", job[r], result)>>
        PROVE  Crons!Reported(r)
    <2>1. Crons!Asked(r) = <<<<"panic", job[r]>>>>
      BY <1>4
    <2>2. QED BY <1>4, <2>1 DEF Crons!Reported
  <1>5. QED BY <1>1, <1>2, <1>3, <1>4 DEF FreeOK, ErrorReported, PanicReported

-----------------------------------------------------------------------------
(* The group of goroutines.                                                *)

FirstIsFirst == first = IF failures = <<>> THEN <<>> ELSE failures[1]
ContextTells == /\ groupCtx = "live" => failures = <<>>
                /\ waiter # "returned" /\ failures = <<>> => groupCtx # "cancelled"
ReturnedIsLast ==
  waiter = "returned" => \A m \in Member : member[m] \in {"new", "returned"}

GroupInv == Group!TypeOK /\ FirstIsFirst /\ ContextTells /\ ReturnedIsLast

(* Nothing failed yet.                                                     *)
LEMMA GroupInitInv == ASSUME Group!Init PROVE GroupInv
  <1>1. Group!TypeOK
    <2>1. failures \in Seq(Group!Failure)
      BY DEF Group!Init
    <2>2. QED BY <2>1 DEF Group!Init, Group!TypeOK
  <1>2. FirstIsFirst /\ ContextTells /\ ReturnedIsLast
    BY DEF Group!Init, FirstIsFirst, ContextTells, ReturnedIsLast
  <1>3. QED BY <1>1, <1>2 DEF GroupInv

(* A failure is a pair, so it is not the empty error.                      *)
LEMMA FailureIsSome == ASSUME NEW failure \in Group!Failure PROVE failure # <<>>
  <1>1. failure = <<failure[1], failure[2]>>
    BY DEF Group!Failure
  <1>2. Len(<<failure[1], failure[2]>>) = 2 /\ Len(<< >>) = 0
    OBVIOUS
  <1>3. QED BY <1>1, <1>2

(* A failure is set as the group's error only if it is the first.          *)
LEMMA FailsIInv ==
  ASSUME Group!TypeOK, FirstIsFirst, NEW failure \in Group!Failure, Group!Fails(failure)
  PROVE  /\ FirstIsFirst' /\ failures' # <<>>
         /\ first' \in {<<>>} \cup Group!Failure /\ failures' \in Seq(Group!Failure)
         /\ groupCtx' \in {"none", "cancelled"}
  <1>1. failures \in Seq(Group!Failure) /\ first \in {<<>>} \cup Group!Failure
    BY DEF Group!TypeOK
  <1>2. /\ failures' = Append(failures, failure) /\ failures' \in Seq(Group!Failure)
        /\ first' = IF first = <<>> THEN failure ELSE first
    BY <1>1, AppendProperties DEF Group!Fails
  <1>3. failures' # <<>>
    BY <1>1, <1>2
  <1>4. CASE failures = <<>>
    <2>1. failures'[1] = failure
      BY <1>1, <1>2, <1>4, AppendProperties
    <2>2. first = <<>>
      BY <1>4 DEF FirstIsFirst
    <2>3. QED BY <1>1, <1>2, <1>3, <2>1, <2>2 DEF FirstIsFirst, Group!Fails, Group!Cancel
  <1>5. CASE failures # <<>>
    <2>1. failures'[1] = failures[1] /\ failures[1] \in Group!Failure
      BY <1>1, <1>2, <1>5, EmptySeq, AppendProperties
    <2>2. first = failures[1] /\ first # <<>>
      BY <1>5, <2>1, FailureIsSome DEF FirstIsFirst
    <2>3. QED BY <1>1, <1>2, <1>3, <2>1, <2>2 DEF FirstIsFirst, Group!Fails, Group!Cancel
  <1>6. QED BY <1>4, <1>5

(* The three parts and the type are kept by every step.                    *)
LEMMA GroupStepInv == ASSUME GroupInv, [Group!Next]_Group!vars PROVE GroupInv'
  <1> USE DEF GroupInv, ContextTells, ReturnedIsLast
  <1>1. CASE UNCHANGED Group!vars
    BY <1>1 DEF Group!vars, Group!TypeOK, FirstIsFirst
  <1>2. CASE Group!Wait
    BY <1>2 DEF Group!Wait, Group!TypeOK, FirstIsFirst
  <1>3. CASE Group!WaitReturns
    BY <1>3 DEF Group!WaitReturns, Group!Cancel, Group!TypeOK, FirstIsFirst
  <1>4. ASSUME NEW m \in Member, Group!Go(m) PROVE GroupInv'
    BY <1>4 DEF Group!Go, Group!TypeOK, FirstIsFirst
  <1>5. ASSUME NEW m \in Member, Group!FnReturns(m) PROVE GroupInv'
    <2>1. CASE UNCHANGED <<first, groupCtx, failures>>
      BY <1>5, <2>1 DEF Group!FnReturns, Group!TypeOK, FirstIsFirst
    <2>2. CASE Group!Fails(<<"error", m>>)
      <3>1. <<"error", m>> \in Group!Failure
        BY DEF Group!Failure
      <3>2. /\ FirstIsFirst' /\ failures' # <<>>
            /\ first' \in {<<>>} \cup Group!Failure /\ failures' \in Seq(Group!Failure)
            /\ groupCtx' \in {"none", "cancelled"}
        BY <2>2, <3>1, FailsIInv
      <3>3. QED BY <1>5, <3>2 DEF Group!FnReturns, Group!TypeOK
    <2>3. QED BY <1>5, <2>1, <2>2 DEF Group!FnReturns
  <1>6. ASSUME NEW m \in Member, Group!FnPanics(m) PROVE GroupInv'
    BY <1>6 DEF Group!FnPanics, Group!TypeOK, FirstIsFirst
  <1>7. ASSUME NEW m \in Member, Group!Recovers(m) PROVE GroupInv'
    <2>1. <<"panic", m>> \in Group!Failure
      BY DEF Group!Failure
    <2>2. /\ FirstIsFirst' /\ failures' # <<>>
          /\ first' \in {<<>>} \cup Group!Failure /\ failures' \in Seq(Group!Failure)
          /\ groupCtx' \in {"none", "cancelled"}
      BY <1>7, <2>1, FailsIInv DEF Group!Recovers
    <2>3. QED BY <1>7, <2>2 DEF Group!Recovers, Group!TypeOK
  <1>8. QED BY <1>1, <1>2, <1>3, <1>4, <1>5, <1>6, <1>7 DEF Group!Next

-----------------------------------------------------------------------------
(* All of them.                                                            *)

(* Each part's invariant where it is the one that runs; elsewhere no HTTP  *)
(* request is in flight.                                                   *)
DaemonsInv == /\ part \in {"http", "container", "cron", "group"}
              /\ IF part = "http" THEN HttpInv ELSE HttpRests
              /\ part = "container" => ContainerInv
              /\ part = "cron" => CronInv
              /\ part = "group" => GroupInv

(* The part that runs begins as its own specification says and does what   *)
(* that says.                                                              *)
THEOREM DaemonsInvariance == DaemonsSpec => []DaemonsInv
  <1>1. DaemonsInit => DaemonsInv
    BY HttpInitInv, ContainerInitInv, CronInitInv, GroupInitInv DEF DaemonsInit, DaemonsInv
  <1>2. DaemonsInv /\ [DaemonsNext]_allVars => DaemonsInv'
    <2> SUFFICES ASSUME DaemonsInv, [DaemonsNext]_allVars PROVE DaemonsInv'
      OBVIOUS
    <2>1. part' = part
      BY DEF DaemonsNext, allVars
    <2>a. part # "http" => UNCHANGED serverVars
      BY DEF DaemonsNext, allVars
    <2>b. part # "http" /\ HttpRests => HttpRests'
      BY <2>a DEF serverVars, HttpRests
    <2>2. CASE part = "http"
      <3>1. [Next]_vars
        BY <2>2 DEF DaemonsNext, allVars, vars
      <3>2. QED BY <2>1, <2>2, <3>1, HttpStepInv DEF DaemonsInv
    <2>3. CASE part = "container"
      <3>1. [Container!ContainerNext]_Container!containerVars
        BY <2>3 DEF DaemonsNext, allVars, fcgiVars, daemonVars, Container!containerVars,
                    Container!vars, Container!daemonVars, Container!serverVars,
                    Container!wrapperVars
      <3>2. QED BY <2>1, <2>b, <2>3, <3>1, ContainerStepInv DEF DaemonsInv
    <2>4. CASE part = "cron"
      <3>1. [Crons!Next]_Crons!vars
        BY <2>4 DEF DaemonsNext, allVars, cronVars, daemonVars, Crons!vars, Crons!runVars
      <3>2. QED
        BY <2>1, <2>b, <2>4, <3>1, CronStepTypeOK, StepRunsOK, StepContained DEF DaemonsInv, CronInv
    <2>5. CASE part = "group"
      <3>1. [Group!Next]_Group!vars
        BY <2>5 DEF DaemonsNext, allVars, groupVars, Group!vars
      <3>2. QED BY <2>1, <2>b, <2>5, <3>1, GroupStepInv DEF DaemonsInv
    <2>6. QED BY <2>2, <2>3, <2>4, <2>5 DEF DaemonsInv
  <1>3. QED BY <1>1, <1>2, PTL DEF DaemonsSpec

(* The state of the part that runs keeps its type.                         *)
THEOREM Typing == DaemonsSpec => []DaemonsTypeOK
  <1>1. DaemonsInv => DaemonsTypeOK
    BY DEF DaemonsInv, HttpInv, ContainerInv, CronInv, GroupInv, DaemonsTypeOK
  <1>2. QED BY <1>1, DaemonsInvariance, PTL

(* server.go: the process exits with requests in flight only after the     *)
(* deadline, and Wait never panics.                                        *)
THEOREM EndsWell == DaemonsSpec => []HttpExitIsGraceful
  <1>1. DaemonsInv => HttpExitIsGraceful
    BY HttpEndsWell DEF DaemonsInv, HttpRests, Rests, HttpExitIsGraceful, ExitIsGraceful,
                        NoPanicInWait
  <1>2. QED BY <1>1, DaemonsInvariance, PTL

(* fcgi.go and main.go: an exit that looks clean was asked for, its socket *)
(* is closed, and the wrapper tells it on, whatever signals come.          *)
THEOREM TellsTheEnd == DaemonsSpec => []ContainerTellsTheEnd
  <1>1. DaemonsInv => ContainerTellsTheEnd
    BY ContainerInvTells DEF DaemonsInv, ContainerTellsTheEnd
  <1>2. QED BY <1>1, DaemonsInvariance, PTL

(* cron.go: every run that failed asked for the alert of its failure, no   *)
(* other run did, and only an alerter that panics at the report of a panic *)
(* ends the process.                                                       *)
THEOREM ReportsFailures == DaemonsSpec => []FailureIsReported
  <1>1. CronInv => Crons!FailureIsReported /\ Crons!PanicIsContained
    BY FreeIsReported DEF CronInv, RunsOK, RunOK, Crons!FailureIsReported
  <1>2. DaemonsInv => FailureIsReported
    BY <1>1 DEF DaemonsInv, FailureIsReported
  <1>3. QED BY <1>2, DaemonsInvariance, PTL

(* errors.go: Wait returns the failure that came first, a panic like an    *)
(* error, and when no member runs; the context is cancelled by it and not  *)
(* before.                                                                 *)
THEOREM WaitTells == DaemonsSpec => []WaitTellsTheFirst
  <1>1. GroupInv => Group!WaitTellsTheFirst
    BY DEF GroupInv, FirstIsFirst, ContextTells, ReturnedIsLast, Group!WaitTellsTheFirst
  <1>2. DaemonsInv => WaitTellsTheFirst
    BY <1>1 DEF DaemonsInv, WaitTellsTheFirst
  <1>3. QED BY <1>2, DaemonsInvariance, PTL
=============================================================================
