------------------------------ MODULE Daemons -------------------------------
(***************************************************************************)
(* What runs as long as its process: the HTTP daemon, the FastCGI daemon   *)
(* in its container, the cron jobs and a group of goroutines.  A behaviour *)
(* is of one of them, and the variables of the others rest.                *)
(***************************************************************************)
EXTENDS HttpServer, Sequences

CONSTANTS Job, Run, NoJob, Member

VARIABLES part,                                       \* which one runs
          serve, open, socketCloser, closed, served,  \* FcgiServer
          wrapper, sigChan, waitCh, code,             \* Entrypoint
          schedule, job, at, outcome, alerts,         \* Cron
          member, first, groupCtx, waiter, failures   \* PanicGroup

fcgiVars == <<serve, open, socketCloser, closed, served, wrapper, sigChan, waitCh, code>>
cronVars == <<schedule, job, at, outcome, alerts>>
groupVars == <<member, first, groupCtx, waiter, failures>>
allVars == <<part, daemonVars, serverVars, fcgiVars, cronVars, groupVars>>

Container == INSTANCE Entrypoint WITH closer <- socketCloser, group <- served
Crons == INSTANCE Cron
Group == INSTANCE PanicGroup

(* Values that enable no action of their component.                        *)
Rests == "rests"
DaemonRests == ch = FALSE /\ watcher = Rests /\ start = Rests
HttpRests == /\ listener = [s \in Server |-> Rests] /\ requests = [s \in Server |-> 0]
             /\ closing = 0 /\ closer = Rests /\ deadline = Rests /\ group = Rests
FcgiRests == /\ serve = Rests /\ open = FALSE /\ socketCloser = Rests /\ closed = FALSE
             /\ served = Rests /\ wrapper = Rests /\ sigChan = "empty" /\ waitCh = "empty"
             /\ code = 0
CronRests == /\ schedule = Rests /\ job = Rests /\ at = [r \in Run |-> Rests]
             /\ outcome = Rests /\ alerts = Rests
GroupRests == /\ member = Rests /\ first = Rests /\ groupCtx = Rests
              /\ waiter = Rests /\ failures = Rests

DaemonsInit ==
  \/ part = "http" /\ Init /\ FcgiRests /\ CronRests /\ GroupRests
  \/ part = "container" /\ Container!ContainerInit /\ HttpRests /\ CronRests /\ GroupRests
  \/ part = "cron" /\ Crons!Init /\ DaemonRests /\ HttpRests /\ FcgiRests /\ GroupRests
  \/ /\ part = "group" /\ Group!Init /\ ctx = "live" /\ process = "running"
     /\ DaemonRests /\ HttpRests /\ FcgiRests /\ CronRests

DaemonsNext ==
  /\ UNCHANGED part
  /\ \/ part = "http" /\ Next /\ UNCHANGED <<fcgiVars, cronVars, groupVars>>
     \/ /\ part = "container" /\ Container!ContainerNext
        /\ UNCHANGED <<serverVars, cronVars, groupVars>>
     \/ /\ part = "cron" /\ Crons!Next
        /\ UNCHANGED <<ch, watcher, start, serverVars, fcgiVars, groupVars>>
     \/ /\ part = "group" /\ Group!Next
        /\ UNCHANGED <<daemonVars, serverVars, fcgiVars, cronVars>>

DaemonsSpec == /\ DaemonsInit /\ [][DaemonsNext]_allVars
          /\ Fairness /\ Container!ContainerFairness /\ Crons!Fairness

(* The type invariant of the four.                                         *)
DaemonsTypeOK == CASE part = "http" -> TypeOK
                   [] part = "container" -> Container!ContainerTypeOK
                   [] part = "cron" -> Crons!TypeOK
                   [] part = "group" -> Group!TypeOK

(* fcgi.go and main.go: an exit that looks clean was asked for, and the    *)
(* wrapper tells it on.                                                    *)
ContainerTellsTheEnd ==
  part = "container" => Container!ExitIsAsked /\ Container!WrapperTellsTheEnd

(* An interrupt, a cancelled context or a failing server ends the daemon   *)
(* (daemon.go:30-31), whatever requests its handlers are at; and a stop    *)
(* that the wrapper took (main.go:69) ends both it and its child.          *)
Stopping == part \in {"http", "container"}
            /\ (ch \/ ctx = "cancelled" \/ group \in Errors \/ served \in Errors)
StopEnds == /\ Stopping ~> ~Alive
            /\ sigChan = "stop" ~> wrapper = "exited"

(* cron.go: every run that failed was reported, and its panic did not end  *)
(* the process.                                                            *)
FailureIsReported == part = "cron" => Crons!FailureIsReported /\ Crons!PanicIsContained

(* cron.go: once the context is done the jobs come to rest and stay so,    *)
(* although nobody waits for them and the schedule may start some before   *)
(* it stops.                                                               *)
QuietAtLast ==
  <>[](part = "cron" /\ Alive /\ ctx = "cancelled" => \A r \in Run : at[r] = "free")

(* errors.go: Wait returns the failure that came first.                    *)
WaitTellsTheFirst == part = "group" => Group!WaitTellsTheFirst
=============================================================================
