-------------------------------- MODULE Cron --------------------------------
(***************************************************************************)
(* cron.go: jobs that robfig/cron starts on schedule, each run in a        *)
(* goroutine of its own, with their failures and panics sent to an alerter *)
(* and the schedule stopped when the context is done.                      *)
(*                                                                         *)
(* The library is modelled by its contract: it starts a due job whether or *)
(* not an earlier run of it has ended, Stop keeps it from starting more    *)
(* and waits for none, and it does not recover panics.                     *)
(***************************************************************************)
EXTENDS Sequences

CONSTANTS Job,     \* the entries of the table: a schedule and its function
          Run,     \* bound: the runs that may exist at a time
          NoJob    \* none of them

VARIABLES ctx,       \* "live" or "cancelled"
          schedule,  \* "running" or "stopped"
          job,       \* job[r]: whose schedule started the run
          at,        \* at[r]: where the run is
          outcome,   \* outcome[r]: what the job's function did
          alerts,    \* alerts[r]: the alerts that the run asked for
          process    \* "running" or "crashed"

runVars == <<job, at, outcome, alerts>>
vars == <<ctx, schedule, runVars, process>>

Results == {"sent", "error", "panic"}
Alert == [about : {"error", "panic"}, names : Job \cup {NoJob}, result : Results]

TypeOK == /\ ctx \in {"live", "cancelled"}
          /\ schedule \in {"running", "stopped"}
          /\ job \in [Run -> Job \cup {NoJob}]
          /\ at \in [Run -> {"free", "fn", "failed", "recovering"}]
          /\ outcome \in [Run -> {"none", "nil", "error", "panic"}]
          /\ alerts \in [Run -> Seq(Alert)]
          /\ process \in {"running", "crashed"}

Init == /\ ctx = "live" /\ schedule = "running"
        /\ job = [r \in Run |-> NoJob]
        /\ at = [r \in Run |-> "free"]
        /\ outcome = [r \in Run |-> "none"]
        /\ alerts = [r \in Run |-> <<>>]
        /\ process = "running"

Alive == process = "running"

-----------------------------------------------------------------------------
ParentCancels == /\ Alive /\ ctx = "live"
                 /\ ctx' = "cancelled"
                 /\ UNCHANGED <<schedule, runVars, process>>

(* Mutant: nobody stops the schedule.                                      *)
NeverStops == FALSE

(* The goroutine that waits for the context.                               *)
StopSchedule == /\ Alive /\ ctx = "cancelled" /\ schedule = "running"
                /\ schedule' = "stopped"
                /\ UNCHANGED <<ctx, runVars, process>>

Start(r, j) == /\ Alive /\ schedule = "running" /\ at[r] = "free"
               /\ job' = [job EXCEPT ![r] = j]
               /\ at' = [at EXCEPT ![r] = "fn"]
               /\ outcome' = [outcome EXCEPT ![r] = "none"]
               /\ alerts' = [alerts EXCEPT ![r] = <<>>]
               /\ UNCHANGED <<ctx, schedule, process>>

FnEnds(r, how) == /\ Alive /\ at[r] = "fn"
                  /\ outcome' = [outcome EXCEPT ![r] = how]
                  /\ at' = [at EXCEPT ![r] = CASE how = "nil" -> "free"
                                               [] how = "error" -> "failed"
                                               [] how = "panic" -> "recovering"]
                  /\ UNCHANGED <<ctx, schedule, job, alerts, process>>

SendAlert(r, about, names, result) ==
  alerts' = [alerts EXCEPT ![r] =
               Append(@, [about |-> about, names |-> names, result |-> result])]

(* The alert of an error does not name the job.  An alerter that panics    *)
(* does so under the deferred function, which reports it like the job's.   *)
ReportError(r, result) ==
  /\ Alive /\ at[r] = "failed"
  /\ SendAlert(r, "error", NoJob, result)
  /\ at' = [at EXCEPT ![r] = IF result = "panic" THEN "recovering" ELSE "free"]
  /\ UNCHANGED <<ctx, schedule, job, outcome, process>>

(* Mutant: a panic is logged and not reported.                             *)
PanicIsLogged(r, result) ==
  /\ Alive /\ at[r] = "recovering"
  /\ at' = [at EXCEPT ![r] = "free"]
  /\ UNCHANGED <<ctx, schedule, job, outcome, alerts, process>>

(* In the deferred function itself nothing recovers.                       *)
ReportPanic(r, result) ==
  /\ Alive /\ at[r] = "recovering"
  /\ SendAlert(r, "panic", job[r], result)
  /\ at' = [at EXCEPT ![r] = "free"]
  /\ process' = IF result = "panic" THEN "crashed" ELSE process
  /\ UNCHANGED <<ctx, schedule, job, outcome>>

Report(r) == \E result \in Results : ReportError(r, result) \/ ReportPanic(r, result)
FnReturns(r) == \E how \in {"nil", "error", "panic"} : FnEnds(r, how)

Next == \/ ParentCancels \/ StopSchedule
        \/ \E r \in Run : (\E j \in Job : Start(r, j)) \/ FnReturns(r) \/ Report(r)

Spec == Init /\ [][Next]_vars

(* The goroutines run and the alerter returns.  A job's function may run   *)
(* as long as it likes, but is taken to heed the context it is given.      *)
Fairness == /\ WF_vars(StopSchedule)
            /\ \A r \in Run : /\ WF_vars(Report(r))
                              /\ WF_vars(ctx = "cancelled" /\ FnReturns(r))

-----------------------------------------------------------------------------
(* Each run that failed was reported: an error, and after it the panic of  *)
(* the alerter if it had one, or a panic, with the job's name.  No other   *)
(* run was.                                                                *)
Asked(r) == [n \in DOMAIN alerts[r] |-> <<alerts[r][n].about, alerts[r][n].names>>]
Reported(r) ==
  LET error == <<"error", NoJob>>
      panic == <<"panic", job[r]>>
  IN  /\ outcome[r] \in {"none", "nil"} => Asked(r) = <<>>
      /\ outcome[r] = "error" =>
           /\ Asked(r) \in {<<error>>, <<error, panic>>}
           /\ Len(alerts[r]) = 2 <=> alerts[r][1].result = "panic"
      /\ outcome[r] = "panic" => Asked(r) = <<panic>>

FailureIsReported == \A r \in Run : at[r] = "free" => Reported(r)

(* A panic of a job does not end the process: only an alerter that panics  *)
(* at the report of a panic does.                                          *)
PanicIsContained ==
  process = "crashed" <=>
    \E r \in Run : \E n \in DOMAIN alerts[r] :
        alerts[r][n].about = "panic" /\ alerts[r][n].result = "panic"
=============================================================================
