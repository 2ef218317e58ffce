----------------------------- MODULE HttpServer -----------------------------
(***************************************************************************)
(* wwhttp/server.go under wwhttp/daemon.go: Server.Start runs an HTTP and, *)
(* with a certificate, an HTTPS server, each in a goroutine of an          *)
(* errgroup, and a third goroutine that shuts them down in turn when the   *)
(* context is done, within one deadline of 60 seconds.                     *)
(*                                                                         *)
(* net/http is modelled by its contract: Shutdown makes Serve return       *)
(* ErrServerClosed at once and then waits for the requests in flight.      *)
(***************************************************************************)
EXTENDS Daemon, Naturals

CONSTANTS Count,         \* number of servers: 1 (HTTP) or 2 (HTTP, HTTPS)
          Slow,          \* the servers whose handlers may run for a minute
          MaxRequests    \* bound: requests in flight at one server

Server == 1..Count

ASSUME HttpServerAssumption == /\ Count \in Nat \ {0}
                               /\ Slow \subseteq 1..Count
                               /\ MaxRequests \in Nat

VARIABLES listener,      \* listener[s]: "starting", "serving" or "returned"
          requests,      \* requests[s]: how many are in flight
          closing,       \* the servers whose Shutdown was called
          closer,        \* the shutdown goroutine: "waiting", "closing", "returned"
          deadline,      \* of shutdownCtx: "unset", "set" or "expired"
          group          \* the first error a goroutine of Start returned

serverVars == <<listener, requests, closing, closer, deadline, group>>
vars == <<daemonVars, serverVars>>

TypeOK == /\ DaemonTypeOK
          /\ listener \in [Server -> {"starting", "serving", "returned"}]
          /\ requests \in [Server -> 0..MaxRequests]
          /\ closing \in 0..Count
          /\ closer \in {"waiting", "closing", "returned"}
          /\ deadline \in {"unset", "set", "expired"}
          /\ group \in {"none"} \cup Errors

Init == /\ DaemonInit /\ process = "running"
        /\ listener = [s \in Server |-> "starting"]
        /\ requests = [s \in Server |-> 0]
        /\ closing = 0      \* the servers 1..closing
        /\ closer = "waiting" /\ deadline = "unset" /\ group = "none"

(* Mutant: the last error wins.                                            *)
LastError(err) == group' = err

FirstError(err) == group' = IF group = "none" THEN err ELSE group

-----------------------------------------------------------------------------
Listen(s) == /\ Alive /\ listener[s] = "starting" /\ s > closing
             /\ listener' = [listener EXCEPT ![s] = "serving"]
             /\ UNCHANGED <<daemonVars, requests, closing, closer, deadline, group>>

(* Binding or accepting fails: panicIfErrExceptServerClosed panics in the  *)
(* goroutine, and nothing recovers.                                        *)
ListenPanics(s) == /\ Alive /\ listener[s] # "returned" /\ s > closing
                   /\ process' = "crashed"
                   /\ UNCHANGED <<ch, ctx, watcher, start, serverVars>>

ServerClosed(s) == /\ Alive /\ listener[s] # "returned" /\ s <= closing
                   /\ listener' = [listener EXCEPT ![s] = "returned"]
                   /\ FirstError("ErrServerClosed")
                   /\ UNCHANGED <<daemonVars, requests, closing, closer, deadline>>

Accept(s) == /\ Alive /\ listener[s] = "serving" /\ s > closing /\ requests[s] < MaxRequests
             /\ requests' = [requests EXCEPT ![s] = @ + 1]
             /\ UNCHANGED <<daemonVars, listener, closing, closer, deadline, group>>

Finish(s) == /\ Alive /\ requests[s] > 0
             /\ requests' = [requests EXCEPT ![s] = @ - 1]
             /\ UNCHANGED <<daemonVars, listener, closing, closer, deadline, group>>

StartShutdown == /\ Alive /\ closer = "waiting" /\ SrvCtxDone
                 /\ closer' = "closing" /\ closing' = 1 /\ deadline' = "set"
                 /\ UNCHANGED <<daemonVars, listener, requests, group>>

(* Mutant: the loop runs over the end of the list.                         *)
ShutdownOverruns == /\ Alive /\ closer = "closing" /\ requests[closing] = 0
                    /\ closing' = closing + 1
                    /\ closer' = IF closing < Count THEN closer ELSE "returned"
                    /\ UNCHANGED <<daemonVars, listener, requests, deadline, group>>

(* The server that is shut down has no request left: on to the next.       *)
ShutdownDrained == /\ Alive /\ closer = "closing" /\ requests[closing] = 0
                   /\ IF closing < Count THEN closing' = closing + 1 /\ UNCHANGED closer
                      ELSE closer' = "returned" /\ UNCHANGED closing
                   /\ UNCHANGED <<daemonVars, listener, requests, deadline, group>>

(* After 60 seconds Serve has long returned, and a server that is not slow *)
(* has finished what it accepted before (its read and write timeouts are   *)
(* 15 seconds).                                                            *)
DeadlineExpires == /\ Alive /\ closer = "closing" /\ deadline = "set"
                   /\ closing \in Slow
                   /\ \A s \in 1..closing : listener[s] = "returned"
                   /\ deadline' = "expired"
                   /\ UNCHANGED <<daemonVars, listener, requests, closing, closer, group>>

(* Shutdown returns the context's error: the servers after it stay open.   *)
ShutdownFails == /\ Alive /\ closer = "closing" /\ deadline = "expired"
                 /\ requests[closing] > 0
                 /\ closer' = "returned"
                 /\ FirstError("shutdown")
                 /\ UNCHANGED <<daemonVars, listener, requests, closing, deadline>>

StartIsOver == closer = "returned" /\ \A s \in Server : listener[s] = "returned"

StartReturns == /\ Alive /\ start = "running" /\ StartIsOver
                /\ start' = group
                /\ UNCHANGED <<ch, ctx, watcher, process, serverVars>>

Shutdown == StartShutdown \/ ShutdownDrained \/ ShutdownFails
Daemon == (Watcher \/ Outside \/ Wait) /\ UNCHANGED serverVars

Next == \/ Daemon \/ Shutdown \/ DeadlineExpires \/ StartReturns
        \/ \E s \in Server : \/ Listen(s) \/ ListenPanics(s) \/ ServerClosed(s)
                             \/ Accept(s) \/ Finish(s)

Spec == Init /\ [][Next]_vars

(* The goroutines of the program run and time passes; a request need never *)
(* end unless its server's timeouts end it, nothing has to arrive or fail, *)
(* and nobody has to send a signal.                                        *)
Fairness == /\ WF_vars(Watcher /\ UNCHANGED serverVars)
            /\ WF_vars(Wait /\ UNCHANGED serverVars)
            /\ WF_vars(Shutdown) /\ WF_vars(DeadlineExpires) /\ WF_vars(StartReturns)
            /\ \A s \in Server : WF_vars(ServerClosed(s))
            /\ \A s \in Server \ Slow : WF_vars(Finish(s))

-----------------------------------------------------------------------------
(* The process exits with requests in flight only after the 60 seconds.    *)
ExitIsGraceful ==
  process = "exit130" => deadline = "expired" \/ \A s \in Server : requests[s] = 0

(* A stop that was asked for ends in exit 130 or in a listener's panic,    *)
(* never in a panic of Wait, which comes after the shutdowns: not even     *)
(* when requests outlast the deadline.                                     *)
NoPanicInWait == closer = "returned" => process # "panicked"

(* How the process of server.go ends.                                      *)
HttpExitIsGraceful == ExitIsGraceful /\ NoPanicInWait
=============================================================================
