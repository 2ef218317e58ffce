----------------------------- MODULE FcgiServer -----------------------------
(***************************************************************************)
(* wwhttp/fcgi.go under wwhttp/daemon.go: FcgiServer.Start serves a unix   *)
(* socket in one goroutine of an errgroup; another one closes the socket   *)
(* when the context is done, or when serving failed, and sets a flag only  *)
(* in the first case.                                                      *)
(*                                                                         *)
(* gosCtx is a child of ctx: cancelling ctx closes both Done channels,     *)
(* ctx's first.  A goroutine that is parked in the select wakes by the one *)
(* that closed first; one that comes later finds both and takes either.    *)
(***************************************************************************)
EXTENDS Daemon

VARIABLES serve,     \* fcgi.Serve: "unstarted" (Start is at MkdirAll or Listen),
                     \* "serving", or "returned"
          open,      \* the listener is open
          closer,    \* the other goroutine: "starting", "parked", "woken", "returned"
          closed,    \* the flag
          group      \* the error of fcgi.Serve, the only one in the group

serverVars == <<serve, open, closer, closed, group>>
vars == <<daemonVars, serverVars>>

TypeOK == /\ DaemonTypeOK
          /\ serve \in {"unstarted", "serving", "returned"}
          /\ open \in BOOLEAN
          /\ closer \in {"starting", "parked", "woken", "returned"}
          /\ closed \in BOOLEAN
          /\ group \in {"none"} \cup Errors

ServerInit == /\ DaemonInit
              /\ serve = "unstarted" /\ open = FALSE /\ closer = "starting"
              /\ closed = FALSE /\ group = "none"
Init == ServerInit /\ process = "running"

GosCtxDone == SrvCtxDone \/ group # "none"

-----------------------------------------------------------------------------
(* An early return of Start.                                               *)
ListenFails == /\ Alive /\ serve = "unstarted" /\ start = "running"
               /\ start' = "listen"
               /\ UNCHANGED <<ch, ctx, watcher, process, serverVars>>

Listen == /\ Alive /\ serve = "unstarted" /\ start = "running"
          /\ serve' = "serving" /\ open' = TRUE
          /\ UNCHANGED <<daemonVars, closer, closed, group>>

(* Accept fails, with the listener open.                                   *)
AcceptFails == /\ Alive /\ serve = "serving" /\ open
               /\ serve' = "returned" /\ group' = "accept"
               /\ UNCHANGED <<daemonVars, open, closer, closed>>

ServeReturns == /\ Alive /\ serve = "serving" /\ ~open
                /\ serve' = "returned" /\ group' = "closed"
                /\ UNCHANGED <<daemonVars, open, closer, closed>>

(* The goroutine finds nothing done and parks.                             *)
Park == /\ Alive /\ serve # "unstarted" /\ closer = "starting"
        /\ ~SrvCtxDone /\ ~GosCtxDone
        /\ closer' = "parked"
        /\ UNCHANGED <<daemonVars, serve, open, closed, group>>

(* The group's error cancels gosCtx only.                                  *)
WakesBy(flag) ==
  /\ Alive /\ serve # "unstarted"
  /\ closer' = "woken" /\ closed' = flag
  /\ UNCHANGED <<daemonVars, serve, open, group>>

SelectsCtx == closer \in {"starting", "parked"} /\ SrvCtxDone /\ WakesBy(TRUE)
SelectsGosCtx == /\ \/ closer = "starting" /\ GosCtxDone
                    \/ closer = "parked" /\ group # "none"
                 /\ WakesBy(FALSE)

CloseListener == /\ Alive /\ closer = "woken"
                 /\ open' = FALSE /\ closer' = "returned"
                 /\ UNCHANGED <<daemonVars, serve, closed, group>>

Suppresses == closed /\ group = "closed"

StartReturns == /\ Alive /\ start = "running" /\ serve = "returned" /\ closer = "returned"
                /\ start' = IF Suppresses THEN "ErrServerClosed" ELSE group
                /\ UNCHANGED <<ch, ctx, watcher, process, serverVars>>

Closer == Park \/ SelectsCtx \/ SelectsGosCtx \/ CloseListener
Daemon == (Watcher \/ Outside \/ Wait) /\ UNCHANGED serverVars

Next == Daemon \/ ListenFails \/ Listen \/ AcceptFails \/ ServeReturns \/ Closer \/ StartReturns

Spec == Init /\ [][Next]_vars

(* The goroutines of the program run; nothing has to fail or be signalled. *)
Fairness == /\ WF_vars(Watcher /\ UNCHANGED serverVars)
            /\ WF_vars(Wait /\ UNCHANGED serverVars)
            /\ WF_vars(ListenFails \/ Listen) /\ WF_vars(ServeReturns)
            /\ WF_vars(Closer) /\ WF_vars(StartReturns)

-----------------------------------------------------------------------------
(* The process exits cleanly only when it was told to stop, with its       *)
(* socket closed, and not after an accept that failed, even if the context *)
(* was done before the other goroutine got to look.                        *)
ExitIsAsked == process = "exit130" => ctx = "cancelled" /\ ~open /\ group # "accept"

(* fcgi.go:79: the error of a close that we initiated is suppressed.  The  *)
(* select may take the group's context although ours is done.              *)
OurCloseIsSuppressed == ctx = "cancelled" /\ group = "closed" => start # "closed"
=============================================================================
