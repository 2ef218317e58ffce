------------------------------- MODULE Daemon -------------------------------
(***************************************************************************)
(* wwhttp/daemon.go: RunDaemon runs a server's Start next to a goroutine   *)
(* that cancels it on a signal, both in one errgroup, and the main         *)
(* goroutine waits for the group and ends the process.  HttpServer and     *)
(* FcgiServer add their Start to these actions.                            *)
(***************************************************************************)
VARIABLES ch,        \* a signal is in the channel's buffer of one
          ctx,       \* "live" or "cancelled": the context RunDaemon derives
          watcher,   \* the signal goroutine: "selecting" or "returned"
          start,     \* what Start returned, or "running"
          process    \* "running", "exit130", "panicked" (in Wait) or "crashed";
                     \* in a container also "unborn", "booting" and "killed"

daemonVars == <<ch, ctx, watcher, start, process>>

Errors == {"ErrServerClosed", "shutdown", "listen", "accept", "closed"}
DaemonTypeOK == /\ ch \in BOOLEAN
                /\ ctx \in {"live", "cancelled"}
                /\ watcher \in {"selecting", "returned"}
                /\ start \in {"running"} \cup Errors
                /\ process \in {"unborn", "booting", "running",
                                "exit130", "panicked", "crashed", "killed"}

DaemonInit == /\ ch = FALSE /\ ctx = "live" /\ watcher = "selecting"
              /\ start = "running"

Alive == process = "running"

(* The errgroup's context: done when its parent is, or when Start fails.   *)
SrvCtxDone == ctx = "cancelled" \/ start # "running"

(* A signal that finds the buffer full, or comes later, is lost.           *)
Interrupt == /\ Alive /\ ~ch
             /\ ch' = TRUE
             /\ UNCHANGED <<ctx, watcher, start, process>>

(* The context that RunDaemon was given is cancelled.                      *)
ParentCancels == /\ Alive /\ ctx = "live"
                 /\ ctx' = "cancelled"
                 /\ UNCHANGED <<ch, watcher, start, process>>

WatcherTakesSignal == /\ Alive /\ watcher = "selecting" /\ ch
                      /\ ch' = FALSE /\ ctx' = "cancelled"
                      /\ watcher' = "returned"
                      /\ UNCHANGED <<start, process>>

WatcherIsDone == /\ Alive /\ watcher = "selecting" /\ SrvCtxDone
                 /\ watcher' = "returned"
                 /\ UNCHANGED <<ch, ctx, start, process>>

(* The watcher returns nil, so the group's error is Start's.               *)
Wait == /\ Alive /\ watcher = "returned" /\ start # "running"
        /\ process' = IF start = "ErrServerClosed" THEN "exit130" ELSE "panicked"
        /\ UNCHANGED <<ch, ctx, watcher, start>>

Watcher == WatcherTakesSignal \/ WatcherIsDone
Outside == Interrupt \/ ParentCancels
=============================================================================
