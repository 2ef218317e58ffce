----------------------------- MODULE Entrypoint -----------------------------
(***************************************************************************)
(* tools/whaleblazer-fcgi-entrypoint/main.go around a FastCGI daemon: the  *)
(* container's first process prepares the socket's directory, starts the   *)
(* program, hands every signal on to it and exits with its status.  The    *)
(* program is FcgiServer; its variables are the child's, whose process is  *)
(* "unborn" and "booting" before RunDaemon, and "killed" by a signal.      *)
(*                                                                         *)
(* Signals are "stop" (interrupt, SIGTERM), "hangup", which ends a Go      *)
(* program that does not ask for it, and "noise" (SIGCHLD, SIGURG,         *)
(* SIGWINCH), which a program that does not ask for it never sees.         *)
(***************************************************************************)
EXTENDS FcgiServer, Integers

VARIABLES wrapper,   \* "setup", "started" (before Notify), "proxying", "exited", "killed"
          sigChan,   \* the signal in the channel's buffer of one, or "empty"
          waitCh,    \* the child's wait status, or "empty"
          code       \* of the wrapper's exit, 0 before

wrapperVars == <<wrapper, sigChan, waitCh, code>>
containerVars == <<vars, wrapperVars>>

Signals == {"stop", "hangup", "noise"}
ContainerTypeOK == /\ TypeOK
                   /\ wrapper \in {"setup", "started", "proxying", "exited", "killed"}
                   /\ sigChan \in Signals \cup {"empty"}
                   /\ waitCh \in {"empty", "exit130", "panicked", "crashed", "killed"}
                   /\ code \in {0, 1, 2, 130, 255}

ContainerInit == /\ ServerInit /\ process = "unborn"
                 /\ wrapper = "setup"
                 /\ sigChan = "empty" /\ waitCh = "empty" /\ code = 0

Running == wrapper \in {"setup", "started", "proxying"}
ChildOver == process \in {"exit130", "panicked", "crashed", "killed"}

(* An argument, the directory or the command itself is at fault.           *)
SetupFails == /\ wrapper = "setup"
              /\ wrapper' = "exited" /\ code' = 1
              /\ UNCHANGED <<vars, sigChan, waitCh>>

StartCommand == /\ wrapper = "setup"
                /\ wrapper' = "started" /\ process' = "booting"
                /\ UNCHANGED <<ch, ctx, watcher, start, serverVars, sigChan, waitCh, code>>

Notify == /\ wrapper = "started"
          /\ wrapper' = "proxying"
          /\ UNCHANGED <<vars, sigChan, waitCh, code>>

(* Before Notify a signal takes its default action; after it, one that     *)
(* finds the buffer full is lost.                                          *)
SignalArrives(sig) ==
  \/ /\ wrapper \in {"setup", "started"} /\ sig # "noise"
     /\ wrapper' = "killed"
     /\ UNCHANGED <<vars, sigChan, waitCh, code>>
  \/ /\ wrapper = "proxying" /\ sigChan = "empty"
     /\ sigChan' = sig
     /\ UNCHANGED <<vars, wrapper, waitCh, code>>

(* What a signal does to the child: one that is over gets none, and the    *)
(* daemon has one place for a stop.                                        *)
Kills(sig) == ~ChildOver /\ (sig = "hangup" \/ (sig = "stop" /\ process = "booting"))
Stops(sig) == Alive /\ sig = "stop"
Deliver(sig) == /\ process' = IF Kills(sig) THEN "killed" ELSE process
                /\ ch' = (Stops(sig) \/ ch)
                /\ UNCHANGED <<ctx, watcher, start, serverVars>>

(* Mutant: signals are read and not handed on.                             *)
ProxySwallows == /\ wrapper = "proxying" /\ sigChan # "empty"
                 /\ sigChan' = "empty"
                 /\ UNCHANGED <<vars, wrapper, waitCh, code>>

ProxySignal == /\ wrapper = "proxying" /\ sigChan # "empty"
               /\ Deliver(sigChan)
               /\ sigChan' = "empty"
               /\ UNCHANGED <<wrapper, waitCh, code>>

(* The goroutine that waits for the command.                               *)
CommandEnds == /\ Running /\ ChildOver /\ waitCh = "empty"
               /\ waitCh' = process
               /\ UNCHANGED <<vars, wrapper, sigChan, code>>

(* Mutant: a command that fails is reported as 1.                          *)
AlwaysOne(status) == 1

(* A panic of a Go program exits with 2; of a process that a signal ended  *)
(* ExitStatus is -1, of which the parent sees eight bits.                  *)
ExitStatus(status) == CASE status = "exit130" -> 130
                        [] status \in {"panicked", "crashed"} -> 2
                        [] status = "killed" -> (-1) % 256

Exit == /\ wrapper = "proxying" /\ waitCh # "empty"
        /\ wrapper' = "exited" /\ code' = ExitStatus(waitCh)
        /\ UNCHANGED <<vars, sigChan, waitCh>>

-----------------------------------------------------------------------------
(* The child: its start-up, which panics without the socket's path, and    *)
(* the daemon without a signal source of its own.                          *)
ChildBoots == /\ process = "booting"
              /\ process' \in {"running", "panicked"}
              /\ UNCHANGED <<ch, ctx, watcher, start, serverVars, wrapperVars>>

ChildRuns == /\ \/ (Watcher \/ Wait \/ ParentCancels) /\ UNCHANGED serverVars
                \/ ListenFails \/ Listen \/ AcceptFails \/ ServeReturns
                \/ Closer \/ StartReturns
             /\ UNCHANGED wrapperVars

ContainerNext == \/ SetupFails \/ StartCommand \/ Notify \/ ProxySignal \/ CommandEnds \/ Exit
                 \/ ChildBoots \/ ChildRuns
                 \/ \E sig \in Signals : SignalArrives(sig)

ContainerSpec == ContainerInit /\ [][ContainerNext]_containerVars

(* Both processes run; the child's fairness is the daemon's.               *)
ContainerFairness == /\ Fairness
                     /\ WF_containerVars(ChildBoots)
                     /\ WF_containerVars(ProxySignal)
                     /\ WF_containerVars(CommandEnds)
                     /\ WF_containerVars(Exit)

-----------------------------------------------------------------------------
(* Who reads the container's status learns how the program ended: the      *)
(* wrapper outlives its child, and reports 130, the status of a stop that  *)
(* was asked for, exactly when the daemon ended so.                        *)
WrapperTellsTheEnd ==
  wrapper = "exited" /\ process # "unborn" =>
      ChildOver /\ (code = 130 <=> process = "exit130")
=============================================================================
