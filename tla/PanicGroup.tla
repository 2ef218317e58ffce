----------------------------- MODULE PanicGroup -----------------------------
(***************************************************************************)
(* errors.go, ErrAndPanicGroup: an errgroup whose members' panics become   *)
(* errors.  errgroup is modelled by its contract: the first member that    *)
(* returns an error sets the group's and cancels its context, if it has    *)
(* one, and Wait returns when every member has, cancelling the context.    *)
(***************************************************************************)
EXTENDS Sequences

CONSTANT Member        \* the functions that may be given to Go

VARIABLES member,   \* member[m]: "new", "running", "panicking" or "returned"
          first,    \* the group's error: <<>> or <<what, member>>
          groupCtx, \* "live" or "cancelled", or "none" without a context
          waiter,   \* Wait: "before", "waiting" or "returned"
          failures  \* history: what the members failed with, in order

vars == <<member, first, groupCtx, waiter, failures>>

Failure == {"error", "panic"} \X Member
TypeOK == /\ member \in [Member -> {"new", "running", "panicking", "returned"}]
          /\ first \in {<<>>} \cup Failure
          /\ groupCtx \in {"none", "live", "cancelled"}
          /\ waiter \in {"before", "waiting", "returned"}
          /\ failures \in Seq(Failure)

Init == /\ member = [m \in Member |-> "new"]
        /\ first = <<>> /\ groupCtx \in {"none", "live"} /\ waiter = "before" /\ failures = <<>>

(* Members may start members; after Wait returned the group is not used.   *)
Go(m) == /\ member[m] = "new"
         /\ waiter = "before" \/ (waiter = "waiting" /\ \E n \in Member : member[n] = "running")
         /\ member' = [member EXCEPT ![m] = "running"]
         /\ UNCHANGED <<first, groupCtx, waiter, failures>>

Cancel == groupCtx' = IF groupCtx = "none" THEN "none" ELSE "cancelled"

(* Mutant: the last error wins.                                            *)
LastWins(failure) == /\ first' = failure
                     /\ Cancel
                     /\ failures' = Append(failures, failure)

Fails(failure) == /\ first' = IF first = <<>> THEN failure ELSE first
                  /\ Cancel
                  /\ failures' = Append(failures, failure)

FnReturns(m) == /\ member[m] = "running"
                /\ member' = [member EXCEPT ![m] = "returned"]
                /\ \/ UNCHANGED <<first, groupCtx, failures>>
                   \/ Fails(<<"error", m>>)
                /\ UNCHANGED waiter

FnPanics(m) == /\ member[m] = "running"
               /\ member' = [member EXCEPT ![m] = "panicking"]
               /\ UNCHANGED <<first, groupCtx, waiter, failures>>

(* The deferred function turns the panic into the member's error.          *)
Recovers(m) == /\ member[m] = "panicking"
               /\ member' = [member EXCEPT ![m] = "returned"]
               /\ Fails(<<"panic", m>>)
               /\ UNCHANGED waiter

Wait == /\ waiter = "before"
        /\ waiter' = "waiting"
        /\ UNCHANGED <<member, first, groupCtx, failures>>

WaitReturns == /\ waiter = "waiting"
               /\ \A m \in Member : member[m] \in {"new", "returned"}
               /\ waiter' = "returned"
               /\ Cancel
               /\ UNCHANGED <<member, first, failures>>

Next == \/ Wait \/ WaitReturns
        \/ \E m \in Member : Go(m) \/ FnReturns(m) \/ FnPanics(m) \/ Recovers(m)

Spec == Init /\ [][Next]_vars

-----------------------------------------------------------------------------
(* Wait returns the failure that came first in time, a panic like an       *)
(* error, and nil only if no member failed; until then the context of the  *)
(* group, if it has one, is live exactly if nothing failed.                *)
WaitTellsTheFirst ==
  /\ first = IF failures = <<>> THEN <<>> ELSE failures[1]
  /\ waiter = "returned" => \A m \in Member : member[m] \in {"new", "returned"}
  /\ groupCtx = "live" => failures = <<>>
  /\ waiter # "returned" /\ failures = <<>> => groupCtx # "cancelled"
=============================================================================
