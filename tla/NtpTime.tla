------------------------------ MODULE NtpTime -------------------------------
(***************************************************************************)
(* ntp_time.go: a clock that asks an NTP server for its offset when an     *)
(* hour has gone by since it last did.  Callers share one mutex, which is  *)
(* held during the query and freed by a defer, also when the query's error *)
(* makes the caller panic.                                                 *)
(***************************************************************************)
EXTENDS Integers

CONSTANTS Caller,
          Hour,     \* in ticks of the local clock
          Skew,     \* what the true time minus the local clock may be
          MaxTime   \* bound: ticks

Never == -1
Nobody == "nobody"

VARIABLES clock,    \* <<the local clock, the skew>>
          mut,      \* the caller that holds the mutex, or Nobody
          stored,   \* [offset, refreshed]: timeOffset and lastNtpRefresh
          pc,       \* pc[c]: "idle", "waiting", "querying", "returned" or "panicked"
          now,      \* now[c]: the clock as the caller read it
          given,    \* given[c]: the time and the offset it returned
          measured, \* history: when the stored offset was measured
          basis     \* history: basis[c]: when given[c] was measured

vars == <<clock, mut, stored, pc, now, given, measured, basis>>

Time == 0..MaxTime
TypeOK == /\ clock \in Time \X Skew
          /\ mut \in Caller \cup {Nobody}
          /\ stored \in [offset : Skew \cup {0}, refreshed : Time \cup {Never}]
          /\ pc \in [Caller -> {"idle", "waiting", "querying", "returned", "panicked"}]
          /\ now \in [Caller -> Time]
          /\ given \in [Caller -> Int \X (Skew \cup {0})]
          /\ measured \in Time \cup {Never}
          /\ basis \in [Caller -> Time \cup {Never}]

Init == /\ clock \in {0} \X Skew
        /\ mut = Nobody
        /\ stored = [offset |-> 0, refreshed |-> Never]
        /\ pc = [c \in Caller |-> "idle"]
        /\ now = [c \in Caller |-> 0]
        /\ given = [c \in Caller |-> <<0, 0>>]
        /\ measured = Never /\ basis = [c \in Caller |-> Never]

(* The local clock drifts.                                                 *)
Tick == /\ clock[1] < MaxTime
        /\ \E skew \in Skew : clock' = <<clock[1] + 1, skew>>
        /\ UNCHANGED <<mut, stored, pc, now, given, measured, basis>>

Call(c) == /\ pc[c] \notin {"waiting", "querying"}
           /\ pc' = [pc EXCEPT ![c] = "waiting"]
           /\ UNCHANGED <<clock, mut, stored, now, given, measured, basis>>

Return(c, answer, since) == /\ pc' = [pc EXCEPT ![c] = "returned"]
                            /\ given' = [given EXCEPT ![c] = answer]
                            /\ basis' = [basis EXCEPT ![c] = since]

(* The first query is due whatever the clock says.                         *)
IsFresh(refreshed) == refreshed # Never /\ clock[1] - refreshed < Hour

UseStored(c) == /\ pc[c] = "waiting" /\ mut = Nobody /\ IsFresh(stored.refreshed)
                /\ now' = [now EXCEPT ![c] = clock[1]]
                /\ Return(c, <<clock[1] + stored.offset, stored.offset>>, measured)
                /\ UNCHANGED <<clock, mut, stored, measured>>

(* Mutant: the refresh is noted before the query, which may fail.          *)
QueryNoted(c) == /\ pc[c] = "waiting" /\ mut = Nobody /\ ~IsFresh(stored.refreshed)
                 /\ mut' = c
                 /\ now' = [now EXCEPT ![c] = clock[1]]
                 /\ stored' = [stored EXCEPT !.refreshed = clock[1]]
                 /\ pc' = [pc EXCEPT ![c] = "querying"]
                 /\ UNCHANGED <<clock, given, measured, basis>>

Query(c) == /\ pc[c] = "waiting" /\ mut = Nobody /\ ~IsFresh(stored.refreshed)
            /\ mut' = c
            /\ now' = [now EXCEPT ![c] = clock[1]]
            /\ pc' = [pc EXCEPT ![c] = "querying"]
            /\ UNCHANGED <<clock, stored, given, measured, basis>>

(* The time it returns is the one in the answer, resp.Time.                *)
QueryAnswers(c) == /\ pc[c] = "querying"
                   /\ mut' = Nobody
                   /\ stored' = [offset |-> clock[2], refreshed |-> now[c]]
                   /\ measured' = clock[1]
                   /\ Return(c, <<clock[1] + clock[2], clock[2]>>, clock[1])
                   /\ UNCHANGED <<clock, now>>

QueryFails(c) == /\ pc[c] = "querying"
                 /\ mut' = Nobody
                 /\ pc' = [pc EXCEPT ![c] = "panicked"]
                 /\ UNCHANGED <<clock, stored, now, given, measured, basis>>

Next == \/ Tick
        \/ \E c \in Caller : \/ Call(c) \/ UseStored(c) \/ Query(c)
                             \/ QueryAnswers(c) \/ QueryFails(c)

Spec == Init /\ [][Next]_vars

-----------------------------------------------------------------------------
(* A caller that is not panicked gets an offset that was measured less     *)
(* than an hour before it asked for the time, or by its own query, however *)
(* long queries take and whichever of them fail.                           *)
OffsetIsFresh ==
  \A c \in Caller : pc[c] = "returned" => basis[c] # Never /\ now[c] - basis[c] < Hour

(* Whoever queries has the mutex; the refresh that is noted is not later   *)
(* than the measurement it stands for; and a caller reads the clock before *)
(* it measures.                                                            *)
QuerierHasMutex == \A c \in Caller : pc[c] = "querying" => mut = c

StoredIsMeasured == /\ stored.refreshed = Never <=> measured = Never
                    /\ stored.refreshed <= measured /\ measured <= clock[1]

ReadingIsPast == \A c \in Caller : now[c] <= clock[1]

Inductive == TypeOK /\ QuerierHasMutex /\ StoredIsMeasured /\ ReadingIsPast /\ OffsetIsFresh
=============================================================================
