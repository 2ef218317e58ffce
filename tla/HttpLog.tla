------------------------------- MODULE HttpLog -------------------------------
(***************************************************************************)
(* wwhttp/logger.go: RequestLogger tees the body of a response into a      *)
(* limitBuffer and logs what it kept when the status is an error.  Byte n  *)
(* of the body is the number n.                                            *)
(***************************************************************************)
EXTENDS Naturals, Sequences

CONSTANTS Limit,      \* 512
          MaxWrite,   \* bound: bytes of one Write
          MaxBody     \* bound: bytes of the body

ASSUME HttpLogAssumption == Limit \in Nat \ {0} /\ MaxWrite \in Nat /\ MaxBody \in Nat

VARIABLES body,       \* bytes written so far
          buffer,     \* limitBuffer.Buffer
          failed,     \* the status is 400 or more
          state,      \* "serving" or "logged"
          logged      \* respBody

vars == <<body, buffer, failed, state, logged>>

TypeOK == /\ body \in 0..MaxBody
          /\ buffer \in Seq(Nat) /\ Len(buffer) \in 0..body
          /\ failed \in BOOLEAN
          /\ state \in {"serving", "logged"}
          /\ logged \in Seq(Nat)

Init == /\ body = 0 /\ buffer = <<>> /\ failed \in BOOLEAN
        /\ state = "serving" /\ logged = <<>>

Bytes(from, n) == [j \in 1..n |-> from + j]

(* Mutant: the last bytes of a write are kept.                             *)
KeptTail(n) == Bytes(body + n - (IF n < Limit THEN n ELSE Limit), IF n < Limit THEN n ELSE Limit)

(* Mutant: a short write is taken for Limit bytes.                         *)
KeptBeyond(n) == Bytes(body, Limit)

Kept(n) == Bytes(body, IF n < Limit THEN n ELSE Limit)

Write(n) == /\ state = "serving" /\ body + n <= MaxBody
            /\ buffer' = IF Len(buffer) >= Limit THEN buffer ELSE buffer \o Kept(n)
            /\ body' = body + n
            /\ UNCHANGED <<failed, state, logged>>

(* The deferred function: the handler returned, or panicked.               *)
LogEntry == /\ state = "serving"
            /\ state' = "logged"
            /\ logged' = IF failed THEN buffer ELSE <<>>
            /\ buffer' = IF failed THEN <<>> ELSE buffer
            /\ UNCHANGED <<body, failed>>

Next == LogEntry \/ \E n \in 0..MaxWrite : Write(n)

Spec == Init /\ [][Next]_vars

-----------------------------------------------------------------------------
(* No byte of the log is another than the body's in that place.            *)
LoggedIsPrefix ==
  /\ Len(logged) <= body
  /\ \A j \in 1..Len(logged) : logged[j] = j

(* The log of an error stops at the body's end or past the limit.          *)
LoggedIsEnough ==
  state = "logged" /\ failed => Len(logged) = body \/ Len(logged) >= Limit

(* What is logged is the beginning of the body, however it was written;    *)
(* of an error, up to the limit at least.                                  *)
LoggedIsBeginning == LoggedIsPrefix /\ LoggedIsEnough

(* The buffer of a request stays below twice the limit, whatever the body. *)
MemoryIsBounded == Len(buffer) < 2 * Limit

(* What a request costs and what its log shows, together.                  *)
LogIsFaithful == LoggedIsBeginning /\ MemoryIsBounded

(* While the request is served, the buffer holds the body's beginning, all *)
(* of it until the limit is reached.                                       *)
BufferOK == /\ Len(buffer) <= body /\ Len(buffer) < 2 * Limit
            /\ \A j \in 1..Len(buffer) : buffer[j] = j
            /\ state = "serving" => /\ logged = <<>>
                                    /\ Len(buffer) = body \/ Len(buffer) >= Limit

Inductive == TypeOK /\ BufferOK /\ LoggedIsBeginning
=============================================================================
