------------------------------ MODULE Migrate -------------------------------
(***************************************************************************)
(* wwdb/migrate.go, the migrate command, and CliConfirm of cli.go, which   *)
(* asks until it reads a y or an n.  Each call makes a buffered reader of  *)
(* its own, and forgets what that has read and did not use.  A read takes  *)
(* some of what has arrived, as much as the buffer holds at most, and from *)
(* a terminal no more than a line (less when ^D ends it).  At the end of   *)
(* its input ReadByte returns 0, and CliConfirm asks for ever.             *)
(***************************************************************************)
EXTENDS Integers, Sequences

CONSTANTS Buffer,   \* the bytes that a reader holds
          MaxBytes  \* bound: the bytes that arrive

VARIABLES command,  \* [name, yes]: the subcommand, and whether --yes was given
          input,    \* "terminal", "pipe" or "closed", a pipe without writers
          typed,    \* how many bytes have arrived
          unread,   \* those that no reader has taken
          reader,   \* how often input was read, and what is left of the last read
          left,     \* the confirmations that are still needed
          answers,  \* history: the reads whose y confirmed
          pc        \* "starting", "asking", "looping", "cancelled", "acting", "done", "failed"

vars == <<command, input, typed, unread, reader, left, answers, pc>>

Bytes == {"y", "n", "x", "newline"}     \* x is any other
Commands == [name : {"up", "down", "force", "drop"}, yes : BOOLEAN]
TypeOK == /\ command \in Commands
          /\ input \in {"terminal", "pipe", "closed"}
          /\ typed \in 0..MaxBytes
          /\ unread \in Seq(Bytes)
          /\ reader \in [read : Nat, bytes : Seq(Bytes)]
          /\ left \in 0..2
          /\ answers \in Seq(Nat)
          /\ pc \in {"starting", "asking", "looping", "cancelled", "acting", "done", "failed"}

Init == /\ command \in Commands /\ input \in {"terminal", "pipe"}
        /\ typed = 0 /\ unread = <<>> /\ reader = [read |-> 0, bytes |-> <<>>]
        /\ left = 0 /\ answers = <<>> /\ pc = "starting"

Type == /\ input # "closed" /\ typed < MaxBytes
        /\ \E byte \in Bytes : unread' = Append(unread, byte)
        /\ typed' = typed + 1
        /\ UNCHANGED <<command, input, reader, left, answers, pc>>

ClosePipe == /\ input = "pipe"
             /\ input' = "closed"
             /\ UNCHANGED <<command, typed, unread, reader, left, answers, pc>>

-----------------------------------------------------------------------------
Questions == CASE command.name = "drop" -> 2
               [] command.name = "down" -> 1
               [] command.name \in {"up", "force"} -> 0

Start == /\ pc = "starting"
         /\ left' = IF command.yes THEN 0 ELSE Questions
         /\ pc' = IF left' = 0 THEN "acting" ELSE "asking"
         /\ UNCHANGED <<command, input, typed, unread, reader, answers>>

EndsALine(n) == \A k \in 1..(n - 1) : unread[k] # "newline"

Fill == /\ pc = "asking" /\ reader.bytes = <<>>
        /\ \E n \in 1..Len(unread) :
             /\ n <= Buffer /\ (input = "terminal" => EndsALine(n))
             /\ reader' = [read |-> reader.read + 1, bytes |-> SubSeq(unread, 1, n)]
             /\ unread' = SubSeq(unread, n + 1, Len(unread))
        /\ UNCHANGED <<command, input, typed, left, answers, pc>>

(* Nothing ends the loop.                                                  *)
ReadAtEnd == /\ pc = "asking" /\ reader.bytes = <<>> /\ unread = <<>> /\ input = "closed"
             /\ pc' = "looping"
             /\ UNCHANGED <<command, input, typed, unread, reader, left, answers>>

Byte == Head(reader.bytes)
Skipped == Tail(reader.bytes)

(* Mutant: the calls share a reader.                                       *)
KeepReader == Skipped

(* What a reader of its own finds in its buffer.                           *)
NewReader == <<>>

CliConfirm ==
  /\ pc = "asking" /\ reader.bytes # <<>>
  /\ CASE Byte = "y" -> /\ answers' = Append(answers, reader.read)
                        /\ left' = left - 1
                        /\ reader' = [reader EXCEPT !.bytes = NewReader]
                        /\ pc' = IF left = 1 THEN "acting" ELSE pc
       [] Byte = "n" -> /\ pc' = "cancelled" /\ reader' = [reader EXCEPT !.bytes = NewReader]
                        /\ UNCHANGED <<left, answers>>
       [] OTHER -> /\ reader' = [reader EXCEPT !.bytes = Skipped]
                   /\ UNCHANGED <<left, answers, pc>>
  /\ UNCHANGED <<command, input, typed, unread>>

(* The migrator is made only now, and may fail or panic; that there is     *)
(* nothing to migrate up is no failure.                                    *)
Act == /\ pc = "acting"
       /\ pc' \in {"done", "failed"}
       /\ UNCHANGED <<command, input, typed, unread, reader, left, answers>>

Next == Type \/ ClosePipe \/ Start \/ Fill \/ ReadAtEnd \/ CliConfirm \/ Act
Spec == Init /\ [][Next]_vars

-----------------------------------------------------------------------------
(* Without --yes, migrations are undone only after a y, and the database   *)
(* is dropped only after two, each in a read of its own: what was read     *)
(* with the first y does not answer the second question, and neither does  *)
(* the end of input.  (What comes with a later read does: two lines, or    *)
(* the halves of one that arrived in pieces.)                              *)
HarmIsConfirmed ==
  pc \in {"acting", "done", "failed"} /\ ~command.yes =>
      /\ Len(answers) = Questions
      /\ \A j, k \in DOMAIN answers : j < k => answers[j] < answers[k]

(* Until the command acts, every answer that is missing is asked for, and  *)
(* what is still to be used was read after what answered.                  *)
ReadsInOrder ==
  /\ \A j, k \in DOMAIN answers : j < k => answers[j] < answers[k]
  /\ \A j \in DOMAIN answers : /\ answers[j] <= reader.read
                               /\ reader.bytes # <<>> => answers[j] < reader.read

AnswersAreCounted ==
  /\ pc = "starting" => answers = <<>>
  /\ ~command.yes /\ pc # "starting" => left + Len(answers) = Questions
  /\ pc = "asking" => left > 0
  /\ pc \in {"acting", "done", "failed"} => left = 0

Inductive == TypeOK /\ ReadsInOrder /\ AnswersAreCounted
=============================================================================
