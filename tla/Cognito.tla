------------------------------- MODULE Cognito -------------------------------
(***************************************************************************)
(* wwauth/cognito.go: ListUsers collects the pages of a user pool, and     *)
(* asks again for a page when the service says it had too many requests.   *)
(* The token of page p is p; no token asks for page 1.                     *)
(***************************************************************************)
EXTENDS Integers, Sequences, SequencesExt

CONSTANTS Pools       \* bound: the pools, sequences of pages of users

MaxTries == 5

VARIABLES pages,      \* the pool
          page,       \* paginationToken
          i,          \* the requests for this page
          users,      \* the users collected
          state       \* "asking", "returned", "failed" or "panicked"

vars == <<pages, page, i, users, state>>

Listed(pool) == UNION {ToSet(pool[p]) : p \in DOMAIN pool}

TypeOK == /\ pages \in Pools /\ page \in DOMAIN pages /\ i \in 0..MaxTries
          /\ users \in Seq(Listed(pages))
          /\ state \in {"asking", "returned", "failed", "panicked"}

Init == /\ pages \in Pools /\ page = 1 /\ i = 0 /\ users = <<>> /\ state = "asking"

Asks == /\ state = "asking" /\ i < MaxTries
        /\ i' = i + 1

(* Mutant: an empty page is taken for the last.                            *)
EmptyIsLast == page = Len(pages) \/ pages[page] = <<>>

(* res.PaginationToken == nil                                              *)
IsLast == page = Len(pages)

Answer == /\ state = "asking" /\ i < MaxTries
          /\ users' = users \o pages[page]
          /\ IF IsLast THEN state' = "returned" /\ UNCHANGED <<page, i>>
             ELSE page' = page + 1 /\ i' = 0 /\ UNCHANGED state
          /\ UNCHANGED pages

(* TooManyRequestsException: sleep a second, then ask again.               *)
Throttled == Asks /\ UNCHANGED <<pages, page, users, state>>

Refused == /\ state = "asking" /\ i < MaxTries
           /\ state' = "failed" /\ UNCHANGED <<pages, page, i, users>>

(* The err that l.187 wraps is not the one of the loop, which shadows it:  *)
(* it is nil, so is the result, and l.197 reads the users of a nil page.   *)
GiveUp == /\ state = "asking" /\ i = MaxTries
          /\ state' = "panicked" /\ UNCHANGED <<pages, page, i, users>>

Next == Answer \/ Throttled \/ Refused \/ GiveUp

Spec == Init /\ [][Next]_vars

-----------------------------------------------------------------------------
(* A list that is returned without an error has every user of the pool,    *)
(* once and in order, whatever was throttled and whichever page was empty. *)
ListIsComplete == state = "returned" => users = FlattenSeq(pages)

(* As long as it asks for a page, it has the users of all before.          *)
HasThoseBefore == state = "asking" => users = FlattenSeq(SubSeq(pages, 1, page - 1))

Inductive == TypeOK /\ HasThoseBefore /\ ListIsComplete
=============================================================================
