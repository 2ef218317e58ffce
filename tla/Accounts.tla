------------------------------ MODULE Accounts ------------------------------
(***************************************************************************)
(* wwauth/cognito.go: administrators' calls that create users, look them   *)
(* up and set their passwords, from goroutines that may have been given    *)
(* the same slice of attributes.  AdminCreateUser appends the email to it, *)
(* in place if the slice has room.                                         *)
(*                                                                         *)
(* Cognito is modelled by its answers; an answer may be lost after the     *)
(* service did what it was asked.                                          *)
(***************************************************************************)
EXTENDS FiniteSets

CONSTANTS Call, User,
          Nothing

VARIABLES pool,     \* pool[u]: [email, password] of a user, or Nothing
          asks,     \* asks[c]: [what, user, slice], or Nothing
          heap,     \* heap[s]: the element after the end of slice s
          pc        \* pc[c]: "new", "appended", "ok", "nobody" or "error"

vars == <<pool, asks, heap, pc>>

Shared == "shared"                \* a slice with room, given to several calls
Slices == Call \cup {Shared}
Whats == {"create", "get", "resend", "reset"}

TypeOK == /\ pool \in [User -> [email : User, password : Call] \cup {Nothing}]
          /\ asks \in [Call -> [what : Whats, user : User, slice : Slices] \cup {Nothing}]
          /\ heap \in [Slices -> User \cup {Nothing}]
          /\ pc \in [Call -> {"new", "appended", "ok", "nobody", "error"}]

Init == /\ pool = [u \in User |-> Nothing]
        /\ asks = [c \in Call |-> Nothing]
        /\ heap = [s \in Slices |-> Nothing]
        /\ pc = [c \in Call |-> "new"]

Ends(c, how) == pc' = [pc EXCEPT ![c] = how]
Asks(c, what, u, given) ==
  asks' = [asks EXCEPT ![c] = [what |-> what, user |-> u, slice |-> given]]

(* Mutant: nil attributes stand for one list that has room.                *)
CommonSlice(c, given) == Shared

(* A slice without room, or none: append makes the call one of its own.    *)
Appended(c, given) == IF given = Shared THEN Shared ELSE c

AppendEmail(c, u, given) ==
  /\ pc[c] = "new"
  /\ Asks(c, "create", u, given)
  /\ heap' = [heap EXCEPT ![Appended(c, given)] = u]
  /\ Ends(c, "appended")
  /\ UNCHANGED pool

(* The slice is read when the request is made.  A call's password is its   *)
(* name: each draws its own.                                               *)
Created(c) == [email |-> heap[Appended(c, asks[c].slice)], password |-> c]

AdminCreateUser(c) ==
  /\ pc[c] = "appended"
  /\ IF pool[asks[c].user] = Nothing
     THEN /\ pool' = [pool EXCEPT ![asks[c].user] = Created(c)]
          /\ \E how \in {"ok", "error"} : Ends(c, how)
     ELSE Ends(c, "error") /\ UNCHANGED pool
  /\ UNCHANGED <<asks, heap>>

(* A user that is not there is no error.                                   *)
AdminGetUser(c, u) ==
  /\ pc[c] = "new" /\ Asks(c, "get", u, c)
  /\ Ends(c, IF pool[u] = Nothing THEN "nobody" ELSE "ok")
  /\ UNCHANGED <<pool, heap>>

(* Without the answer the caller is not told that the password was set.    *)
SetsPassword(c, u) == /\ pc[c] = "new" /\ pool[u] # Nothing
                      /\ pool' = [pool EXCEPT ![u].password = c]
                      /\ \E how \in {"ok", "error"} : Ends(c, how)
                      /\ UNCHANGED heap

AdminResendTemporaryPassword(c, u) == Asks(c, "resend", u, c) /\ SetsPassword(c, u)
AdminSetTemporaryPassword(c, u) == Asks(c, "reset", u, c) /\ SetsPassword(c, u)

RequestFails(c, u) ==
  /\ \/ pc[c] = "new" /\ \E what \in Whats \ {"create"} : Asks(c, what, u, c)
     \/ pc[c] = "appended" /\ asks[c].user = u /\ UNCHANGED asks
  /\ Ends(c, "error")
  /\ UNCHANGED <<pool, heap>>

Next == \E c \in Call :
          \/ AdminCreateUser(c)
          \/ \E u \in User : \/ \E given \in {Shared, c} : AppendEmail(c, u, given)
                             \/ AdminGetUser(c, u) \/ RequestFails(c, u)
                             \/ AdminResendTemporaryPassword(c, u)
                             \/ AdminSetTemporaryPassword(c, u)

Spec == Init /\ [][Next]_vars

-----------------------------------------------------------------------------
(* A user is created with its own email, whatever calls run beside, unless *)
(* its caller shared a slice with room among calls for several users: then *)
(* it may get the email of any of those.  And a create that ends well      *)
(* leaves the user there.                                                  *)
GivenShared(u) == \E c \in Call : /\ asks[c] # Nothing /\ asks[c].what = "create"
                                  /\ asks[c].user = u /\ asks[c].slice = Shared

EmailIsTheirOwn ==
  /\ \A u \in User : pool[u] # Nothing /\ pool[u].email # u =>
       GivenShared(u) /\ GivenShared(pool[u].email)
  /\ \A c \in Call : pc[c] = "ok" => pool[asks[c].user] # Nothing

(* A call that has appended its email finds it in a slice of its own, and  *)
(* in a shared one the email of a call that was given it too.              *)
SliceHasEmail ==
  /\ \A c \in Call : pc[c] = "new" => asks[c] = Nothing
  /\ \A c \in Call : pc[c] = "appended" =>
       /\ asks[c] # Nothing /\ asks[c].what = "create" /\ asks[c].slice \in {Shared, c}
       /\ asks[c].slice = c => heap[c] = asks[c].user
  /\ (\E u \in User : GivenShared(u)) => heap[Shared] \in User /\ GivenShared(heap[Shared])

Inductive == TypeOK /\ SliceHasEmail /\ EmailIsTheirOwn
=============================================================================
