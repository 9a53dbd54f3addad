----------------------------- MODULE StoreLock -----------------------------
(***************************************************************************)
(* What the workspace lock promises: one store, at most one owner at a     *)
(* time, and nobody but the owner writes.  WorkspaceLock implements it for *)
(* clients that keep to either lock protocol.                              *)
(***************************************************************************)
CONSTANTS
    Users,
    NoUser   \* no user: nobody owns the store

VARIABLES
    owner,  \* the user that holds the store, or NoUser
    store   \* the last user that wrote

vars == <<owner, store>>

Init == owner = NoUser /\ store = NoUser

Take(u) == owner = NoUser /\ owner' = u /\ UNCHANGED store

Write(u) == owner = u /\ store' = u /\ UNCHANGED owner

Drop(u) == owner = u /\ owner' = NoUser /\ UNCHANGED store

Next == \E u \in Users : Take(u) \/ Write(u) \/ Drop(u)

Spec == Init /\ [][Next]_vars
=============================================================================
