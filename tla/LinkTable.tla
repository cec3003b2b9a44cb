------------------------------ MODULE LinkTable ------------------------------
(***************************************************************************)
(* What the link adapter promises the rest of the forwarder: links with    *)
(* names of their own come and go, routes and pending interests hold on to *)
(* links that are there, and a link that goes takes with it every route    *)
(* and pending interest that held on to it.  Nothing here has a link id,   *)
(* so nothing can be meant for one link and reach another.                 *)
(***************************************************************************)
EXTENDS Naturals

CONSTANTS Link, Name, User, None

VARIABLES
  name,     (* [Link -> Name \cup {None}]: the links there are have one     *)
  users,    (* [Link -> SUBSET User]: what holds on to the link            *)
  stopped   (* the adapter has been destroyed                              *)

vars == <<name, users, stopped>>

Present == {l \in Link : name[l] # None}

Init ==
  /\ name = [l \in Link |-> None]
  /\ users = [l \in Link |-> {}]
  /\ stopped = FALSE

Open(l, n) ==
  /\ ~stopped
  /\ l \notin Present
  /\ \A k \in Present : name[k] # n
  /\ name' = [name EXCEPT ![l] = n]
  /\ UNCHANGED <<users, stopped>>

Close(C) ==
  /\ C \subseteq Present
  /\ name' = [l \in Link |-> IF l \in C THEN None ELSE name[l]]
  /\ users' = [l \in Link |-> IF l \in C THEN {} ELSE users[l]]
  /\ UNCHANGED stopped

Use(l, u) ==
  /\ ~stopped
  /\ l \in Present
  /\ users' = [users EXCEPT ![l] = @ \cup {u}]
  /\ UNCHANGED <<name, stopped>>

Drop(l, u) ==
  /\ users' = [users EXCEPT ![l] = @ \ {u}]
  /\ UNCHANGED <<name, stopped>>

(* Whatever is left is closed before the table is gone.                    *)
Stop ==
  /\ name' = [l \in Link |-> None]
  /\ users' = [l \in Link |-> {}]
  /\ stopped' = TRUE

Next ==
  \/ \E l \in Link, n \in Name : Open(l, n)
  \/ \E C \in SUBSET Link : Close(C)
  \/ \E l \in Link, u \in User : Use(l, u) \/ Drop(l, u)
  \/ Stop

Spec == Init /\ [][Next]_vars
=============================================================================
