-------------------------- MODULE PendingInterests --------------------------
(***************************************************************************)
(* What the PIT promises the forwarder, for interests that name their      *)
(* content without a hash restriction: who is waiting for what.  A request *)
(* is dropped unanswered only once every request for the same content has  *)
(* expired, or because its link went away or withdrew it; content answers  *)
(* all the links that wait for it and no other; an interest is refused     *)
(* only when Capacity other ones are pending.                              *)
(***************************************************************************)
EXTENDS Naturals, FiniteSets

CONSTANTS
  Interest,       (* what can be asked for: [name, cid, kid]               *)
  Content,        (* what can arrive                                       *)
  Matches(_),     (* the interests a content object satisfies              *)
  Link,           (* link identifiers                                      *)
  Lifetime,       (* interest lifetimes                                    *)
  Capacity

VARIABLES
  pending,        (* [Interest -> SUBSET Link]                             *)
  until,          (* [Interest -> Nat], 0 when nobody is waiting           *)
  now,
  reply           (* what the last call returned: <<resolution, links>>    *)

vars == <<pending, until, now, reply>>

Waiting == {i \in Interest : pending[i] # {}}

Init ==
  /\ pending = [i \in Interest |-> {}]
  /\ until = [i \in Interest |-> 0]
  /\ now = 0
  /\ reply = <<"None", {}>>

Later(s, t) == IF s < t THEN t ELSE s

(* Requests for one interest live as long as the longest of them; only a   *)
(* link that joins others is told not to forward.                          *)
Ask(i, l, life) ==
  /\ pending' = [pending EXCEPT ![i] = @ \cup {l}]
  /\ until' = [until EXCEPT ![i] = Later(@, now + life)]
  /\ reply' = IF pending[i] = {} \/ l \in pending[i]
                THEN <<"Forward", {}>> ELSE <<"Aggregated", {}>>
  /\ UNCHANGED now

Refuse(i) ==
  /\ i \notin Waiting
  /\ Cardinality(Waiting) >= Capacity
  /\ reply' = <<"Error", {}>>
  /\ UNCHANGED <<pending, until, now>>

(* The requests of the interests in S end. *)
Forget(S) ==
  /\ pending' = [i \in Interest |-> IF i \in S THEN {} ELSE pending[i]]
  /\ until' = [i \in Interest |-> IF i \in S THEN 0 ELSE until[i]]

Expire(S) ==
  /\ \A i \in S : until[i] < now
  /\ Forget(S)
  /\ UNCHANGED <<now, reply>>

Answer(c) ==
  /\ Forget(Matches(c))
  /\ reply' = <<"Match", UNION {pending[i] : i \in Matches(c)}>>
  /\ UNCHANGED now

(* The link l no longer waits for the interests in S. *)
Withdraw(l, S) ==
  /\ pending' = [i \in Interest |-> IF i \in S THEN pending[i] \ {l} ELSE pending[i]]
  /\ until' = [i \in Interest |-> IF pending'[i] = {} THEN 0 ELSE until[i]]
  /\ reply' = <<"None", {}>>
  /\ UNCHANGED now

Tick == now' = now + 1 /\ UNCHANGED <<pending, until, reply>>

Next ==
  \/ \E i \in Interest, l \in Link, life \in Lifetime : Ask(i, l, life)
  \/ \E i \in Interest : Refuse(i)
  \/ \E S \in SUBSET Waiting : Expire(S)
  \/ \E c \in Content : Answer(c)
  \/ \E l \in Link, S \in SUBSET Interest : Withdraw(l, S)
  \/ Tick

Spec == Init /\ [][Next]_vars
=============================================================================
