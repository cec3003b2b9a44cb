----------------------------- MODULE MessageLink -----------------------------
(***************************************************************************)
(* What a link promises for its messages, whether it cuts them into packets *)
(* or runs them together on a stream: they come whole, in the order they   *)
(* were sent and at most once, or not at all.                              *)
(***************************************************************************)
EXTENDS Naturals

CONSTANTS Message, None

VARIABLES
  flight,    (* messages that were sent and neither delivered nor given up *)
  order,     (* the pairs of them of which the first was sent before the second *)
  delivered  (* the message delivered last                                 *)

vars == <<flight, order, delivered>>

Init == flight = {} /\ order = {} /\ delivered = None

Send(m) ==
  /\ m \notin flight
  /\ flight' = flight \cup {m}
  /\ order' = order \cup (flight \X {m})
  /\ UNCHANGED delivered

Remain(S) == flight' = S /\ order' = order \cap (S \X S)

(* What was sent earlier and has not been delivered by now never will be.  *)
Deliver(m) ==
  /\ m \in flight
  /\ delivered' = m
  /\ Remain({k \in flight : <<m, k>> \in order})

(* A fault, or the end of the link, takes some or all of the messages.     *)
Lose ==
  /\ \E S \in SUBSET flight : Remain(S)
  /\ UNCHANGED delivered

Next == Lose \/ \E m \in Message : Send(m) \/ Deliver(m)

Spec == Init /\ [][Next]_vars
=============================================================================
