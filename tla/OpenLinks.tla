------------------------------ MODULE OpenLinks ------------------------------
(***************************************************************************)
(* What opening a link promises: the link is there with all that its URI   *)
(* asks for, or there is no link.  The links of the peers of a listener    *)
(* are like the listener, though it may be that they do not fragment, and  *)
(* those that share its socket go when it goes.  The process may stop, and *)
(* all links with it.                                                      *)
(***************************************************************************)
EXTENDS Naturals, Sequences

CONSTANTS Link, Name, Uri, Options, Malformed, None

VARIABLE opened  (* [Link -> what there is, None for no link]               *)

There == {l \in Link : opened[l] # None}

Legal(u) == \A i \in DOMAIN u.tokens :
  u.tokens[i].opt \in Options[u.scheme] /\ u.tokens[i].is # Malformed

(* An option that is given twice has its last value.                       *)
Given(u, opt) == {i \in DOMAIN u.tokens : u.tokens[i].opt = opt}
Value(u, opt, default) ==
  IF Given(u, opt) = {} THEN default
  ELSE u.tokens[CHOOSE i \in Given(u, opt) : \A j \in Given(u, opt) : j <= i].is

Meaning(u) ==
  [uri |-> u, of |-> None,
   name |-> Value(u, "name", u.at),
   listens |-> Given(u, "listener") # {},
   fragments |-> Given(u, "fragmenter") # {},
   forced |-> Value(u, "local", None)]

Init == opened = [l \in Link |-> None]

Add(l, what) ==
  /\ l \notin There
  /\ \A k \in There : opened[k].name # what.name
  /\ opened' = [opened EXCEPT ![l] = what]

Open(l, u) == Legal(u) /\ Add(l, Meaning(u))

Join(l, k, n) ==
  /\ k \in There /\ opened[k].listens
  /\ \E fragments \in {opened[k].fragments, FALSE} :
       Add(l, [opened[k] EXCEPT !.listens = FALSE, !.name = n, !.of = k, !.fragments = fragments])

SharesSocket(l, k) == opened[l].of = k /\ opened[l].uri.scheme # "TCP"

Close(C) ==
  /\ \A k \in C, l \in There : SharesSocket(l, k) => l \in C
  /\ opened' = [l \in Link |-> IF l \in C THEN None ELSE opened[l]]

Halt == opened' = [l \in Link |-> None]

Next ==
  \/ \E l \in Link, u \in Uri : Open(l, u)
  \/ \E l \in Link, k \in Link, n \in Name : Join(l, k, n)
  \/ \E C \in SUBSET There : Close(C)
  \/ Halt

Spec == Init /\ [][Next]_opened
=============================================================================
