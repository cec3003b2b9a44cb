------------------------------ MODULE RouteSet ------------------------------
(***************************************************************************)
(* What the FIB promises its users: a set of routes <<name, link>>, a set  *)
(* of default links, and for every routed name the translation (output     *)
(* prefix and key) given by the call that first routed the name.  A route  *)
(* disappears only when it is itself removed, and the translation of a     *)
(* name lives exactly as long as the name has a route.                     *)
(***************************************************************************)
CONSTANTS
  Name,           (* routable names                                        *)
  Link,           (* link identifiers, the bits of a PARCBitVector         *)
  Translation,    (* what a route may do to an interest                    *)
  Unrouted        (* the translation of a name that has no route           *)

VARIABLES
  routes,         (* SUBSET (Name \X Link)                                 *)
  defaults,       (* SUBSET Link, the routes of the empty name             *)
  translation     (* [Name -> Translation \cup {Unrouted}]                 *)

vars == <<routes, defaults, translation>>

Routed(n) == \E l \in Link : <<n, l>> \in routes

Init ==
  /\ routes = {}
  /\ defaults = {}
  /\ translation = [n \in Name |-> Unrouted]

Add(n, t, v) ==
  /\ routes' = routes \cup ({n} \X v)
  /\ translation' = IF Routed(n) THEN translation
                                 ELSE [translation EXCEPT ![n] = t]
  /\ UNCHANGED defaults

Remove(n, v) ==
  /\ routes' = routes \ ({n} \X v)
  /\ translation' = IF \E l \in Link \ v : <<n, l>> \in routes
                      THEN translation
                      ELSE [translation EXCEPT ![n] = Unrouted]
  /\ UNCHANGED defaults

SetDefaults(v) ==
  /\ defaults' = v
  /\ UNCHANGED <<routes, translation>>

Next ==
  \/ \E n \in Name, t \in Translation, v \in SUBSET Link :
       v # {} /\ Add(n, t, v)
  \/ \E n \in Name, v \in SUBSET Link : Remove(n, v)
  \/ \E v \in SUBSET Link : SetDefaults(v)

Spec == Init /\ [][Next]_vars
=============================================================================
