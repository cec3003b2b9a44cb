---------------------------- MODULE ContentCache ----------------------------
(***************************************************************************)
(* What the content store gives the forwarder: a cache of content objects  *)
(* in the order of their last use.  It answers by name, whatever else an   *)
(* interest is restricted to, with an object that was stored under the     *)
(* name, that no newer one has replaced, that has not expired and was not  *)
(* removed.  It drops an object to make room only when that one has        *)
(* expired, or when nothing has and it is the one unused for longest.  An  *)
(* object that is stored can be found, but perhaps not when it replaces    *)
(* another; and it is lost sight of when another one of its name goes.     *)
(***************************************************************************)
EXTENDS Integers, Sequences

CONSTANTS Content, Interest, Object, Capacity, None

VARIABLES
  order,       (* the objects, last used first                             *)
  object,      (* [Object -> Content \cup {None}]                          *)
  findable,    (* the objects that can be found by their name              *)
  now,
  reply        (* the last call and its result                             *)

vars == <<order, object, findable, now, reply>>

Expired(o) == object[o].expiry # None /\ object[o].expiry < now

Named(n) == {o \in Object : object[o] # None /\ object[o].name = n}

(* The rest of the sequence s, in its order. *)
Without(s, S) ==
  LET kept[n \in 0 .. Len(s)] ==
        IF n = 0 THEN <<>>
        ELSE IF s[n] \in S THEN kept[n - 1] ELSE Append(kept[n - 1], s[n])
  IN kept[Len(s)]

Reply(call, result) == [call |-> call, result |-> result]

Init ==
  /\ order = <<>>
  /\ object = [o \in Object |-> None]
  /\ findable = {}
  /\ now = 0
  /\ reply = Reply(<<"Create">>, TRUE)

(* The findable object of that name goes.  The new one can be found; only  *)
(* when it replaces another it need not be.                                *)
Store(c, o) ==
  LET replaced == findable \cap Named(c.name)
      kept     == findable \ replaced
  IN /\ object[o] = None
     /\ c.expiry # None => c.expiry > now
     /\ order' = <<o>> \o Without(order, replaced)
     /\ object' = [x \in Object |-> IF x = o THEN c
                                    ELSE IF x \in replaced THEN None ELSE object[x]]
     /\ \/ findable' = kept \cup {o}
        \/ replaced # {} /\ findable' = kept
     /\ reply' = Reply(<<"Put", c>>, TRUE)
     /\ UNCHANGED now

Refuse(c) ==
  /\ reply' = Reply(<<"Put", c>>, FALSE)
  /\ UNCHANGED <<order, object, findable, now>>

Drop(o) ==
  /\ order' = Without(order, {o})
  /\ object' = [object EXCEPT ![o] = None]
  /\ findable' = findable \ Named(object[o].name)

Evict(o) ==
  /\ object[o] # None
  /\ \/ Expired(o)
     \/ o = order[Len(order)] /\ \A x \in Object : object[x] # None => ~Expired(x)
  /\ Drop(o)
  /\ UNCHANGED <<now, reply>>

Hit(i, o) ==
  /\ o \in findable \cap Named(i.name)
  /\ ~Expired(o)
  /\ order' = <<o>> \o Without(order, {o})
  /\ reply' = Reply(<<"Get", i>>, object[o])
  /\ UNCHANGED <<object, findable, now>>

Miss(i) ==
  /\ \/ findable \cap Named(i.name) = {} /\ UNCHANGED <<order, object, findable>>
     \/ \E o \in findable \cap Named(i.name) : Expired(o) /\ Drop(o)
  /\ reply' = Reply(<<"Get", i>>, None)
  /\ UNCHANGED now

Remove(i) ==
  /\ \/ /\ findable \cap Named(i.name) = {}
        /\ UNCHANGED <<order, object, findable>>
        /\ reply' = Reply(<<"Remove", i>>, FALSE)
     \/ /\ \E o \in findable \cap Named(i.name) : Drop(o)
        /\ reply' = Reply(<<"Remove", i>>, TRUE)
  /\ UNCHANGED now

Clear(size) ==
  /\ order' = <<>>
  /\ object' = [o \in Object |-> None]
  /\ findable' = {}
  /\ reply' = Reply(<<"SetCapacity", size>>, TRUE)
  /\ UNCHANGED now

Tick == now' = now + 1 /\ UNCHANGED <<order, object, findable, reply>>

Next ==
  \/ \E c \in Content, o \in Object : Store(c, o)
  \/ \E c \in Content : Refuse(c)
  \/ \E o \in Object : Evict(o)
  \/ \E i \in Interest : Miss(i) \/ Remove(i) \/ \E o \in Object : Hit(i, o)
  \/ \E size \in Capacity : Clear(size)
  \/ Tick

Spec == Init /\ [][Next]_vars
=============================================================================
