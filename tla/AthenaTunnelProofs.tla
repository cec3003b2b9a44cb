-------------------------- MODULE AthenaTunnelProofs --------------------------
(***************************************************************************)
(* What the forwarders and the tunnels between them keep to, for every     *)
(* network.  Types hold in any; the rest holds where the networks are put  *)
(* together as PrivateNetworks says, and needs two inductive invariants:   *)
(* FormInv, what a packet and a pending interest can look like, and        *)
(* TunnelInv, which ties the two together across the forwarders.           *)
(***************************************************************************)
EXTENDS AthenaTunnel, TLAPS

(***************************************************************************)
(* The inductive invariants                                                *)
(***************************************************************************)

(* A packet with a key has something in it. *)
NotHollow(p) == p.key # None => p.inner # None

TypeInv ==
  /\ TypeOK
  /\ \A m \in net : NotHollow(m.packet)
  /\ \A f \in Forwarder : \A p \in store[f] : NotHollow(p)

(* Under a public name: something for the private network behind it, with  *)
(* the key that makes the name unique.  Under another name: itself.        *)
WellSealed(p) ==
  IF p.name \in Outer
    THEN p.key = p.name.id /\ p.inner \in Name /\ TunnelledTo(p.inner, p.name.to)
    ELSE p = Plain(p.name)

(* The four pending interests there are: of a name, of a name that came    *)
(* out of a tunnel, of a public name on its way to the gateway, and of a   *)
(* name that went into a tunnel.                                           *)
IsPlain(e) == e.name \in Name /\ e.original = e.name /\ e.key = None

LeavesTunnel(f, e) ==
  /\ e.name \in Name
  /\ e.original \in Outer /\ e.original.to = f /\ e.key = e.original.id
  /\ TunnelledTo(e.name, f)

PassesOn(f, e) == e.name \in Outer /\ e.original = e.name /\ e.key = None /\ e.name.to # f

EntersTunnel(f, e) ==
  /\ e.name \in Outer
  /\ e.original \in Name /\ e.key = e.name.id
  /\ Encapsulates(f, e.original, e.name.to)

WellFormed(f, e) == IsPlain(e) \/ LeavesTunnel(f, e) \/ PassesOn(f, e) \/ EntersTunnel(f, e)

FormInv ==
  /\ TypeInv
  /\ \A m \in net : /\ WellSealed(m.packet)
                    /\ m.kind = "Interest" /\ m.to \in Producer => m.packet.name \in Name
  /\ \A f \in Forwarder : \A p \in store[f] : WellSealed(p)
  /\ \A f \in Forwarder : \A e \in pit[f] : WellFormed(f, e)

(* Messages of and for the hosts, and interests outside the tunnels. *)
FromConsumer(m) ==
  m.from \in Consumer =>
    /\ m.kind = "Interest" /\ m.to = Home[m.from]
    /\ m.packet.name \in Name /\ m.packet.name \in asked[m.from]

ToConsumer(m) ==
  m.to \in Consumer =>
    m.kind = "Content" /\ m.packet.name \in Name /\ m.packet.name \in asked[m.to]

InTunnel(m) == <<m.from, m.to>> \in TunnelLinks => m.packet.name \in Outer

NotPrivate(m) ==
  m.kind = "Interest" /\ m.to \in Forwarder /\ m.packet.name \in Name =>
    ~TunnelledTo(m.packet.name, m.to)

(* A pending interest and the links that wait for it. *)
LinksFit(f, e) ==
  /\ IsPlain(e) => ~TunnelledTo(e.name, f)
  /\ \A l \in e.links : <<l, f>> \in TunnelLinks => e.original \in Outer
  /\ \A l \in e.links \cap Consumer : e.original \in Name /\ e.original \in asked[l]

(* What is under the name of a pending interest that went into a tunnel is *)
(* what was asked for: in packets, where the tunnel ends, and no interest  *)
(* under that name comes back.                                             *)
Carries(e, p) == p.name = e.name => p.inner = e.original

Opens(e, d) == d.original = e.name /\ d.name \in Name => d.name = e.original

Rank(t) == CHOOSE rank \in [Forwarder -> 0..Cardinality(Forwarder)] : Nearer(t, rank)

Ahead(f, e, m) ==
  m.kind = "Interest" /\ m.to \in Forwarder /\ m.packet.name = e.name =>
    Rank(e.name.to)[m.to] < Rank(e.name.to)[f]

Tied(f, e) ==
  /\ \A m \in net : Carries(e, m.packet) /\ Ahead(f, e, m)
  /\ \A g \in Forwarder : \A p \in store[g] : Carries(e, p)
  /\ \A g \in Forwarder : \A d \in pit[g] : Opens(e, d)

TunnelInv ==
  /\ FormInv
  /\ \A c \in Consumer : asked[c] \subseteq Wanted[c]
  /\ \A m \in net : FromConsumer(m) /\ ToConsumer(m) /\ InTunnel(m) /\ NotPrivate(m)
  /\ \A f \in Forwarder : \A e \in pit[f] : LinksFit(f, e)
  /\ \A f \in Forwarder : \A e \in pit[f] : EntersTunnel(f, e) => Tied(f, e)

(***************************************************************************)
(* Types                                                                   *)
(***************************************************************************)

(* What a lookup returns is part of the route there is for the name.       *)
LEMMA LookupFinds ==
  ASSUME NEW f \in Forwarder, NEW n \in Name \cup Outer, NEW l
  PROVE  /\ Lookup(f, n, l) \in Route
         /\ Lookup(f, n, l).to # None =>
              n \in Name /\ Routes[f][n] # None /\ Lookup(f, n, l) = Routes[f][n]
         /\ Lookup(f, n, l).links # {} =>
              /\ Routes[f][Prefix(n)] # None
              /\ Lookup(f, n, l).links \subseteq Routes[f][Prefix(n)].links
              /\ Lookup(f, n, l).to = None =>
                   Routes[f][Prefix(n)].to = None \/ l \in Routes[f][Prefix(n)].links
<1> DEFINE r == Routes[f][Prefix(n)]
<1>1. Prefix(n) \in Name \cup Forwarder /\ (n \notin Name => Prefix(n) \in Forwarder)
  BY InstanceAssumption DEF Prefix, Outer
<1>2. r \in Route \cup {None}
  BY <1>1, InstanceAssumption
<1>3. n \in Name => Prefix(n) = n
  BY InstanceAssumption DEF Prefix
<1>4. n \notin Name /\ r # None => r.to = None
  BY <1>1, InstanceAssumption
<1>5. CASE r = None
  <2>1. Lookup(f, n, l) = [links |-> {}, to |-> None]
    BY <1>5 DEF Lookup
  <2>2. QED
    BY <2>1 DEF Route
<1>6. CASE r # None /\ l \in r.links
  <2>1. Lookup(f, n, l) = [links |-> r.links \ {l}, to |-> None]
    BY <1>6 DEF Lookup
  <2>2. QED
    BY <2>1, <1>2, <1>6 DEF Route
<1>7. CASE r # None /\ l \notin r.links
  <2>1. Lookup(f, n, l) = r
    BY <1>7 DEF Lookup
  <2>2. QED
    BY <2>1, <1>2, <1>3, <1>4, <1>7
<1>8. QED
  BY <1>5, <1>6, <1>7

LEMMA DecapsulatedTyped ==
  ASSUME NEW m \in Message
  PROVE  /\ Decapsulated(m) \in Packet
         /\ NotHollow(m.packet) => NotHollow(Decapsulated(m))
         /\ SealedKey(m) \in Key \cup {None}
<1>1. m.packet \in Packet
  BY DEF Message
<1>2. CASE ForUs(m)
  BY <1>1, <1>2 DEF ForUs, Decapsulated, SealedKey, Plain, NotHollow, Packet
<1>3. CASE ~ForUs(m)
  BY <1>1, <1>3 DEF Decapsulated, SealedKey
<1>4. QED
  BY <1>2, <1>3

(* What an interest goes on as, in the three cases: through the tunnel, as *)
(* what came out of it, and as it came.                                    *)
LEMMA OutgoingTyped ==
  ASSUME NEW m \in Message, NotHollow(m.packet), m.to \in Forwarder, NEW out \in Outgoing(m)
  PROVE  /\ out.packet \in Packet /\ NotHollow(out.packet)
         /\ out.key \in Key \cup {None}
         /\ RouteOf(m) \in Route
<1>1. Decapsulated(m) \in Packet /\ NotHollow(Decapsulated(m)) /\ SealedKey(m) \in Key \cup {None}
  BY DecapsulatedTyped
<1>2. Decapsulated(m).name \in Name \cup Outer /\ m.from \in Node
  BY <1>1 DEF Packet, Message
<1>3. RouteOf(m) \in Route
  BY <1>2, LookupFinds DEF RouteOf
<1>4. CASE RouteOf(m).to = None
  BY <1>1, <1>3, <1>4 DEF Outgoing
<1>5. CASE RouteOf(m).to # None
  <2>1. PICK k \in FreshKeys :
          out = [packet |-> Sealed([to |-> RouteOf(m).to, id |-> k], Decapsulated(m).name, k), key |-> k]
    BY <1>5 DEF Outgoing
  <2>2. k \in Key /\ RouteOf(m).to \in Forwarder
    BY <2>1, <1>3, <1>5 DEF FreshKeys, FreeKeys, Route
  <2>3. Decapsulated(m).name # None
    BY <1>2, InstanceAssumption
  <2>4. QED
    BY <2>1, <2>2, <2>3, <1>2, <1>3 DEF Sealed, Packet, Outer, NotHollow
<1>6. QED
  BY <1>4, <1>5

LEMMA SentTyped ==
  ASSUME NEW kind \in {"Interest", "Content"}, NEW from \in Node,
         NEW links, links \subseteq Node, NEW p \in Packet
  PROVE  /\ Sent(kind, from, links, p) \subseteq Message
         /\ \A m \in Sent(kind, from, links, p) : m.packet = p
  BY DEF Sent, Message

LEMMA ReturnedTyped ==
  ASSUME NEW m \in Message, NotHollow(m.packet), NEW e \in PITEntry, NEW p \in Returned(m, e)
  PROVE  p \in Packet /\ NotHollow(p)
<1>1. m.packet \in Packet /\ m.packet.name # None
  BY InstanceAssumption DEF Message, Packet
<1>2. CASE e.key = None
  BY <1>1, <1>2 DEF Returned
<1>3. CASE e.key # None /\ Encrypts(m.to, e)
  BY <1>1, <1>3 DEF Returned, Encrypts, Sealed, Packet, PITEntry, NotHollow
<1>4. CASE e.key # None /\ ~Encrypts(m.to, e)
  <2>1. p = Plain(m.packet.inner) /\ m.packet.key = e.key
    BY <1>4 DEF Returned
  <2>2. QED
    BY <2>1, <1>1, <1>4 DEF Plain, Packet, NotHollow
<1>5. QED
  BY <1>2, <1>3, <1>4

LEMMA TypeInit == Init => TypeInv
  BY InstanceAssumption DEF Init, TypeInv, TypeOK

LEMMA TypeNext == TypeInv /\ [Next]_vars => TypeInv'
<1> SUFFICES ASSUME TypeInv, [Next]_vars
             PROVE  TypeInv'
  OBVIOUS
<1> USE DEF TypeInv, TypeOK
<1>1. ASSUME NEW m \in net, AnswerFromStore(m)
      PROVE  TypeInv'
  <2>1. PICK p \in Stored(m) : net' = (net \ {m}) \cup Sent("Content", m.to, {m.from}, p)
    BY <1>1 DEF AnswerFromStore
  <2>2. m \in Message /\ m.to \in Forwarder /\ m.to \in Node /\ {m.from} \subseteq Node
    BY <1>1 DEF AnswerFromStore, Received, Message
  <2>3. p \in Packet /\ NotHollow(p)
    BY <2>2 DEF Stored
  <2>4. QED
    BY <2>1, <2>2, <2>3, <1>1, SentTyped DEF AnswerFromStore
<1>2. ASSUME NEW m \in net, NoRoute(m)
      PROVE  TypeInv'
  BY <1>2 DEF NoRoute
<1>3. ASSUME NEW m \in net, Forward(m)
      PROVE  TypeInv'
  <2>1. PICK out \in Outgoing(m) :
          /\ NewEntry(m, out) \/ SameLink(m, out)
          /\ Forgotten(out)
          /\ net' = (net \ {m}) \cup Sent("Interest", m.to, RouteOf(m).links, out.packet)
    BY <1>3 DEF Forward
  <2>2. m \in Message /\ m.to \in Forwarder /\ m.to \in Node /\ m.from \in Node
    BY <1>3 DEF Forward, Received, Message
  <2>3. /\ out.packet \in Packet /\ NotHollow(out.packet)
        /\ out.key \in Key \cup {None} /\ RouteOf(m) \in Route
    BY <2>2, OutgoingTyped
  <2>4. RouteOf(m).links \subseteq Node
    BY <2>3 DEF Route
  <2>5. net' \subseteq Message /\ \A n \in net' : NotHollow(n.packet)
    BY <2>1, <2>2, <2>3, <2>4, SentTyped
  <2>6. pit' \in [Forwarder -> SUBSET PITEntry]
    <3>1. out.packet.name \in Name \cup Outer /\ m.packet.name \in Name \cup Outer
      BY <2>2, <2>3 DEF Packet, Message
    <3>2. [name |-> out.packet.name, links |-> {m.from},
           original |-> m.packet.name, key |-> out.key] \in PITEntry
      BY <2>2, <2>3, <3>1 DEF PITEntry
    <3>3. CASE NewEntry(m, out)
      BY <3>3, <2>2, <3>2 DEF NewEntry
    <3>4. CASE SameLink(m, out)
      BY <3>4 DEF SameLink
    <3>5. QED
      BY <2>1, <3>3, <3>4
  <2>7. /\ store' \in [Forwarder -> SUBSET Packet]
        /\ \A f \in Forwarder : store'[f] \subseteq store[f]
    BY <2>1 DEF Forgotten
  <2>8. QED
    BY <2>5, <2>6, <2>7, <1>3 DEF Forward
<1>4. ASSUME NEW m \in net, Aggregate(m)
      PROVE  TypeInv'
  <2>1. PICK e \in pit[m.to] :
          pit' = [pit EXCEPT ![m.to] = (@ \ {e}) \cup {[e EXCEPT !.links = @ \cup {m.from}]}]
    BY <1>4 DEF Aggregate
  <2>2. m.to \in Forwarder /\ m.from \in Node
    BY <1>4 DEF Aggregate, Received, Message
  <2>3. e \in PITEntry
    BY <2>2
  <2>4. [e EXCEPT !.links = @ \cup {m.from}] \in PITEntry
    BY <2>2, <2>3 DEF PITEntry
  <2>5. QED
    BY <2>1, <2>2, <2>4, <1>4 DEF Aggregate
<1>5. ASSUME NEW m \in net, DropUnasked(m)
      PROVE  TypeInv'
  BY <1>5 DEF DropUnasked
<1>6. ASSUME NEW m \in net, ReturnContent(m)
      PROVE  TypeInv'
  <2>1. PICK e \in Pending(m) : \E kept \in SUBSET Returned(m, e) :
          /\ pit' = [pit EXCEPT ![m.to] = @ \ {e}]
          /\ store' = [store EXCEPT ![m.to] =
                          {q \in @ : \A p \in Returned(m, e) : q.name # p.name} \cup kept]
          /\ net' = (net \ {m}) \cup
                       UNION {Sent("Content", m.to, e.links, p) : p \in Returned(m, e)}
    BY <1>6 DEF ReturnContent
  <2>2. m \in Message /\ m.to \in Forwarder /\ m.to \in Node
    BY <1>6 DEF ReturnContent, Received, Message
  <2>3. e \in PITEntry /\ e.links \subseteq Node
    BY <2>2 DEF Pending, PITEntry
  <2>4. \A p \in Returned(m, e) : p \in Packet /\ NotHollow(p)
    BY <2>2, <2>3, ReturnedTyped
  <2>5. \A p \in Returned(m, e) : Sent("Content", m.to, e.links, p) \subseteq Message
                              /\ \A n \in Sent("Content", m.to, e.links, p) : n.packet = p
    BY <2>2, <2>3, <2>4, SentTyped
  <2>6. net' \subseteq Message /\ \A n \in net' : NotHollow(n.packet)
    BY <2>1, <2>4, <2>5
  <2>7. pit' \in [Forwarder -> SUBSET PITEntry]
    BY <2>1, <2>2
  <2>8. /\ store' \in [Forwarder -> SUBSET Packet]
        /\ \A f \in Forwarder : \A p \in store'[f] : NotHollow(p)
    BY <2>1, <2>2, <2>4
  <2>9. QED
    BY <2>6, <2>7, <2>8, <1>6 DEF ReturnContent
<1>7. ASSUME NEW m \in net, Answer(m)
      PROVE  TypeInv'
  <2>1. m \in Message /\ m.to \in Node /\ {m.from} \subseteq Node /\ m.packet.name \in Name \cup Outer
    BY DEF Message, Packet
  <2>2. Plain(m.packet.name) \in Packet /\ NotHollow(Plain(m.packet.name))
    BY <2>1 DEF Plain, Packet, NotHollow
  <2>3. QED
    BY <2>1, <2>2, <1>7, SentTyped DEF Answer
<1>8. ASSUME NEW m \in net, Consume(m)
      PROVE  TypeInv'
  <2>1. Waiting(m.to) \subseteq Name
    BY <1>8 DEF Consume, Waiting
  <2>2. got' \in [Consumer -> SUBSET Name]
    BY <2>1, <1>8 DEF Consume
  <2>3. QED
    BY <2>2, <1>8 DEF Consume
<1>9. ASSUME NEW m \in net, Lose(m)
      PROVE  TypeInv'
  BY <1>9, InstanceAssumption DEF Lose
<1>10. ASSUME NEW f \in Forwarder, Evict(f)
       PROVE  TypeInv'
  <2>1. /\ store' \in [Forwarder -> SUBSET Packet]
        /\ \A g \in Forwarder : store'[g] \subseteq store[g]
    BY <1>10 DEF Evict
  <2>2. QED
    BY <2>1, <1>10, InstanceAssumption DEF Evict
<1>11. ASSUME NEW c \in Consumer, NEW n \in Name, Ask(c, n) \/ Resend(c, n) \/ ResendEarly(c, n)
       PROVE  TypeInv'
  <2>1. c \in Node /\ {Home[c]} \subseteq Node
    BY InstanceAssumption DEF Node
  <2>2. Plain(n) \in Packet /\ NotHollow(Plain(n))
    BY DEF Plain, Packet, NotHollow
  <2>3. net' \subseteq net \cup Sent("Interest", c, {Home[c]}, Plain(n))
    BY <1>11 DEF Ask, Resend, ResendEarly
  <2>4. net' \subseteq Message /\ \A m \in net' : NotHollow(m.packet)
    BY <2>1, <2>2, <2>3, SentTyped
  <2>5. QED
    BY <2>4, <1>11, InstanceAssumption DEF Ask, Resend, ResendEarly
<1>12. CASE UNCHANGED vars
  BY <1>12 DEF vars
<1>13. QED
  BY <1>1, <1>2, <1>3, <1>4, <1>5, <1>6, <1>7, <1>8, <1>9, <1>10, <1>11, <1>12 DEF Next, Process

(* Every message, pending interest and cached packet is well formed,       *)
(* whatever the routes, also where one tunnel leads into another.          *)
THEOREM TypeCorrect == Spec => []TypeOK
<1>1. TypeInv => TypeOK
  BY DEF TypeInv
<1>2. QED
  BY TypeInit, TypeNext, <1>1, PTL DEF Spec

(***************************************************************************)
(* The forms of packets and pending interests                              *)
(***************************************************************************)

(* The four ways an interest goes on.                                      *)
GoesPlain(m, out) ==
  /\ m.packet.name \in Name /\ RouteOf(m).to = None
  /\ out = [packet |-> m.packet, key |-> None]

ComesOut(m, out) ==
  /\ m.packet.name \in Outer /\ m.packet.name.to = m.to /\ RouteOf(m).to = None
  /\ TunnelledTo(m.packet.inner, m.to)
  /\ out = [packet |-> Plain(m.packet.inner), key |-> m.packet.name.id]

PassesBy(m, out) ==
  /\ m.packet.name \in Outer /\ m.packet.name.to # m.to /\ RouteOf(m).to = None
  /\ out = [packet |-> m.packet, key |-> None]

GoesIn(m, out) ==
  /\ m.packet.name \in Name /\ RouteOf(m).to # None
  /\ Encapsulates(m.to, m.packet.name, RouteOf(m).to)
  /\ \E k \in FreshKeys :
       out = [packet |-> Sealed([to |-> RouteOf(m).to, id |-> k], m.packet.name, k), key |-> k]

LEMMA OutgoingForms ==
  ASSUME TunnelsEnd, TypeInv, NEW m \in net, WellSealed(m.packet), m.to \in Forwarder, NEW out \in Outgoing(m)
  PROVE  /\ GoesPlain(m, out) \/ ComesOut(m, out) \/ PassesBy(m, out) \/ GoesIn(m, out)
         /\ m.packet.name \in Outer => m.packet.inner \in Name
         /\ m.packet.name \in Name => m.packet = Plain(m.packet.name)
         /\ WellSealed(out.packet)
<1> DEFINE n == Decapsulated(m).name
<1>1. m \in Message /\ m.packet.name \in Name \cup Outer /\ m.from \in Node
  BY DEF TypeInv, TypeOK, Message, Packet
<1>2. n \in Name \cup Outer
  BY <1>1, DecapsulatedTyped DEF Packet
<1>3. /\ RouteOf(m) \in Route
      /\ RouteOf(m).to # None => n \in Name /\ Encapsulates(m.to, n, RouteOf(m).to)
  BY <1>1, <1>2, LookupFinds DEF RouteOf, Encapsulates
<1>4. m.packet.name \in Name => m.packet = Plain(m.packet.name) /\ m.packet.name \notin Outer
  BY InstanceAssumption DEF WellSealed
<1>5. m.packet.name \in Outer => /\ m.packet.inner \in Name /\ m.packet.inner # None
                                /\ m.packet.key = m.packet.name.id
                                /\ TunnelledTo(m.packet.inner, m.packet.name.to)
  BY InstanceAssumption DEF WellSealed
<1>6. CASE m.packet.name \in Outer /\ m.packet.name.to = m.to
  <2>1. ForUs(m) /\ Decapsulated(m) = Plain(m.packet.inner) /\ SealedKey(m) = m.packet.name.id
    BY <1>5, <1>6 DEF ForUs, Decapsulated, SealedKey
  <2>2. n = m.packet.inner
    BY <2>1 DEF Plain
  <2>3. RouteOf(m).to = None
    <3>1. CASE RouteOf(m).to # None
      <4>1. Encapsulates(m.to, n, RouteOf(m).to) /\ RouteOf(m).to \in Forwarder
        BY <1>3, <3>1 DEF Route
      <4>2. QED
        BY <4>1, <2>2, <1>5, <1>6 DEF TunnelsEnd
    <3>2. QED
      BY <3>1
  <2>4. out = [packet |-> Plain(m.packet.inner), key |-> m.packet.name.id]
    BY <2>1, <2>3 DEF Outgoing
  <2>5. WellSealed(out.packet)
    BY <2>4, <1>5, <1>6, InstanceAssumption DEF WellSealed, Plain
  <2>6. ComesOut(m, out)
    BY <2>3, <2>4, <1>5, <1>6 DEF ComesOut
  <2>7. QED
    BY <2>5, <2>6, <1>4, <1>5
<1>7. CASE m.packet.name \in Outer /\ m.packet.name.to # m.to
  <2>1. Decapsulated(m) = m.packet /\ SealedKey(m) = None /\ n = m.packet.name
    BY <1>7 DEF ForUs, Decapsulated, SealedKey
  <2>2. RouteOf(m).to = None
    BY <2>1, <1>3, <1>7, InstanceAssumption
  <2>3. out = [packet |-> m.packet, key |-> None]
    BY <2>1, <2>2 DEF Outgoing
  <2>4. PassesBy(m, out)
    BY <2>2, <2>3, <1>7 DEF PassesBy
  <2>5. QED
    BY <2>3, <2>4, <1>4, <1>5
<1>8. CASE m.packet.name \in Name
  <2>1. Decapsulated(m) = m.packet /\ SealedKey(m) = None /\ n = m.packet.name
    BY <1>4, <1>8 DEF ForUs, Decapsulated, SealedKey
  <2>2. CASE RouteOf(m).to = None
    <3>1. out = [packet |-> m.packet, key |-> None]
      BY <2>1, <2>2 DEF Outgoing
    <3>2. GoesPlain(m, out)
      BY <3>1, <2>2, <1>8 DEF GoesPlain
    <3>3. QED
      BY <3>1, <3>2, <1>4, <1>5
  <2>3. CASE RouteOf(m).to # None
    <3>1. PICK k \in FreshKeys :
            out = [packet |-> Sealed([to |-> RouteOf(m).to, id |-> k], m.packet.name, k), key |-> k]
      BY <2>1, <2>3 DEF Outgoing
    <3>2. Encapsulates(m.to, m.packet.name, RouteOf(m).to) /\ RouteOf(m).to \in Forwarder /\ k \in Key
      BY <1>3, <2>1, <2>3 DEF Route, FreshKeys, FreeKeys
    <3>3. GoesIn(m, out)
      BY <3>1, <3>2, <2>3, <1>8 DEF GoesIn
    <3>4. WellSealed(out.packet)
      <4>1. TunnelledTo(m.packet.name, RouteOf(m).to)
        BY <3>2 DEF TunnelledTo
      <4>2. QED
        BY <3>1, <3>2, <4>1, <1>8 DEF WellSealed, Sealed, Outer
    <3>5. QED
      BY <3>3, <3>4, <1>4, <1>5
  <2>4. QED
    BY <2>2, <2>3
<1>9. QED
  BY <1>1, <1>6, <1>7, <1>8

(* What goes back for each kind of pending interest.                       *)
LEMMA ReturnedForms ==
  ASSUME TypeInv, NEW m \in net, WellSealed(m.packet), m.to \in Forwarder,
         NEW e \in Pending(m), WellFormed(m.to, e), NEW p \in Returned(m, e)
  PROVE  /\ IsPlain(e) \/ PassesOn(m.to, e) => p = m.packet
         /\ LeavesTunnel(m.to, e) => p = Sealed(e.original, e.name, e.key)
         /\ EntersTunnel(m.to, e) => m.packet.inner \in Name /\ p = Plain(m.packet.inner)
         /\ WellSealed(p)
<1>1. m.packet.name = e.name /\ e \in PITEntry
  BY DEF Pending, TypeInv, TypeOK
<1>2. m.packet.name \in Outer => m.packet.inner \in Name
  BY DEF WellSealed
<1>3. e.original \in Outer => e.original.id \in Key /\ e.original.id # None
  BY InstanceAssumption DEF Outer
<1>4. e.name \in Outer => e.name.id \in Key /\ e.name.id # None
  BY InstanceAssumption DEF Outer
<1>5. CASE IsPlain(e) \/ PassesOn(m.to, e)
  <2>1. p = m.packet
    BY <1>5 DEF IsPlain, PassesOn, Returned
  <2>2. ~LeavesTunnel(m.to, e) /\ ~EntersTunnel(m.to, e)
    BY <1>3, <1>4, <1>5, InstanceAssumption DEF IsPlain, PassesOn, LeavesTunnel, EntersTunnel
  <2>3. QED
    BY <2>1, <2>2
<1>6. CASE LeavesTunnel(m.to, e)
  <2>1. p = Sealed(e.original, e.name, e.key)
    BY <1>1, <1>3, <1>6 DEF LeavesTunnel, Returned, Encrypts
  <2>2. WellSealed(p)
    BY <2>1, <1>6 DEF LeavesTunnel, WellSealed, Sealed
  <2>3. ~IsPlain(e) /\ ~PassesOn(m.to, e) /\ ~EntersTunnel(m.to, e)
    BY <1>6, <1>3, InstanceAssumption DEF IsPlain, PassesOn, LeavesTunnel, EntersTunnel
  <2>4. QED
    BY <2>1, <2>2, <2>3
<1>7. CASE EntersTunnel(m.to, e)
  <2>1. p = Plain(m.packet.inner) /\ m.packet.inner \in Name
    BY <1>1, <1>2, <1>4, <1>7, InstanceAssumption DEF EntersTunnel, Returned, Encrypts
  <2>2. WellSealed(p)
    BY <2>1, InstanceAssumption DEF WellSealed, Plain
  <2>3. ~IsPlain(e) /\ ~PassesOn(m.to, e) /\ ~LeavesTunnel(m.to, e)
    BY <1>7, <1>4, InstanceAssumption DEF IsPlain, PassesOn, LeavesTunnel, EntersTunnel
  <2>4. QED
    BY <2>1, <2>2, <2>3
<1>8. QED
  BY <1>5, <1>6, <1>7 DEF WellFormed

(* Where an interest goes on to. *)
LEMMA EgressLinks ==
  ASSUME RoutesToGateways, TunnelsEnd, TypeInv, NEW m \in net, WellSealed(m.packet), m.to \in Forwarder,
         NEW out \in Outgoing(m), NEW l \in RouteOf(m).links
  PROVE  /\ l \in Node /\ l \notin Consumer
         /\ out.packet.name \in Name \/ l \in Forwarder
         /\ PassesBy(m, out) \/ GoesIn(m, out) => l \in Onward(m.to, out.packet.name.to)
         /\ GoesPlain(m, out) \/ ComesOut(m, out) =>
              LET r == Routes[m.to][out.packet.name]
              IN r # None /\ l \in r.links /\ (r.to = None \/ m.from \in r.links)
<1> DEFINE n == Decapsulated(m).name
           r == Routes[m.to][Prefix(n)]
<1>1. m \in Message /\ m.packet.name \in Name \cup Outer
  BY DEF TypeInv, TypeOK, Message, Packet
<1>2. n \in Name \cup Outer
  BY <1>1, DecapsulatedTyped DEF Packet
<1>3. /\ RouteOf(m) \in Route
      /\ RouteOf(m).to # None => n \in Name /\ Routes[m.to][n] # None /\ RouteOf(m) = Routes[m.to][n]
      /\ r # None /\ l \in r.links
      /\ RouteOf(m).to = None => r.to = None \/ m.from \in r.links
  BY <1>2, LookupFinds DEF RouteOf
<1>4. l \in Node
  BY <1>3 DEF Route
<1>5. /\ n \in Name => Prefix(n) = n
      /\ n \in Outer => Prefix(n) = n.to /\ n.to \in Forwarder
  BY InstanceAssumption DEF Prefix, Outer
<1>6. Prefix(n) \in Name \cup Forwarder
  BY <1>2, <1>5
<1>7. l \notin Consumer /\ (Prefix(n) \in Forwarder \/ r.to # None => l \in Forwarder)
  BY <1>3, <1>6 DEF RoutesToGateways
<1>8. CASE GoesPlain(m, out)
  <2>1. n = m.packet.name /\ m.packet.name \notin Outer /\ out.packet.name = n /\ RouteOf(m).to = None
    BY <1>8, InstanceAssumption DEF GoesPlain, Decapsulated, ForUs
  <2>2. ~PassesBy(m, out) /\ ~GoesIn(m, out)
    <3>1. out.packet.name \notin Outer
      BY <2>1
    <3>2. ~PassesBy(m, out)
      BY <2>1 DEF PassesBy
    <3>3. ~GoesIn(m, out)
      BY <2>1 DEF GoesIn
    <3>4. QED
      BY <3>2, <3>3
  <2>3. QED
    BY <2>1, <2>2, <1>3, <1>4, <1>5, <1>7, <1>8 DEF GoesPlain
<1>9. CASE ComesOut(m, out)
  <2>1. m.packet.name \notin Name /\ m.packet.inner \in Name /\ m.packet.inner # None
    BY <1>9, OutgoingForms, InstanceAssumption DEF ComesOut
  <2>2. n = m.packet.inner /\ out.packet.name = n /\ RouteOf(m).to = None /\ m.packet.name.to = m.to
    BY <1>9, <2>1 DEF ComesOut, Decapsulated, ForUs, Plain
  <2>3. ~PassesBy(m, out) /\ ~GoesIn(m, out)
    BY <2>1, <2>2 DEF PassesBy, GoesIn
  <2>4. QED
    BY <2>1, <2>2, <2>3, <1>3, <1>4, <1>5, <1>7
<1>10. CASE PassesBy(m, out)
  <2>1. n = m.packet.name /\ out.packet.name = n /\ n \in Outer
    BY <1>10 DEF PassesBy, Decapsulated, ForUs
  <2>2. l \in Forwarder /\ Prefix(n) = out.packet.name.to
    BY <2>1, <1>5, <1>7
  <2>3. l \in Onward(m.to, out.packet.name.to)
    BY <2>2, <1>3 DEF Onward
  <2>4. ~GoesPlain(m, out) /\ ~ComesOut(m, out)
    BY <1>10, InstanceAssumption DEF PassesBy, GoesPlain, ComesOut
  <2>5. QED
    BY <2>2, <2>3, <2>4, <1>4, <1>7
<1>11. CASE GoesIn(m, out)
  <2>1. n = m.packet.name /\ n \in Name /\ n \notin Outer
    BY <1>11, InstanceAssumption DEF GoesIn, Decapsulated, ForUs
  <2>2. out.packet.name.to = RouteOf(m).to /\ out.packet.name # n
    <3>1. PICK k \in FreshKeys : out.packet.name = [to |-> RouteOf(m).to, id |-> k]
      BY <1>11 DEF GoesIn, Sealed
    <3>2. RouteOf(m).to \in Forwarder /\ k \in Key
      BY <3>1, <1>3, <1>11 DEF GoesIn, Route, FreshKeys, FreeKeys
    <3>3. QED
      BY <3>1, <3>2, <2>1 DEF Outer
  <2>3. r.to = RouteOf(m).to /\ r.to # None
    BY <2>1, <1>5, <1>11 DEF GoesIn, Encapsulates
  <2>4. l \in Forwarder /\ l \in Onward(m.to, out.packet.name.to)
    BY <2>1, <2>2, <2>3, <1>3, <1>5, <1>7 DEF Onward
  <2>5. ~GoesPlain(m, out) /\ ~ComesOut(m, out)
    BY <2>1, <2>2, <1>11, InstanceAssumption DEF GoesPlain, ComesOut
  <2>6. QED
    BY <2>4, <2>5, <1>4, <1>7
<1>12. GoesPlain(m, out) \/ ComesOut(m, out) \/ PassesBy(m, out) \/ GoesIn(m, out)
  BY OutgoingForms
<1>13. QED
  BY <1>8, <1>9, <1>10, <1>11, <1>12

FormHypotheses == RoutesToGateways /\ TunnelsEnd

LEMMA FormInit == Init => FormInv
  BY TypeInit DEF Init, FormInv

(* A pending interest takes the form of the interest it waits for.         *)
LEMMA NewEntryForms ==
  ASSUME FormHypotheses, FormInv, NEW m \in net, m.to \in Forwarder, NEW out \in Outgoing(m), NEW e,
         e.name = out.packet.name, e.original = m.packet.name, e.key = out.key
  PROVE  /\ GoesPlain(m, out) => IsPlain(e)
         /\ ComesOut(m, out) => LeavesTunnel(m.to, e)
         /\ PassesBy(m, out) => PassesOn(m.to, e)
         /\ GoesIn(m, out) => EntersTunnel(m.to, e)
         /\ WellFormed(m.to, e)
<1>1. m.packet.name \in Outer => m.packet.inner \in Name /\ m.packet.key = m.packet.name.id
  BY DEF FormInv, WellSealed
<1>2. GoesPlain(m, out) => IsPlain(e)
  BY DEF GoesPlain, IsPlain
<1>3. ComesOut(m, out) => LeavesTunnel(m.to, e)
  BY <1>1 DEF ComesOut, LeavesTunnel, Plain
<1>4. PassesBy(m, out) => PassesOn(m.to, e)
  BY DEF PassesBy, PassesOn
<1>5. GoesIn(m, out) => EntersTunnel(m.to, e)
  <2>1. HAVE GoesIn(m, out)
  <2>2. PICK k \in FreshKeys :
          out = [packet |-> Sealed([to |-> RouteOf(m).to, id |-> k], m.packet.name, k), key |-> k]
    BY <2>1 DEF GoesIn
  <2>3. k \in Key
    BY DEF FreshKeys, FreeKeys
  <2>4. m.from \in Node /\ Decapsulated(m).name \in Name \cup Outer
    <3>1. m \in Message
      BY DEF FormInv, TypeInv, TypeOK
    <3>2. QED
      BY <3>1, DecapsulatedTyped DEF Message, Packet
  <2>5. RouteOf(m).to \in Forwarder
    BY <2>1, <2>4, LookupFinds DEF GoesIn, RouteOf, Route
  <2>6. QED
    BY <2>1, <2>2, <2>3, <2>5 DEF GoesIn, EntersTunnel, Sealed, Outer
<1>6. QED
  BY <1>2, <1>3, <1>4, <1>5, OutgoingForms DEF WellFormed, FormInv, FormHypotheses

LEMMA FormNext == FormHypotheses /\ FormInv /\ [Next]_vars => FormInv'
<1> SUFFICES ASSUME FormHypotheses, FormInv, [Next]_vars
             PROVE  FormInv'
  OBVIOUS
<1>0. TypeInv /\ TypeInv'
  BY TypeNext DEF FormInv
<1> DEFINE Good(m) == WellSealed(m.packet) /\ (m.kind = "Interest" /\ m.to \in Producer => m.packet.name \in Name)
<1>a. \A m \in net : Good(m)
  BY DEF FormInv
<1>b. ASSUME \A m \in net' : Good(m),
             \A f \in Forwarder : \A p \in store'[f] : WellSealed(p),
             \A f \in Forwarder : \A e \in pit'[f] : WellFormed(f, e)
      PROVE  FormInv'
  BY <1>0, <1>b DEF FormInv, WellSealed, WellFormed, IsPlain, LeavesTunnel, PassesOn, EntersTunnel
<1> HIDE DEF Good
<1>1. ASSUME NEW m \in net, AnswerFromStore(m)
      PROVE  FormInv'
  <2>1. PICK p \in store[m.to] : net' = (net \ {m}) \cup Sent("Content", m.to, {m.from}, p)
    BY <1>1 DEF AnswerFromStore, Stored
  <2>2. WellSealed(p)
    BY <1>1 DEF FormInv, AnswerFromStore, Received
  <2>3. \A n \in net' : Good(n)
    BY <2>1, <2>2, <1>a DEF Sent, Good
  <2>4. QED
    BY <2>3, <1>b, <1>1 DEF AnswerFromStore, FormInv
<1>2. ASSUME NEW m \in net, NoRoute(m) \/ DropUnasked(m) \/ Consume(m) \/ Lose(m)
      PROVE  FormInv'
  BY <1>2, <1>a, <1>b DEF NoRoute, DropUnasked, Consume, Lose, FormInv
<1>3. ASSUME NEW m \in net, Forward(m)
      PROVE  FormInv'
  <2>1. PICK out \in Outgoing(m) :
          /\ NewEntry(m, out) \/ SameLink(m, out)
          /\ Forgotten(out)
          /\ net' = (net \ {m}) \cup Sent("Interest", m.to, RouteOf(m).links, out.packet)
    BY <1>3 DEF Forward
  <2>2. m.to \in Forwarder /\ WellSealed(m.packet)
    BY <1>3 DEF Forward, Received, FormInv
  <2>3. WellSealed(out.packet)
    BY <2>2, <1>0, OutgoingForms DEF FormHypotheses
  <2>4. \A l \in RouteOf(m).links : l \in Producer => out.packet.name \in Name
    BY <2>2, <1>0, EgressLinks, InstanceAssumption DEF FormHypotheses
  <2>5. \A n \in net' : Good(n)
    BY <2>1, <2>3, <2>4, <1>a DEF Sent, Good
  <2>6. \A f \in Forwarder : \A p \in store'[f] : WellSealed(p)
    BY <2>1, <1>0 DEF Forgotten, FormInv, TypeInv, TypeOK
  <2>7. \A f \in Forwarder : \A e \in pit'[f] : WellFormed(f, e)
    <3>1. CASE NewEntry(m, out)
      <4> DEFINE new == [name |-> out.packet.name, links |-> {m.from},
                         original |-> m.packet.name, key |-> out.key]
      <4>1. WellFormed(m.to, new)
        BY <2>2, NewEntryForms
      <4>2. \A f \in Forwarder : pit'[f] \subseteq pit[f] \cup (IF f = m.to THEN {new} ELSE {})
        BY <3>1, <1>0, <2>2 DEF NewEntry, TypeInv, TypeOK
      <4>3. QED
        BY <4>1, <4>2 DEF FormInv
    <3>2. CASE SameLink(m, out)
      BY <3>2 DEF SameLink, FormInv
    <3>3. QED
      BY <2>1, <3>1, <3>2
  <2>8. QED
    BY <2>5, <2>6, <2>7, <1>b
<1>4. ASSUME NEW m \in net, Aggregate(m)
      PROVE  FormInv'
  <2>1. PICK e \in pit[m.to] :
          pit' = [pit EXCEPT ![m.to] = (@ \ {e}) \cup {[e EXCEPT !.links = @ \cup {m.from}]}]
    BY <1>4 DEF Aggregate
  <2>2. m.to \in Forwarder
    BY <1>4 DEF Aggregate, Received
  <2>3. e \in PITEntry /\ WellFormed(m.to, e)
    BY <1>0, <2>2 DEF TypeInv, TypeOK, FormInv
  <2> DEFINE joined == [e EXCEPT !.links = @ \cup {m.from}]
  <2>4. joined.name = e.name /\ joined.original = e.original /\ joined.key = e.key
    BY <2>3 DEF PITEntry
  <2>5. WellFormed(m.to, joined)
    BY <2>3, <2>4 DEF WellFormed, IsPlain, LeavesTunnel, PassesOn, EntersTunnel
  <2>6. \A f \in Forwarder : pit'[f] \subseteq pit[f] \cup (IF f = m.to THEN {joined} ELSE {})
    BY <2>1, <1>0, <2>2 DEF TypeInv, TypeOK
  <2>7. \A f \in Forwarder : \A d \in pit'[f] : WellFormed(f, d)
    <3> HIDE DEF joined
    <3>1. QED
      BY <2>5, <2>6 DEF FormInv
  <2>8. (\A n \in net' : Good(n)) /\ store' = store
    BY <1>4, <1>a DEF Aggregate
  <2>9. QED
    BY <2>7, <2>8, <1>b DEF FormInv
<1>5. ASSUME NEW m \in net, ReturnContent(m)
      PROVE  FormInv'
  <2>1. PICK e \in Pending(m) : \E kept \in SUBSET Returned(m, e) :
          /\ pit' = [pit EXCEPT ![m.to] = @ \ {e}]
          /\ store' = [store EXCEPT ![m.to] =
                          {q \in @ : \A p \in Returned(m, e) : q.name # p.name} \cup kept]
          /\ net' = (net \ {m}) \cup
                       UNION {Sent("Content", m.to, e.links, p) : p \in Returned(m, e)}
    BY <1>5 DEF ReturnContent
  <2>2. m.to \in Forwarder /\ WellSealed(m.packet) /\ WellFormed(m.to, e)
    BY <1>5 DEF ReturnContent, Received, FormInv, Pending
  <2>3. \A p \in Returned(m, e) : WellSealed(p)
    BY <2>2, <1>0, ReturnedForms
  <2>4. \A n \in net' : n \in net \/ (n.kind = "Content" /\ n.packet \in Returned(m, e))
    BY <2>1 DEF Sent
  <2>5. \A n \in net' : Good(n)
    BY <2>3, <2>4, <1>a DEF Good
  <2>6. \A f \in Forwarder : \A p \in store'[f] : p \in store[f] \/ p \in Returned(m, e)
    BY <2>1, <1>0, <2>2 DEF TypeInv, TypeOK
  <2>7. \A f \in Forwarder : pit'[f] \subseteq pit[f]
    BY <2>1, <1>0, <2>2 DEF TypeInv, TypeOK
  <2>8. QED
    BY <2>3, <2>5, <2>6, <2>7, <1>b DEF FormInv
<1>6. ASSUME NEW m \in net, Answer(m)
      PROVE  FormInv'
  <2>1. m.packet.name \in Name
    BY <1>6 DEF Answer, FormInv
  <2>2. WellSealed(Plain(m.packet.name))
    BY <2>1, InstanceAssumption DEF WellSealed, Plain
  <2>3. \A n \in net' : Good(n)
    BY <2>2, <1>6, <1>a DEF Answer, Sent, Good
  <2>4. QED
    BY <2>3, <1>6, <1>b DEF Answer, FormInv
<1>7. ASSUME NEW f \in Forwarder, Evict(f)
      PROVE  FormInv'
  <2>1. \A g \in Forwarder : store'[g] \subseteq store[g]
    BY <1>7, <1>0 DEF Evict, TypeInv, TypeOK
  <2>2. QED
    BY <2>1, <1>7, <1>a, <1>b DEF Evict, FormInv
<1>8. ASSUME NEW c \in Consumer, NEW n \in Name, Ask(c, n) \/ Resend(c, n) \/ ResendEarly(c, n)
      PROVE  FormInv'
  <2>1. WellSealed(Plain(n)) /\ Plain(n).name \in Name
    BY InstanceAssumption DEF WellSealed, Plain
  <2>2. net' \subseteq net \cup Sent("Interest", c, {Home[c]}, Plain(n))
    BY <1>8 DEF Ask, Resend, ResendEarly
  <2>3. \A m \in net' : Good(m)
    BY <2>1, <2>2, <1>a DEF Sent, Good
  <2>4. QED
    BY <2>3, <1>8, <1>b DEF Ask, Resend, ResendEarly, FormInv
<1>9. CASE UNCHANGED vars
  BY <1>9, <1>a, <1>b DEF vars, FormInv
<1>10. QED
  BY <1>1, <1>2, <1>3, <1>4, <1>5, <1>6, <1>7, <1>8, <1>9 DEF Next, Process

LEMMA FormCorrect == FormHypotheses => (Spec => []FormInv)
<1> SUFFICES ASSUME FormHypotheses
             PROVE  Spec => []FormInv
  OBVIOUS
<1>1. FormInv /\ [Next]_vars => FormInv'
  BY FormNext
<1>2. QED
  BY FormInit, <1>1, PTL DEF Spec

(* What a gateway waits for with a key comes sealed with that key, in any  *)
(* network whose tunnels do not lead into one another and end at           *)
(* gateways: an honest response always decrypts.                           *)
THEOREM KeysAlwaysAgree == RoutesToGateways /\ TunnelsEnd => (Spec => []KeysAgree)
<1>1. FormInv => KeysAgree
  <2> SUFFICES ASSUME FormInv, NEW m \in net, Received(m, "Content"), NEW e \in Pending(m),
                      e.key # None, ~Encrypts(m.to, e)
               PROVE  m.packet.key = e.key
    BY DEF KeysAgree
  <2>1. WellFormed(m.to, e) /\ e.name = m.packet.name /\ WellSealed(m.packet)
    BY DEF Received, Pending, FormInv
  <2>2. EntersTunnel(m.to, e)
    BY <2>1 DEF WellFormed, IsPlain, LeavesTunnel, PassesOn, Encrypts
  <2>3. QED
    BY <2>1, <2>2 DEF EntersTunnel, WellSealed
<1>2. QED
  <2> SUFFICES ASSUME RoutesToGateways /\ TunnelsEnd
               PROVE  Spec => []KeysAgree
    OBVIOUS
  <2>1. Spec => []FormInv
    BY FormCorrect DEF FormHypotheses
  <2>2. QED
    BY <1>1, <2>1, PTL

(***************************************************************************)
(* The two ends of a tunnel                                                *)
(***************************************************************************)

LEMMA TunnelLinkEnds ==
  ASSUME RoutesToGateways, NEW a, NEW b, <<a, b>> \in TunnelLinks
  PROVE  a \in Forwarder /\ b \in Forwarder /\ <<b, a>> \in TunnelLinks
<1>1. a \in Node /\ b \in Node /\ (EncapsulatesOver(a, b) \/ EncapsulatesOver(b, a))
  BY DEF TunnelLinks
<1>2. ASSUME NEW f, NEW l, EncapsulatesOver(f, l)
      PROVE  f \in Forwarder /\ l \in Forwarder
  BY <1>2 DEF EncapsulatesOver, RoutesToGateways
<1>3. QED
  BY <1>1, <1>2 DEF TunnelLinks

LEMMA RankNearer ==
  ASSUME NoCycle, NEW t \in Forwarder
  PROVE  /\ \A f \in Forwarder : Rank(t)[f] \in Nat
         /\ Nearer(t, Rank(t))
<1>1. \E rank \in [Forwarder -> 0..Cardinality(Forwarder)] : Nearer(t, rank)
  BY DEF NoCycle
<1>2. Rank(t) \in [Forwarder -> 0..Cardinality(Forwarder)] /\ Nearer(t, Rank(t))
  BY <1>1 DEF Rank
<1>3. QED
  BY <1>2

(* What goes on in the clear never had a route through a tunnel, though a  *)
(* lookup drops the public name when the ingress is one of the links.      *)
LEMMA NotStripped ==
  ASSUME FormHypotheses, FormInv, NEW m \in net, m.to \in Forwarder, InTunnel(m),
         NEW out \in Outgoing(m), RouteOf(m).links # {}, GoesPlain(m, out) \/ ComesOut(m, out)
  PROVE  out.packet.name \in Name /\ Routes[m.to][out.packet.name].to = None
<1> DEFINE n == out.packet.name
           r == Routes[m.to][n]
<1>1. PICK l \in RouteOf(m).links : TRUE
  OBVIOUS
<1>2. m \in Message /\ TypeInv /\ WellSealed(m.packet)
  BY DEF FormInv, TypeInv, TypeOK
<1>3. r # None /\ l \in r.links /\ (r.to = None \/ m.from \in r.links)
  BY <1>2, EgressLinks DEF FormHypotheses
<1>4. /\ m.packet.name \in Outer => m.packet.inner \in Name
      /\ n \in Name
  BY <1>2 DEF WellSealed, GoesPlain, ComesOut, Plain
<1>5. CASE r.to # None
  <2>1. m.from \in Node /\ m.to \in Node
    BY <1>2 DEF Message
  <2>2. EncapsulatesOver(m.to, m.from)
    BY <1>3, <1>4, <1>5 DEF EncapsulatesOver
  <2>3. m.packet.name \in Outer
    BY <2>1, <2>2 DEF TunnelLinks, InTunnel
  <2>4. ComesOut(m, out)
    BY <2>3, InstanceAssumption DEF GoesPlain
  <2>5. TunnelledTo(n, m.to)
    BY <2>4 DEF ComesOut, Plain
  <2>6. r \in Route
    BY <1>3, <1>4, InstanceAssumption
  <2>7. r.to \in Forwarder /\ Encapsulates(m.to, n, r.to)
    BY <1>3, <1>5, <2>6 DEF Route, Encapsulates
  <2>8. QED
    BY <2>5, <2>7, <1>4 DEF FormHypotheses, TunnelsEnd
<1>6. QED
  BY <1>4, <1>5

(* A step that adds no pending interest at the entry of a tunnel keeps the *)
(* two ends tied when all it adds fits those there are.                    *)
LEMMA TiedKept ==
  ASSUME \A f \in Forwarder : \A e \in pit[f] : EntersTunnel(f, e) => Tied(f, e),
         \A f \in Forwarder : \A e \in pit'[f] : EntersTunnel(f, e) =>
           \E d \in pit[f] : EntersTunnel(f, d) /\ d.name = e.name /\ d.original = e.original,
         \A f \in Forwarder : \A e \in pit[f] : EntersTunnel(f, e) =>
           /\ \A m \in net' : m \in net \/ (Carries(e, m.packet) /\ Ahead(f, e, m))
           /\ \A g \in Forwarder : \A p \in store'[g] : p \in store[g] \/ Carries(e, p)
           /\ \A g \in Forwarder : \A d \in pit'[g] :
                \/ \E c \in pit[g] : c.name = d.name /\ c.original = d.original
                \/ Opens(e, d)
  PROVE  \A f \in Forwarder : \A e \in pit'[f] : EntersTunnel(f, e) => Tied(f, e)'
<1> SUFFICES ASSUME NEW f \in Forwarder, NEW e \in pit'[f], EntersTunnel(f, e)
             PROVE  Tied(f, e)'
  OBVIOUS
<1>1. PICK d \in pit[f] : EntersTunnel(f, d) /\ d.name = e.name /\ d.original = e.original
  OBVIOUS
<1>2. Tied(f, d)
  BY <1>1
<1>3. \A m \in net' : Carries(e, m.packet) /\ Ahead(f, e, m)
  BY <1>1, <1>2 DEF Tied, Carries, Ahead
<1>4. \A g \in Forwarder : \A p \in store'[g] : Carries(e, p)
  BY <1>1, <1>2 DEF Tied, Carries
<1>5. \A g \in Forwarder : \A c \in pit'[g] : Opens(e, c)
  BY <1>1, <1>2 DEF Tied, Opens
<1>6. QED
  BY <1>3, <1>4, <1>5 DEF Tied, Carries, Ahead, Opens

(* Nothing there is refers to a fresh key.                                 *)
LEMMA FreshIsUnused ==
  ASSUME NEW k \in FreshKeys
  PROVE  /\ k \in Key
         /\ \A m \in net : ~Refers(m.packet, k)
         /\ \A f \in Forwarder : \A e \in pit[f] : ~Refers(e, k)
  BY DEF FreshKeys, FreeKeys

Fit(m) == FromConsumer(m) /\ ToConsumer(m) /\ InTunnel(m) /\ NotPrivate(m)

(* What the consumers asked for stays asked for. *)
LEMMA FitKept ==
  ASSUME TypeInv, TypeInv', \A c \in Consumer : asked[c] \subseteq asked'[c]
  PROVE  /\ \A m : Fit(m) => Fit(m)'
         /\ \A f, e : LinksFit(f, e) => LinksFit(f, e)'
  BY DEF Fit, FromConsumer, ToConsumer, InTunnel, NotPrivate, LinksFit, IsPlain

(* The steps that neither forward an interest nor return content.          *)
LEMMA TunnelQuiet ==
  ASSUME PrivateNetworks, TunnelInv, FormInv',
         \A c \in Consumer : asked[c] \subseteq asked'[c] /\ asked'[c] \subseteq Wanted[c],
         pit' = pit,
         \A f \in Forwarder : store'[f] \subseteq store[f],
         \A m \in net' : m \in net \/ Fit(m)',
         \A m \in net' : m \in net \/ m.packet.name \in Name
           \/ (m.kind = "Content" /\ \E f \in Forwarder : m.packet \in store[f])
  PROVE  TunnelInv'
<1>1. TypeInv /\ TypeInv'
  BY DEF TunnelInv, FormInv
<1>2. \A m \in net' : Fit(m)'
  BY <1>1, FitKept DEF TunnelInv, Fit
<1>3. \A f \in Forwarder : \A e \in pit'[f] : LinksFit(f, e)'
  BY <1>1, FitKept DEF TunnelInv
<1>4. ASSUME NEW f \in Forwarder, NEW e \in pit[f], EntersTunnel(f, e), NEW m \in net'
      PROVE  m \in net \/ (Carries(e, m.packet) /\ Ahead(f, e, m))
  <2>1. m.packet.name \in Name => m.packet.name # e.name
    BY <1>4, InstanceAssumption DEF EntersTunnel
  <2>2. (\E g \in Forwarder : m.packet \in store[g]) => Carries(e, m.packet)
    BY <1>4 DEF TunnelInv, Tied
  <2>3. QED
    BY <2>1, <2>2 DEF Carries, Ahead
<1>5. \A f \in Forwarder : \A e \in pit'[f] : EntersTunnel(f, e) => Tied(f, e)'
  <2>1. \A f \in Forwarder : \A e \in pit[f] : EntersTunnel(f, e) => Tied(f, e)
    BY DEF TunnelInv
  <2>2. QED
    BY <2>1, <1>4, TiedKept
<1>6. QED
  BY <1>2, <1>3, <1>5 DEF TunnelInv, Fit, EntersTunnel, Encapsulates

LEMMA TunnelAnswerFromStore ==
  ASSUME PrivateNetworks, TunnelInv, FormInv', NEW m \in net, AnswerFromStore(m)
  PROVE  TunnelInv'
<1>1. PICK p \in store[m.to] :
        p.name = m.packet.name /\ net' = (net \ {m}) \cup Sent("Content", m.to, {m.from}, p)
  BY DEF AnswerFromStore, Stored
<1>2. m.to \in Forwarder /\ m.to \notin Consumer /\ Fit(m)
  BY InstanceAssumption DEF AnswerFromStore, Received, TunnelInv, Fit
<1>3. ASSUME NEW n \in net', n \notin net
      PROVE  n.kind = "Content" /\ n.packet \in store[m.to] /\ Fit(n)
  <2>1. n = [kind |-> "Content", from |-> m.to, to |-> m.from, packet |-> p]
    BY <1>1, <1>3 DEF Sent
  <2>2. InTunnel(n)
    BY <2>1, <1>1, <1>2, TunnelLinkEnds DEF InTunnel, Fit, PrivateNetworks
  <2>3. QED
    BY <2>1, <2>2, <1>1, <1>2 DEF Fit, FromConsumer, ToConsumer, NotPrivate
<1>4. UNCHANGED <<pit, store, asked>>
  BY DEF AnswerFromStore
<1>5. \A n \in net' : n \in net \/ Fit(n)'
  BY <1>3, <1>4 DEF Fit, FromConsumer, ToConsumer, InTunnel, NotPrivate
<1>6. \A n \in net' : n \in net \/ n.packet.name \in Name
        \/ (n.kind = "Content" /\ \E f \in Forwarder : n.packet \in store[f])
  BY <1>2, <1>3
<1>7. \A c \in Consumer : asked[c] \subseteq asked'[c] /\ asked'[c] \subseteq Wanted[c]
  BY <1>4 DEF TunnelInv
<1>8. pit' = pit /\ \A f \in Forwarder : store'[f] \subseteq store[f]
  BY <1>4
<1>9. QED
  BY <1>5, <1>6, <1>7, <1>8, TunnelQuiet

LEMMA TunnelAnswer ==
  ASSUME PrivateNetworks, TunnelInv, FormInv', NEW m \in net, Answer(m)
  PROVE  TunnelInv'
<1>1. m.to \in Producer /\ m.to \notin Forwarder /\ m.to \notin Consumer /\ m.packet.name \in Name /\ Fit(m)
  BY InstanceAssumption DEF Answer, FormInv, TunnelInv, Fit
<1>2. ASSUME NEW n \in net', n \notin net
      PROVE  n.packet.name \in Name /\ Fit(n)
  <2>1. n = [kind |-> "Content", from |-> m.to, to |-> m.from, packet |-> Plain(m.packet.name)]
    BY <1>2 DEF Answer, Sent
  <2>2. InTunnel(n)
    BY <2>1, <1>1, TunnelLinkEnds DEF InTunnel, PrivateNetworks
  <2>3. m.from \notin Consumer
    BY <1>1, InstanceAssumption DEF Fit, FromConsumer
  <2>4. QED
    BY <2>1, <2>2, <2>3, <1>1 DEF Fit, FromConsumer, ToConsumer, NotPrivate, Plain
<1>3. UNCHANGED <<pit, store, asked>>
  BY DEF Answer
<1>4. \A n \in net' : n \in net \/ Fit(n)'
  BY <1>2, <1>3 DEF Fit, FromConsumer, ToConsumer, InTunnel, NotPrivate
<1>5. \A c \in Consumer : asked[c] \subseteq asked'[c] /\ asked'[c] \subseteq Wanted[c]
  BY <1>3 DEF TunnelInv
<1>6. pit' = pit /\ \A f \in Forwarder : store'[f] \subseteq store[f]
  BY <1>3
<1>7. QED
  BY <1>2, <1>4, <1>5, <1>6, TunnelQuiet

LEMMA TunnelAsk ==
  ASSUME PrivateNetworks, TunnelInv, FormInv', NEW c \in Consumer, NEW n \in Name,
         Ask(c, n) \/ Resend(c, n) \/ ResendEarly(c, n)
  PROVE  TunnelInv'
<1>1. /\ net' \subseteq net \cup Sent("Interest", c, {Home[c]}, Plain(n))
      /\ UNCHANGED <<pit, store>>
  BY DEF Ask, Resend, ResendEarly
<1>2. /\ \A d \in Consumer : asked[d] \subseteq asked'[d] /\ asked'[d] \subseteq Wanted[d]
      /\ n \in asked'[c] /\ n \in Wanted[c]
  BY DEF Ask, Resend, ResendEarly, Waiting, TunnelInv, FormInv, TypeInv, TypeOK
<1>3. Home[c] \in Forwarder /\ c \notin Forwarder /\ Home[c] \notin Consumer
  BY InstanceAssumption
<1>4. ASSUME NEW m \in net', m \notin net
      PROVE  m.packet.name \in Name /\ Fit(m)'
  <2>1. m = [kind |-> "Interest", from |-> c, to |-> Home[c], packet |-> Plain(n)]
    BY <1>1, <1>4 DEF Sent
  <2>2. InTunnel(m)
    BY <2>1, <1>3, TunnelLinkEnds DEF InTunnel, PrivateNetworks
  <2>3. ~TunnelledTo(n, Home[c])
    BY <1>2, <1>3 DEF PrivateNetworks, PrivateNames
  <2>4. QED
    BY <2>1, <2>2, <2>3, <1>2, <1>3 DEF Fit, FromConsumer, ToConsumer, InTunnel, NotPrivate, Plain
<1>5. pit' = pit /\ \A f \in Forwarder : store'[f] \subseteq store[f]
  BY <1>1
<1>6. QED
  BY <1>2, <1>4, <1>5, TunnelQuiet

LEMMA TunnelReturnContent ==
  ASSUME PrivateNetworks, TunnelInv, FormInv', NEW m \in net, ReturnContent(m)
  PROVE  TunnelInv'
<1>1. PICK e \in Pending(m) : \E kept \in SUBSET Returned(m, e) :
        /\ pit' = [pit EXCEPT ![m.to] = @ \ {e}]
        /\ store' = [store EXCEPT ![m.to] =
                        {q \in @ : \A p \in Returned(m, e) : q.name # p.name} \cup kept]
        /\ net' = (net \ {m}) \cup
                     UNION {Sent("Content", m.to, e.links, p) : p \in Returned(m, e)}
  BY DEF ReturnContent
<1>2. TypeInv /\ m.to \in Forwarder /\ m.to \notin Consumer
  BY InstanceAssumption DEF ReturnContent, Received, TunnelInv, FormInv
<1>3. /\ WellSealed(m.packet) /\ e \in pit[m.to] /\ e.name = m.packet.name
      /\ WellFormed(m.to, e) /\ LinksFit(m.to, e)
  BY <1>2 DEF Pending, TunnelInv, FormInv
<1>4. \A p \in Returned(m, e) :
        /\ IsPlain(e) \/ PassesOn(m.to, e) => p = m.packet
        /\ LeavesTunnel(m.to, e) => p = Sealed(e.original, e.name, e.key)
        /\ EntersTunnel(m.to, e) => m.packet.inner \in Name /\ p = Plain(m.packet.inner)
  BY <1>2, <1>3, ReturnedForms
<1>5. /\ \A f \in Forwarder : pit'[f] \subseteq pit[f]
      /\ \A f \in Forwarder : \A p \in store'[f] : p \in store[f] \/ p \in Returned(m, e)
      /\ asked' = asked
  BY <1>1, <1>2 DEF TypeInv, TypeOK, ReturnContent
<1>6. \A n \in net' : n \in net \/ \E p \in Returned(m, e), l \in e.links :
        n = [kind |-> "Content", from |-> m.to, to |-> l, packet |-> p]
  BY <1>1 DEF Sent
<1>7. EntersTunnel(m.to, e) => Carries(e, m.packet)
  BY <1>2, <1>3 DEF TunnelInv, Tied
<1>8. ASSUME NEW p \in Returned(m, e), NEW l \in e.links, NEW n,
             n = [kind |-> "Content", from |-> m.to, to |-> l, packet |-> p]
      PROVE  Fit(n)
  <2>1. ToConsumer(n)
    <3> SUFFICES ASSUME l \in Consumer
                 PROVE  p.name \in Name /\ p.name \in asked[l]
      BY <1>8 DEF ToConsumer
    <3>1. e.original \in Name /\ e.original \notin Outer /\ e.original \in asked[l]
      BY <1>3, InstanceAssumption DEF LinksFit
    <3>2. CASE IsPlain(e)
      BY <3>1, <3>2, <1>3, <1>4 DEF IsPlain
    <3>3. CASE EntersTunnel(m.to, e)
      BY <3>1, <3>3, <1>3, <1>4, <1>7 DEF Carries, Plain
    <3>4. QED
      BY <3>1, <3>2, <3>3, <1>3 DEF WellFormed, LeavesTunnel, PassesOn
  <2>2. InTunnel(n)
    <3> SUFFICES ASSUME <<m.to, l>> \in TunnelLinks
                 PROVE  p.name \in Outer
      BY <1>8 DEF InTunnel
    <3>1. e.original \in Outer /\ e.original \notin Name
      BY <1>3, TunnelLinkEnds, InstanceAssumption DEF LinksFit, PrivateNetworks
    <3>2. CASE LeavesTunnel(m.to, e)
      BY <3>1, <3>2, <1>4 DEF Sealed
    <3>3. CASE PassesOn(m.to, e)
      BY <3>1, <3>3, <1>3, <1>4 DEF PassesOn
    <3>4. QED
      BY <3>1, <3>2, <3>3, <1>3 DEF WellFormed, IsPlain, EntersTunnel
  <2>3. QED
    BY <2>1, <2>2, <1>2, <1>8 DEF Fit, FromConsumer, NotPrivate
<1>9. \A n \in net' : Fit(n)
  BY <1>6, <1>8 DEF TunnelInv, Fit
<1>10. ASSUME NEW f \in Forwarder, NEW d \in pit[f], EntersTunnel(f, d), NEW p \in Returned(m, e)
       PROVE  Carries(d, p)
  <2>1. Tied(f, d) /\ d.name \in Outer /\ d.name \notin Name
    BY <1>10, InstanceAssumption DEF TunnelInv, EntersTunnel
  <2>2. CASE IsPlain(e) \/ PassesOn(m.to, e)
    BY <2>1, <2>2, <1>4 DEF Tied
  <2>3. CASE LeavesTunnel(m.to, e)
    <3>1. Opens(d, e)
      BY <2>1, <1>2, <1>3 DEF Tied
    <3>2. QED
      BY <3>1, <2>3, <1>4 DEF Opens, Carries, Sealed, LeavesTunnel
  <2>4. CASE EntersTunnel(m.to, e)
    BY <2>1, <2>4, <1>4 DEF Carries, Plain
  <2>5. QED
    BY <2>2, <2>3, <2>4, <1>3 DEF WellFormed
<1>11. \A f \in Forwarder : \A d \in pit'[f] : EntersTunnel(f, d) => Tied(f, d)'
  <2>1. \A f \in Forwarder : \A d \in pit[f] : EntersTunnel(f, d) =>
          /\ \A n \in net' : n \in net \/ (Carries(d, n.packet) /\ Ahead(f, d, n))
          /\ \A g \in Forwarder : \A p \in store'[g] : p \in store[g] \/ Carries(d, p)
    BY <1>5, <1>6, <1>10 DEF Ahead
  <2>2. \A f \in Forwarder : \A d \in pit[f] : EntersTunnel(f, d) => Tied(f, d)
    BY DEF TunnelInv
  <2>3. QED
    BY <1>5, <2>1, <2>2, TiedKept
<1>12. \A f \in Forwarder : \A d \in pit'[f] : LinksFit(f, d)
  BY <1>5 DEF TunnelInv
<1>13. QED
  BY <1>5, <1>9, <1>11, <1>12
     DEF TunnelInv, Fit, FromConsumer, ToConsumer, InTunnel, NotPrivate, LinksFit, IsPlain,
         EntersTunnel, Encapsulates

(* What an interest goes on as fits the link it goes to and the entries of *)
(* the tunnels.                                                            *)
LEMMA ForwardedFits ==
  ASSUME PrivateNetworks, TunnelInv, NEW m \in net, Received(m, "Interest"),
         NEW out \in Outgoing(m), NEW l \in RouteOf(m).links, NEW n,
         n = [kind |-> "Interest", from |-> m.to, to |-> l, packet |-> out.packet]
  PROVE  /\ Fit(n)
         /\ ~GoesIn(m, out) => \A f \in Forwarder : \A e \in pit[f] :
              EntersTunnel(f, e) => Carries(e, out.packet) /\ Ahead(f, e, n)
<1> USE DEF FormHypotheses, PrivateNetworks
<1>1. /\ TypeInv /\ FormInv /\ WellSealed(m.packet) /\ Fit(m)
      /\ m.kind = "Interest" /\ m.to \in Forwarder /\ m.to \notin Consumer
  BY InstanceAssumption DEF TunnelInv, FormInv, Fit, Received
<1>2. /\ GoesPlain(m, out) \/ ComesOut(m, out) \/ PassesBy(m, out) \/ GoesIn(m, out)
      /\ m.packet.name \in Outer => m.packet.inner \in Name
  BY <1>1, OutgoingForms
<1>3. /\ l \in Node /\ l \notin Consumer
      /\ PassesBy(m, out) \/ GoesIn(m, out) => l \in Onward(m.to, out.packet.name.to)
      /\ GoesPlain(m, out) \/ ComesOut(m, out) =>
           /\ Routes[m.to][out.packet.name] # None
           /\ l \in Routes[m.to][out.packet.name].links
  BY <1>1, EgressLinks
<1>4. PassesBy(m, out) => out.packet = m.packet /\ m.packet.name \in Outer
  BY DEF PassesBy
<1>5. GoesIn(m, out) => out.packet.name \in Outer /\ out.packet.name \notin Name
  <2>1. HAVE GoesIn(m, out)
  <2>2. EntersTunnel(m.to, [name |-> out.packet.name, original |-> m.packet.name, key |-> out.key])
    BY <2>1, <1>1, NewEntryForms
  <2>3. QED
    BY <2>2, InstanceAssumption DEF EntersTunnel
<1>6. GoesPlain(m, out) \/ ComesOut(m, out) =>
        /\ out.packet.name \in Name /\ out.packet.name \notin Outer
        /\ Routes[m.to][out.packet.name].to = None
  <2>1. RouteOf(m).links # {}
    OBVIOUS
  <2>2. QED
    BY <2>1, <1>1, NotStripped, InstanceAssumption DEF Fit
<1>7. InTunnel(n)
  <2>1. GoesPlain(m, out) \/ ComesOut(m, out) => <<m.to, l>> \notin TunnelLinks
    BY <1>1, <1>3, <1>6 DEF PrivateNames
  <2>2. QED
    BY <2>1, <1>2, <1>4, <1>5 DEF InTunnel
<1>8. NotPrivate(n)
  <2>1. GoesPlain(m, out) \/ ComesOut(m, out) =>
          (l \in Forwarder => ~TunnelledTo(out.packet.name, l))
    BY <1>1, <1>3, <1>6 DEF PrivateNames
  <2>2. QED
    BY <2>1, <1>2, <1>4, <1>5, InstanceAssumption DEF NotPrivate
<1>9. Fit(n)
  BY <1>1, <1>3, <1>7, <1>8 DEF Fit, FromConsumer, ToConsumer
<1>10. ASSUME ~GoesIn(m, out), NEW f \in Forwarder, NEW e \in pit[f], EntersTunnel(f, e)
       PROVE  Carries(e, out.packet) /\ Ahead(f, e, n)
  <2>1. e.name \in Outer /\ Carries(e, m.packet) /\ Ahead(f, e, m)
    BY <1>10 DEF EntersTunnel, TunnelInv, Tied
  <2>2. CASE GoesPlain(m, out) \/ ComesOut(m, out)
    BY <2>1, <2>2, <1>6 DEF Carries, Ahead
  <2>3. CASE PassesBy(m, out)
    <3> DEFINE t == e.name.to
    <3>1. Carries(e, out.packet)
      BY <2>1, <2>3, <1>4
    <3>2. SUFFICES ASSUME m.packet.name = e.name, l \in Forwarder
                   PROVE  Rank(t)[l] < Rank(t)[f]
      BY <3>1, <2>3, <1>4 DEF Ahead
    <3>3. t \in Forwarder
      BY <2>1 DEF Outer
    <3>4. Rank(t)[l] < Rank(t)[m.to]
      BY <3>2, <3>3, <2>3, <1>1, <1>3, <1>4, RankNearer DEF Nearer
    <3>5. Rank(t)[m.to] < Rank(t)[f]
      BY <3>2, <2>1, <1>1 DEF Ahead
    <3>6. Rank(t)[l] \in Nat /\ Rank(t)[m.to] \in Nat /\ Rank(t)[f] \in Nat
      BY <3>2, <3>3, <1>1, RankNearer
    <3>7. QED
      BY <3>4, <3>5, <3>6
  <2>4. QED
    BY <2>2, <2>3, <1>2, <1>10
<1>11. QED
  BY <1>9, <1>10

(* A new pending interest, and one that another link joins.                *)
LEMMA NewLinkFits ==
  ASSUME PrivateNetworks, TunnelInv, NEW m \in net, Received(m, "Interest"), NEW out \in Outgoing(m), NEW e,
         e.name = out.packet.name, e.original = m.packet.name, e.key = out.key, e.links = {m.from}
  PROVE  LinksFit(m.to, e)
<1>1. Fit(m) /\ m.to \in Forwarder /\ m.kind = "Interest"
  BY DEF TunnelInv, Fit, Received
<1>2. IsPlain(e) => ~TunnelledTo(e.name, m.to)
  BY <1>1 DEF Fit, NotPrivate, IsPlain
<1>3. QED
  BY <1>1, <1>2 DEF LinksFit, Fit, InTunnel, FromConsumer

LEMMA JoinedLinkFits ==
  ASSUME PrivateNetworks, TunnelInv, NEW m \in net, Received(m, "Interest"), NEW out \in Outgoing(m),
         NEW e \in pit[m.to], e.name = out.packet.name,
         NEW d, d.name = e.name, d.original = e.original, d.key = e.key, d.links = e.links \cup {m.from}
  PROVE  LinksFit(m.to, d) /\ ~GoesIn(m, out)
<1> USE DEF FormHypotheses, PrivateNetworks
<1>1. /\ TypeInv /\ FormInv /\ WellSealed(m.packet) /\ Fit(m)
      /\ m.to \in Forwarder /\ m.kind = "Interest"
      /\ WellFormed(m.to, e) /\ LinksFit(m.to, e)
  BY DEF TunnelInv, FormInv, Fit, Received
<1>2. GoesPlain(m, out) \/ ComesOut(m, out) \/ PassesBy(m, out) \/ GoesIn(m, out)
  BY <1>1, OutgoingForms
<1>3. ~GoesIn(m, out)
  <2> SUFFICES ASSUME GoesIn(m, out) PROVE FALSE
    OBVIOUS
  <2>1. PICK k \in FreshKeys :
          out = [packet |-> Sealed([to |-> RouteOf(m).to, id |-> k], m.packet.name, k), key |-> k]
    BY DEF GoesIn
  <2>2. EntersTunnel(m.to, [name |-> out.packet.name, original |-> m.packet.name, key |-> out.key])
    BY <1>1, NewEntryForms
  <2>3. e.name \in Outer /\ e.name.id = k
    BY <2>1, <2>2 DEF EntersTunnel, Sealed
  <2>4. QED
    BY <2>3, <1>1, FreshIsUnused DEF Refers
<1>4. m.packet.name \in Outer => e.original \in Outer
  <2> SUFFICES ASSUME m.packet.name \in Outer PROVE e.original \in Outer
    OBVIOUS
  <2>1. m.packet.name \notin Name
    BY InstanceAssumption
  <2>2. CASE ComesOut(m, out)
    <3>1. e.name = m.packet.inner /\ TunnelledTo(e.name, m.to) /\ e.name \in Name /\ e.name \notin Outer
      BY <2>2, <1>1, InstanceAssumption DEF ComesOut, Plain, WellSealed
    <3>2. QED
      BY <3>1, <1>1 DEF WellFormed, LinksFit, LeavesTunnel, PassesOn, EntersTunnel
  <2>3. CASE PassesBy(m, out)
    <3>1. e.name = m.packet.name
      BY <2>3 DEF PassesBy
    <3>2. ~EntersTunnel(m.to, e)
      <4> SUFFICES ASSUME EntersTunnel(m.to, e) PROVE FALSE
        OBVIOUS
      <4>1. Ahead(m.to, e, m) /\ e.name.to \in Forwarder
        BY <1>1 DEF TunnelInv, Tied, EntersTunnel, Outer
      <4>2. Rank(e.name.to)[m.to] < Rank(e.name.to)[m.to] /\ Rank(e.name.to)[m.to] \in Nat
        BY <4>1, <3>1, <1>1, RankNearer DEF Ahead
      <4>3. QED
        BY <4>2
    <3>3. QED
      BY <3>1, <3>2, <2>1, <1>1 DEF WellFormed, IsPlain, LeavesTunnel, PassesOn
  <2>4. QED
    BY <2>1, <2>2, <2>3, <1>2, <1>3 DEF GoesPlain
<1>5. m.from \in Consumer => e.original \in Name /\ e.original \in asked[m.from]
  <2> SUFFICES ASSUME m.from \in Consumer
               PROVE  e.original \in Name /\ e.original \in asked[m.from]
    OBVIOUS
  <2>1. m.packet.name \in Name /\ m.packet.name \in asked[m.from] /\ m.packet.name \notin Outer
    BY <1>1, InstanceAssumption DEF Fit, FromConsumer
  <2>2. GoesPlain(m, out)
    BY <2>1, <1>2, <1>3 DEF ComesOut, PassesBy
  <2>3. e.name = m.packet.name
    BY <2>2 DEF GoesPlain
  <2>4. ~TunnelledTo(e.name, m.to)
    BY <2>1, <2>3, <1>1 DEF Fit, NotPrivate
  <2>5. QED
    BY <2>1, <2>3, <2>4, <1>1 DEF WellFormed, IsPlain, LeavesTunnel, PassesOn, EntersTunnel
<1>6. LinksFit(m.to, d)
  BY <1>1, <1>4, <1>5 DEF LinksFit, IsPlain, Fit, InTunnel
<1>7. QED
  BY <1>3, <1>6

LEMMA TunnelAggregate ==
  ASSUME PrivateNetworks, TunnelInv, FormInv', NEW m \in net, Aggregate(m)
  PROVE  TunnelInv'
<1>1. PICK out \in Outgoing(m), e \in pit[m.to] :
        /\ e.name = out.packet.name
        /\ pit' = [pit EXCEPT ![m.to] = (@ \ {e}) \cup {[e EXCEPT !.links = @ \cup {m.from}]}]
  BY DEF Aggregate
<1>2. Received(m, "Interest") /\ m.to \in Forwarder /\ net' \subseteq net /\ UNCHANGED <<store, asked>>
  BY DEF Aggregate, Received
<1>3. TypeInv /\ e \in PITEntry
  BY <1>2 DEF TunnelInv, FormInv, TypeInv, TypeOK
<1> DEFINE joined == [e EXCEPT !.links = @ \cup {m.from}]
<1>4. /\ joined.name = e.name /\ joined.original = e.original /\ joined.key = e.key
      /\ joined.links = e.links \cup {m.from}
  BY <1>3 DEF PITEntry
<1>5. LinksFit(m.to, joined)
  <2> HIDE DEF joined
  <2>1. QED
    BY <1>1, <1>2, <1>4, JoinedLinkFits
<1>6. \A f \in Forwarder : pit'[f] \subseteq pit[f] \cup (IF f = m.to THEN {joined} ELSE {})
  BY <1>1, <1>2, <1>3 DEF TypeInv, TypeOK
<1> HIDE DEF joined
<1>7. \A f \in Forwarder : \A d \in pit'[f] :
        \E c \in pit[f] : c.name = d.name /\ c.original = d.original /\ c.key = d.key
  BY <1>1, <1>4, <1>6
<1>8. \A f \in Forwarder : \A d \in pit'[f] : LinksFit(f, d)
  BY <1>5, <1>6 DEF TunnelInv
<1>9. \A f \in Forwarder : \A d \in pit'[f] : EntersTunnel(f, d) => Tied(f, d)'
  <2>1. \A f \in Forwarder : \A d \in pit'[f] : EntersTunnel(f, d) =>
          \E c \in pit[f] : EntersTunnel(f, c) /\ c.name = d.name /\ c.original = d.original
    BY <1>7 DEF EntersTunnel
  <2>2. \A f \in Forwarder : \A d \in pit[f] : EntersTunnel(f, d) => Tied(f, d)
    BY DEF TunnelInv
  <2>3. QED
    BY <1>2, <1>7, <2>1, <2>2, TiedKept
<1>10. QED
  BY <1>2, <1>8, <1>9
     DEF TunnelInv, Fit, FromConsumer, ToConsumer, InTunnel, NotPrivate, LinksFit, IsPlain,
         EntersTunnel, Encapsulates

(* A fresh key ties the new entry of a tunnel to what goes out under it    *)
(* and to nothing else.                                                    *)
LEMMA TunnelGoesIn ==
  ASSUME PrivateNetworks, TunnelInv, NEW m \in net, Received(m, "Interest"), NEW out \in Outgoing(m),
         GoesIn(m, out), NewEntry(m, out), Forgotten(out),
         net' = (net \ {m}) \cup Sent("Interest", m.to, RouteOf(m).links, out.packet)
  PROVE  \A f \in Forwarder : \A e \in pit'[f] : EntersTunnel(f, e) => Tied(f, e)'
<1> USE DEF FormHypotheses, PrivateNetworks
<1> DEFINE new == [name |-> out.packet.name, links |-> {m.from},
                   original |-> m.packet.name, key |-> out.key]
<1>1. PICK k \in FreshKeys :
        out = [packet |-> Sealed([to |-> RouteOf(m).to, id |-> k], m.packet.name, k), key |-> k]
  BY DEF GoesIn
<1>2. TypeInv /\ FormInv /\ WellSealed(m.packet) /\ m.to \in Forwarder /\ m.packet.name \in Name
  BY DEF TunnelInv, FormInv, Received, GoesIn
<1>3. EntersTunnel(m.to, new)
  <2> HIDE DEF new
  <2>1. new.name = out.packet.name /\ new.original = m.packet.name /\ new.key = out.key
    BY DEF new
  <2>2. QED
    BY <2>1, <1>2, NewEntryForms
<1>4. /\ out.packet.name \in Outer /\ out.packet.name \notin Name
      /\ out.packet.name.id = k /\ out.packet.key = k /\ out.key = k
      /\ out.packet.inner = m.packet.name
  BY <1>1, <1>3, InstanceAssumption DEF EntersTunnel, Sealed
<1>5. \A n \in net' : n \in net \/ \E l \in RouteOf(m).links :
        n = [kind |-> "Interest", from |-> m.to, to |-> l, packet |-> out.packet]
  BY DEF Sent
<1>6. /\ \A f \in Forwarder : \A p \in store'[f] : p \in store[f] /\ ~Refers(p, k)
      /\ \A f \in Forwarder : pit'[f] \subseteq pit[f] \cup (IF f = m.to THEN {new} ELSE {})
  <2>1. store' = [f \in Forwarder |-> {p \in store[f] : ~Refers(p, out.key)}]
    BY <1>1, <1>4 DEF Forgotten
  <2>2. pit' = [pit EXCEPT ![m.to] = @ \cup {new}]
    BY DEF NewEntry
  <2>3. QED
    BY <2>1, <2>2, <1>2, <1>4 DEF TypeInv, TypeOK
<1>7. ASSUME NEW f \in Forwarder, NEW e \in pit[f], EntersTunnel(f, e)
      PROVE  Tied(f, e)'
  <2>1. Tied(f, e) /\ e.name \in Outer /\ e.name \notin Name /\ e.name # out.packet.name
    BY <1>4, <1>7, FreshIsUnused, InstanceAssumption DEF TunnelInv, EntersTunnel, Refers
  <2>2. Opens(e, new)
    BY <2>1, <1>2 DEF Opens
  <2> HIDE DEF new
  <2>3. \A n \in net' : Carries(e, n.packet) /\ Ahead(f, e, n)
    BY <2>1, <1>5 DEF Tied, Carries, Ahead
  <2>4. \A g \in Forwarder : \A p \in store'[g] : Carries(e, p)
    BY <2>1, <1>6 DEF Tied
  <2>5. \A g \in Forwarder : \A d \in pit'[g] : Opens(e, d)
    BY <2>1, <2>2, <1>6 DEF Tied
  <2>6. QED
    BY <2>3, <2>4, <2>5 DEF Tied, Carries, Ahead, Opens
<1>8. Tied(m.to, new)'
  <2>1. \A n \in net' : Carries(new, n.packet) /\ Ahead(m.to, new, n)
    <3> SUFFICES ASSUME NEW n \in net'
                 PROVE  Carries(new, n.packet) /\ Ahead(m.to, new, n)
      OBVIOUS
    <3>1. CASE n \in net
      BY <3>1, <1>4, FreshIsUnused DEF Refers, Carries, Ahead
    <3>2. CASE n \notin net
      <4>1. PICK l \in RouteOf(m).links :
              n = [kind |-> "Interest", from |-> m.to, to |-> l, packet |-> out.packet]
        BY <3>2, <1>5
      <4>2. l \in Onward(m.to, out.packet.name.to)
        BY <1>2, EgressLinks
      <4>3. out.packet.name.to \in Forwarder
        BY <1>4 DEF Outer
      <4>4. Rank(out.packet.name.to)[l] < Rank(out.packet.name.to)[m.to]
        BY <4>2, <4>3, <1>2, RankNearer DEF Nearer
      <4>5. QED
        BY <4>1, <4>4, <1>4 DEF Carries, Ahead
    <3>3. QED
      BY <3>1, <3>2
  <2>2. \A g \in Forwarder : \A p \in store'[g] : Carries(new, p)
    BY <1>4, <1>6 DEF Refers, Carries
  <2>3. ASSUME NEW g \in Forwarder, NEW d \in pit'[g], d.original = new.name, d.name \in Name
        PROVE  d.name = new.original
    <3>1. CASE d = new
      BY <2>3, <3>1, <1>4
    <3>2. CASE d # new
      <4>1. d \in pit[g]
        BY <3>2, <1>6
      <4>2. WellFormed(g, d) /\ ~Refers(d, k) /\ d.original \in Outer /\ d.original.id = k
        BY <4>1, <2>3, <1>2, <1>4, FreshIsUnused DEF FormInv
      <4>3. FALSE
        BY <4>2, <2>3, InstanceAssumption
           DEF WellFormed, IsPlain, LeavesTunnel, PassesOn, EntersTunnel, Refers
      <4>4. QED
        BY <4>3
    <3>3. QED
      BY <3>1, <3>2
  <2>4. \A g \in Forwarder : \A d \in pit'[g] : Opens(new, d)
    BY <2>3 DEF Opens
  <2>5. new' = new
    BY <1>1 DEF new
  <2> HIDE DEF new
  <2>6. QED
    BY <2>1, <2>2, <2>4 DEF Tied, Carries, Ahead, Opens
<1>9. QED
  <2> HIDE DEF new
  <2>1. QED
    BY <1>6, <1>7, <1>8

LEMMA TunnelForward ==
  ASSUME PrivateNetworks, TunnelInv, FormInv', NEW m \in net, Forward(m)
  PROVE  TunnelInv'
<1> USE DEF FormHypotheses, PrivateNetworks
<1>1. PICK out \in Outgoing(m) :
        /\ NewEntry(m, out) \/ SameLink(m, out)
        /\ Forgotten(out)
        /\ net' = (net \ {m}) \cup Sent("Interest", m.to, RouteOf(m).links, out.packet)
  BY DEF Forward
<1>2. /\ Received(m, "Interest") /\ m.to \in Forwarder /\ UNCHANGED asked
      /\ TypeInv /\ FormInv /\ WellSealed(m.packet)
  BY DEF Forward, Received, TunnelInv, FormInv
<1> DEFINE new == [name |-> out.packet.name, links |-> {m.from},
                   original |-> m.packet.name, key |-> out.key]
<1>3. new.name = out.packet.name /\ new.original = m.packet.name /\ new.key = out.key /\ new.links = {m.from}
  OBVIOUS
<1>4. \A f \in Forwarder :
        \/ pit'[f] = pit[f]
        \/ f = m.to /\ NewEntry(m, out) /\ pit'[f] = pit[f] \cup {new}
  BY <1>1, <1>2 DEF NewEntry, SameLink, TypeInv, TypeOK
<1> HIDE DEF new
<1>5. \A n \in net' : n \in net \/ \E l \in RouteOf(m).links :
        n = [kind |-> "Interest", from |-> m.to, to |-> l, packet |-> out.packet]
  BY <1>1 DEF Sent
<1>6. \A f \in Forwarder : store'[f] \subseteq store[f]
  BY <1>1, <1>2 DEF Forgotten, TypeInv, TypeOK
<1>7. \A n \in net' : Fit(n)
  BY <1>2, <1>5, ForwardedFits DEF TunnelInv, Fit
<1>8. \A f \in Forwarder : \A d \in pit'[f] : LinksFit(f, d)
  <2>1. LinksFit(m.to, new)
    BY <1>2, <1>3, NewLinkFits
  <2>2. QED
    BY <2>1, <1>4 DEF TunnelInv
<1>9. CASE GoesIn(m, out)
  <2>1. \A e \in pit[m.to] : e.name # out.packet.name
    <3>1. PICK k \in FreshKeys : out.packet.name = [to |-> RouteOf(m).to, id |-> k]
      BY <1>9 DEF GoesIn, Sealed
    <3>2. EntersTunnel(m.to, new)
      BY <1>2, <1>3, <1>9, NewEntryForms
    <3>3. out.packet.name \in Outer /\ out.packet.name.id = k
      BY <3>1, <3>2, <1>3 DEF EntersTunnel
    <3>4. QED
      BY <3>3, <1>2, FreshIsUnused DEF Refers
  <2>2. NewEntry(m, out)
    BY <2>1, <1>1 DEF SameLink
  <2>3. \A f \in Forwarder : \A e \in pit'[f] : EntersTunnel(f, e) => Tied(f, e)'
    BY <2>2, <1>1, <1>2, <1>9, TunnelGoesIn
  <2>4. QED
    BY <2>3, <1>2, <1>7, <1>8
       DEF TunnelInv, Fit, FromConsumer, ToConsumer, InTunnel, NotPrivate, LinksFit, IsPlain,
           EntersTunnel, Encapsulates
<1>10. CASE ~GoesIn(m, out)
  <2>1. GoesPlain(m, out) \/ ComesOut(m, out) \/ PassesBy(m, out)
    BY <1>2, <1>10, OutgoingForms
  <2>2. ~EntersTunnel(m.to, new)
    <3>1. IsPlain(new) \/ LeavesTunnel(m.to, new) \/ PassesOn(m.to, new)
      BY <2>1, <1>2, <1>3, NewEntryForms
    <3>2. QED
      BY <3>1, InstanceAssumption DEF IsPlain, LeavesTunnel, PassesOn, EntersTunnel
  <2>3. \A f \in Forwarder : \A e \in pit'[f] : EntersTunnel(f, e) =>
          \E d \in pit[f] : EntersTunnel(f, d) /\ d.name = e.name /\ d.original = e.original
    BY <2>2, <1>4
  <2>4. ASSUME NEW f \in Forwarder, NEW e \in pit[f], EntersTunnel(f, e)
        PROVE  Opens(e, new)
    <3>1. Carries(e, m.packet) /\ e.name \in Outer /\ e.name \notin Name
      BY <2>4, InstanceAssumption DEF EntersTunnel, TunnelInv, Tied
    <3>2. CASE GoesPlain(m, out)
      BY <3>1, <3>2, <1>3 DEF GoesPlain, Opens
    <3>3. CASE ComesOut(m, out)
      BY <3>1, <3>3, <1>3 DEF ComesOut, Opens, Carries, Plain
    <3>4. CASE PassesBy(m, out)
      BY <3>4, <1>3, InstanceAssumption DEF PassesBy, Opens
    <3>5. QED
      BY <2>1, <3>2, <3>3, <3>4
  <2>5. \A f \in Forwarder : \A e \in pit[f] : EntersTunnel(f, e) =>
          /\ \A n \in net' : n \in net \/ (Carries(e, n.packet) /\ Ahead(f, e, n))
          /\ \A g \in Forwarder : \A p \in store'[g] : p \in store[g] \/ Carries(e, p)
          /\ \A g \in Forwarder : \A d \in pit'[g] :
               \/ \E c \in pit[g] : c.name = d.name /\ c.original = d.original
               \/ Opens(e, d)
    BY <2>4, <1>2, <1>4, <1>5, <1>6, <1>10, ForwardedFits
  <2>6. \A f \in Forwarder : \A e \in pit[f] : EntersTunnel(f, e) => Tied(f, e)
    BY DEF TunnelInv
  <2>7. \A f \in Forwarder : \A e \in pit'[f] : EntersTunnel(f, e) => Tied(f, e)'
    BY <2>3, <2>5, <2>6, TiedKept
  <2>8. QED
    BY <2>7, <1>2, <1>7, <1>8
       DEF TunnelInv, Fit, FromConsumer, ToConsumer, InTunnel, NotPrivate, LinksFit, IsPlain,
           EntersTunnel, Encapsulates
<1>11. QED
  BY <1>9, <1>10

LEMMA TunnelInit == PrivateNetworks /\ Init => TunnelInv
  BY FormInit DEF Init, TunnelInv

LEMMA TunnelNext == PrivateNetworks /\ TunnelInv /\ [Next]_vars => TunnelInv'
<1> SUFFICES ASSUME PrivateNetworks, TunnelInv, [Next]_vars
             PROVE  TunnelInv'
  OBVIOUS
<1>1. FormInv'
  BY FormNext DEF TunnelInv, PrivateNetworks, FormHypotheses
<1>2. ASSUME NEW m \in net, AnswerFromStore(m) \/ Forward(m) \/ Aggregate(m) \/ ReturnContent(m) \/ Answer(m)
      PROVE  TunnelInv'
  BY <1>1, <1>2, TunnelAnswerFromStore, TunnelForward, TunnelAggregate, TunnelReturnContent, TunnelAnswer
<1>3. ASSUME NEW c \in Consumer, NEW n \in Name, Ask(c, n) \/ Resend(c, n) \/ ResendEarly(c, n)
      PROVE  TunnelInv'
  BY <1>1, <1>3, TunnelAsk
<1>4. ASSUME /\ net' \subseteq net /\ UNCHANGED <<pit, asked>>
             /\ \A f \in Forwarder : store'[f] \subseteq store[f]
      PROVE  TunnelInv'
  <2>1. \A c \in Consumer : asked[c] \subseteq asked'[c] /\ asked'[c] \subseteq Wanted[c]
    BY <1>4 DEF TunnelInv
  <2>2. QED
    BY <2>1, <1>1, <1>4, TunnelQuiet
<1>5. ASSUME NEW m \in net, NoRoute(m) \/ DropUnasked(m) \/ Consume(m) \/ Lose(m)
      PROVE  TunnelInv'
  BY <1>4, <1>5 DEF NoRoute, DropUnasked, Consume, Lose
<1>6. ASSUME NEW f \in Forwarder, Evict(f)
      PROVE  TunnelInv'
  <2>1. \A g \in Forwarder : store'[g] \subseteq store[g]
    BY <1>6 DEF Evict, TunnelInv, FormInv, TypeInv, TypeOK
  <2>2. QED
    BY <2>1, <1>4, <1>6 DEF Evict
<1>7. CASE UNCHANGED vars
  BY <1>4, <1>7 DEF vars
<1>8. QED
  BY <1>2, <1>3, <1>5, <1>6, <1>7 DEF Next, Process

LEMMA TunnelCorrect == PrivateNetworks => (Spec => []TunnelInv)
<1> SUFFICES ASSUME PrivateNetworks
             PROVE  Spec => []TunnelInv
  OBVIOUS
<1>1. Init => TunnelInv
  BY TunnelInit
<1>2. TunnelInv /\ [Next]_vars => TunnelInv'
  BY TunnelNext
<1>3. QED
  BY <1>1, <1>2, PTL DEF Spec

(* Whatever crosses a link of a tunnel, in either direction, is under a    *)
(* public name and has been sealed: interests that joined a pending one,   *)
(* answers from a store and routes that lost their prefix included.        *)
THEOREM TunnelAlwaysSealed == PrivateNetworks => (Spec => []TunnelCarriesSealed)
<1>1. TunnelInv => TunnelCarriesSealed
  <2> SUFFICES ASSUME TunnelInv, NEW m \in net, <<m.from, m.to>> \in TunnelLinks
               PROVE  m.packet.name \in Outer /\ m.packet.key # None
    BY DEF TunnelCarriesSealed
  <2>1. m.packet.name \in Outer /\ WellSealed(m.packet)
    BY DEF TunnelInv, FormInv, InTunnel
  <2>2. m.packet.key \in Key
    BY <2>1 DEF WellSealed, Outer
  <2>3. QED
    BY <2>1, <2>2, InstanceAssumption
<1>2. QED
  <2> SUFFICES ASSUME PrivateNetworks
               PROVE  Spec => []TunnelCarriesSealed
    OBVIOUS
  <2>1. Spec => []TunnelInv
    BY TunnelCorrect
  <2>2. QED
    BY <1>1, <2>1, PTL

(* A consumer is only ever sent content, in the clear and under a name it  *)
(* has asked for, through whichever tunnel and pending interest it came.   *)
THEOREM ConsumersReadWhatTheyAsked == PrivateNetworks => (Spec => []DeliveredInClear)
<1>1. TunnelInv => DeliveredInClear
  <2> SUFFICES ASSUME TunnelInv, NEW m \in net, m.to \in Consumer
               PROVE  m.kind = "Content" /\ m.packet.key = None /\ m.packet.name \in asked[m.to]
    BY DEF DeliveredInClear
  <2>1. /\ m.kind = "Content" /\ m.packet.name \in Name /\ m.packet.name \in asked[m.to]
        /\ WellSealed(m.packet)
    BY DEF TunnelInv, FormInv, ToConsumer
  <2>2. m.packet = Plain(m.packet.name)
    BY <2>1, InstanceAssumption DEF WellSealed
  <2>3. QED
    BY <2>1, <2>2 DEF Plain
<1>2. QED
  <2> SUFFICES ASSUME PrivateNetworks
               PROVE  Spec => []DeliveredInClear
    OBVIOUS
  <2>1. Spec => []TunnelInv
    BY TunnelCorrect
  <2>2. QED
    BY <1>1, <2>1, PTL
=============================================================================
