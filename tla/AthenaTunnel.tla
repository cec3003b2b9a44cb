---------------------------- MODULE AthenaTunnel ----------------------------
(***************************************************************************)
(* Forwarders at work together: how an Athena forwarder processes an       *)
(* interest and a content object (athena.c), and the tunnel this makes     *)
(* between a consumer-side gateway, whose route for a private name has the *)
(* public name and key of the producer-side gateway, and that gateway.     *)
(*                                                                         *)
(* One step is one message processed by one forwarder: the engine takes    *)
(* the next message when it is done with the last one.  A link is named by *)
(* the node at its other end.  The pending interest table and the content  *)
(* store are here what the engine sees of them: a pending interest leaves  *)
(* when its content comes, and a store may lose whatever it was given at   *)
(* any time (AthenaPIT and AthenaLRUContentStore say when).                *)
(*                                                                         *)
(* An encapsulated interest is named by the public name of the gateway and *)
(* the hash of its payload, which the fresh response key in it makes       *)
(* unique, so the name has the key for an identifier.  Left out: hop       *)
(* limits (routes have no cycle), the InterestReturn messages, which every *)
(* receiver ignores, manifests, and the difference between encryption to   *)
(* a public key and with a shared one.                                     *)
(*                                                                         *)
(* A definition named Mutant... is the definition after it with a bug the  *)
(* code could have had; the properties are checked to notice it.           *)
(***************************************************************************)
EXTENDS Naturals, FiniteSets

CONSTANTS
  Forwarder,   (* the Athena instances                                     *)
  Consumer,    (* hosts that ask for content                               *)
  Producer,    (* hosts that have it                                       *)
  Name,        (* names of content                                         *)
  Wanted,      (* [Consumer -> SUBSET Name]                                *)
  Home,        (* [Consumer -> Forwarder]                                  *)
  Routes,      (* [Forwarder -> [Name \cup Forwarder -> Route \cup {None}]]  *)
  Key,         (* bound: response keys that can be in use at once          *)
  MaxFaults,   (* bound: messages lost, early retransmissions, evictions   *)
  None

Node == Forwarder \cup Consumer \cup Producer

(* ccnxInterest_SetPayloadAndId: the public name of a gateway and the      *)
(* payload identifier.                                                     *)
Outer == [to : Forwarder, id : Key]

(* AthenaFIBValue: a route with a prefix and key leads to the gateway `to'. *)
Route == [links : SUBSET Node, to : Forwarder \cup {None}]

(* What is in a packet besides its name: the name of what is encapsulated  *)
(* or carried, and the response key it is sealed with or brings along.     *)
Packet == [name : Name \cup Outer, inner : Name \cup Outer \cup {None}, key : Key \cup {None}]

Message == [kind : {"Interest", "Content"}, from : Node, to : Node, packet : Packet]

PITEntry == [name : Name \cup Outer, links : SUBSET Node,
             original : Name \cup Outer, key : Key \cup {None}]

ASSUME InstanceAssumption ==
  /\ Key \subseteq Nat /\ MaxFaults \in Nat
  /\ Forwarder \cap (Consumer \cup Producer) = {} /\ Consumer \cap Producer = {}
  /\ Name \cap Outer = {} /\ None \notin Name \cup Outer \cup Forwarder \cup Key
  /\ Wanted \in [Consumer -> SUBSET Name] /\ Home \in [Consumer -> Forwarder]
  /\ Routes \in [Forwarder -> [Name \cup Forwarder -> Route \cup {None}]]
  /\ \A f, g \in Forwarder : Routes[f][g] # None => Routes[f][g].to = None

VARIABLES
  net,     (* messages on the links                                        *)
  pit,     (* [Forwarder -> SUBSET PITEntry]                               *)
  store,   (* [Forwarder -> SUBSET Packet]                                 *)
  asked,   (* [Consumer -> SUBSET Name], what it has sent an interest for  *)
  got,     (* [Consumer -> SUBSET Name], what it has received              *)
  faults   (* number of faults so far                                      *)

vars == <<net, pit, store, asked, got, faults>>

Sent(kind, from, links, packet) ==
  {[kind |-> kind, from |-> from, to |-> l, packet |-> packet] : l \in links}

Plain(n) == [name |-> n, inner |-> None, key |-> None]

(* The message named n, encrypted with the key into one under another name. *)
Sealed(outer, n, k) == [name |-> outer, inner |-> n, key |-> k]

Waiting(c) == asked[c] \ got[c]

Received(m, kind) == m.kind = kind /\ m.to \in Forwarder

(***************************************************************************)
(* Interests (_processInterest)                                            *)
(***************************************************************************)

(* The answer from the content store ends the processing.                  *)
Stored(m) == {p \in store[m.to] : p.name = m.packet.name}

AnswerFromStore(m) ==
  /\ Received(m, "Interest")
  /\ \E p \in Stored(m) :
       net' = (net \ {m}) \cup Sent("Content", m.to, {m.from}, p)
  /\ UNCHANGED <<pit, store, asked, got, faults>>

(* A packet under the forwarder's own public name is taken apart: the      *)
(* interest in it goes on, and the key in it is for the response.          *)
ForUs(m) ==
  /\ m.packet.name \in Outer
  /\ m.packet.name.to = m.to
  /\ m.packet.inner # None

Decapsulated(m) == IF ForUs(m) THEN Plain(m.packet.inner) ELSE m.packet

SealedKey(m) == IF ForUs(m) THEN m.packet.key ELSE None

(* athenaFIB_Lookup.  A route that has the ingress link among others is    *)
(* returned without that link and without the prefix.                      *)
Prefix(n) == IF n \in Outer THEN n.to ELSE n

MutantPrefixLost(f, n, ingress) ==
  LET r == Routes[f][Prefix(n)]
  IN IF r = None THEN [links |-> {}, to |-> None]
                 ELSE [links |-> r.links \ {ingress}, to |-> None]

Lookup(f, n, ingress) ==
  LET r == Routes[f][Prefix(n)]
  IN IF r = None THEN [links |-> {}, to |-> None]
     ELSE IF ingress \in r.links THEN [links |-> r.links \ {ingress}, to |-> None]
     ELSE r

RouteOf(m) == Lookup(m.to, Decapsulated(m).name, m.from)

NoRoute(m) ==
  /\ Received(m, "Interest")
  /\ Stored(m) = {}
  /\ RouteOf(m).links = {}
  /\ net' = net \ {m}
  /\ UNCHANGED <<pit, store, asked, got, faults>>

(* A key that nothing refers to stands for a fresh one.  A forwarder on    *)
(* the way knows it from the name only.                                    *)
Refers(x, k) == x.key = k \/ (x.name \in Outer /\ x.name.id = k)

FreeKeys == {k \in Key : /\ \A m \in net : ~Refers(m.packet, k)
                         /\ \A f \in Forwarder : \A e \in pit[f] : ~Refers(e, k)}

FreshKeys == {k \in FreeKeys : \A j \in FreeKeys : k <= j}

(* The packet that goes out and the response key kept for it, and what is  *)
(* left in the stores under an earlier use of a fresh key: nothing.        *)
Outgoing(m) ==
  IF RouteOf(m).to = None
    THEN {[packet |-> Decapsulated(m), key |-> SealedKey(m)]}
    ELSE {[packet |-> Sealed([to |-> RouteOf(m).to, id |-> k], Decapsulated(m).name, k),
           key |-> k] : k \in FreshKeys}

Forgotten(out) ==
  IF out.packet.name \in Outer /\ out.packet.key \in FreshKeys
    THEN store' = [f \in Forwarder |-> {p \in store[f] : ~Refers(p, out.key)}]
    ELSE UNCHANGED store

(* athenaPIT_AddInterest finds no pending interest ...                     *)
NewEntry(m, out) ==
  /\ \A e \in pit[m.to] : e.name # out.packet.name
  /\ pit' = [pit EXCEPT ![m.to] = @ \cup
       {[name |-> out.packet.name, links |-> {m.from},
         original |-> m.packet.name, key |-> out.key]}]

(* ... or one of the same link, and the interest is forwarded again; the   *)
(* entry keeps the original name and key it has ...                        *)
MutantNewestKey(m, out) ==
  \E e \in pit[m.to] :
    /\ e.name = out.packet.name
    /\ m.from \in e.links
    /\ pit' = [pit EXCEPT ![m.to] = (@ \ {e}) \cup {[e EXCEPT !.key = out.key]}]

MutantForgetsOriginal(m, out) ==
  \E e \in pit[m.to] :
    /\ e.name = out.packet.name
    /\ m.from \in e.links
    /\ pit' = [pit EXCEPT ![m.to] = (@ \ {e}) \cup {[e EXCEPT !.original = None]}]

SameLink(m, out) ==
  /\ \E e \in pit[m.to] : e.name = out.packet.name /\ m.from \in e.links
  /\ UNCHANGED pit

Forward(m) ==
  /\ Received(m, "Interest")
  /\ Stored(m) = {}
  /\ RouteOf(m).links # {}
  /\ \E out \in Outgoing(m) :
       /\ NewEntry(m, out) \/ SameLink(m, out)
       /\ Forgotten(out)
       /\ net' = (net \ {m}) \cup
                   Sent("Interest", m.to, RouteOf(m).links, out.packet)
  /\ UNCHANGED <<asked, got, faults>>

(* ... or one of other links, which this link joins; nothing is sent.      *)
MutantAnyLink(m, e) == TRUE

OtherLink(m, e) == m.from \notin e.links

Aggregate(m) ==
  /\ Received(m, "Interest")
  /\ Stored(m) = {}
  /\ RouteOf(m).links # {}
  /\ \E out \in Outgoing(m), e \in pit[m.to] :
       /\ e.name = out.packet.name
       /\ OtherLink(m, e)
       /\ pit' = [pit EXCEPT ![m.to] =
                    (@ \ {e}) \cup {[e EXCEPT !.links = @ \cup {m.from}]}]
  /\ net' = net \ {m}
  /\ UNCHANGED <<store, asked, got, faults>>

(***************************************************************************)
(* Content (_processContentObject)                                         *)
(***************************************************************************)

Pending(m) == {e \in pit[m.to] : e.name = m.packet.name}

(* The interest came encapsulated for this forwarder.                      *)
Encrypts(f, e) == e.original \in Outer /\ e.original.to = f

(* The content that goes on, none when it does not decrypt.                *)
MutantStaysSealed(m, e) ==
  IF e.key # None /\ Encrypts(m.to, e)
    THEN {Sealed(e.original, m.packet.name, e.key)}
    ELSE {m.packet}

Returned(m, e) ==
  IF e.key = None
    THEN {m.packet}
    ELSE IF Encrypts(m.to, e)
      THEN {Sealed(e.original, m.packet.name, e.key)}
      ELSE {p \in {Plain(m.packet.inner)} : m.packet.key = e.key}

DropUnasked(m) ==
  /\ Received(m, "Content")
  /\ Pending(m) = {}
  /\ net' = net \ {m}
  /\ UNCHANGED <<pit, store, asked, got, faults>>

(* athenaPIT_Match removes the entry, whether or not the content decrypts.  *)
(* A put may leave the name without findable content                       *)
(* (AthenaLRUContentStore).                                                *)
ReturnContent(m) ==
  /\ Received(m, "Content")
  /\ \E e \in Pending(m) :
       LET content == Returned(m, e)
       IN /\ pit' = [pit EXCEPT ![m.to] = @ \ {e}]
          /\ \E kept \in SUBSET content :
               store' = [store EXCEPT ![m.to] =
                           {q \in @ : \A p \in content : q.name # p.name} \cup kept]
          /\ net' = (net \ {m}) \cup
                      UNION {Sent("Content", m.to, e.links, p) : p \in content}
  /\ UNCHANGED <<asked, got, faults>>

(* The content store makes room for other content. *)
Evict(f) ==
  /\ faults < MaxFaults
  /\ \E p \in store[f] : store' = [store EXCEPT ![f] = @ \ {p}]
  /\ faults' = faults + 1
  /\ UNCHANGED <<net, pit, asked, got>>

(***************************************************************************)
(* The hosts and the links                                                 *)
(***************************************************************************)

Answer(m) ==
  /\ m.to \in Producer /\ m.kind = "Interest"
  /\ net' = (net \ {m}) \cup Sent("Content", m.to, {m.from}, Plain(m.packet.name))
  /\ UNCHANGED <<pit, store, asked, got, faults>>

(* A consumer uses content it is waiting for and can read.                 *)
Consume(m) ==
  /\ m.to \in Consumer
  /\ got' = [got EXCEPT ![m.to] = @ \cup ({m.packet.name} \cap Waiting(m.to))]
  /\ net' = net \ {m}
  /\ UNCHANGED <<pit, store, asked, faults>>

Ask(c, n) ==
  /\ n \in Wanted[c] \ asked[c]
  /\ asked' = [asked EXCEPT ![c] = @ \cup {n}]
  /\ net' = net \cup Sent("Interest", c, {Home[c]}, Plain(n))
  /\ UNCHANGED <<pit, store, got, faults>>

(* A client waits longer than any answer takes, then asks again ...        *)
Resend(c, n) ==
  /\ n \in Waiting(c)
  /\ net = {}
  /\ net' = Sent("Interest", c, {Home[c]}, Plain(n))
  /\ UNCHANGED <<pit, store, asked, got, faults>>

(* ... or, a bounded number of times, it does not wait that long.          *)
ResendEarly(c, n) ==
  /\ faults < MaxFaults
  /\ n \in Waiting(c)
  /\ net # {}
  /\ net' = net \cup Sent("Interest", c, {Home[c]}, Plain(n))
  /\ faults' = faults + 1
  /\ UNCHANGED <<pit, store, asked, got>>

Lose(m) ==
  /\ faults < MaxFaults
  /\ net' = net \ {m}
  /\ faults' = faults + 1
  /\ UNCHANGED <<pit, store, asked, got>>

(***************************************************************************)
(* The specification                                                       *)
(***************************************************************************)

Init ==
  /\ net = {}
  /\ pit = [f \in Forwarder |-> {}]
  /\ store = [f \in Forwarder |-> {}]
  /\ asked = [c \in Consumer |-> {}]
  /\ got = [c \in Consumer |-> {}]
  /\ faults = 0

(* athena_ProcessMessage and what the hosts do with a message. *)
Process(m) ==
  \/ AnswerFromStore(m)
  \/ NoRoute(m)
  \/ Forward(m)
  \/ Aggregate(m)
  \/ DropUnasked(m)
  \/ ReturnContent(m)
  \/ Answer(m)
  \/ Consume(m)

Next ==
  \/ \E m \in net : Process(m) \/ Lose(m)
  \/ \E f \in Forwarder : Evict(f)
  \/ \E c \in Consumer, n \in Name : Ask(c, n) \/ Resend(c, n) \/ ResendEarly(c, n)

Spec == Init /\ [][Next]_vars

(* Every engine goes on processing what arrives, and a client whose        *)
(* requests stay unanswered asks again for ever ("client will resend       *)
(* interest", athena.c:426 and :631): its timer finds the network quiet    *)
(* again and again, though not continuously.                               *)
FairSpec ==
  /\ Spec
  /\ WF_vars(\E m \in net : Process(m))
  /\ \A c \in Consumer, n \in Name : SF_vars(Resend(c, n))

(***************************************************************************)
(* Properties                                                              *)
(***************************************************************************)

TypeOK ==
  /\ net \subseteq Message
  /\ pit \in [Forwarder -> SUBSET PITEntry]
  /\ store \in [Forwarder -> SUBSET Packet]
  /\ asked \in [Consumer -> SUBSET Name]
  /\ got \in [Consumer -> SUBSET Name]
  /\ faults \in 0 .. MaxFaults

(* What the forwarders promise depends on how they are put together.  A    *)
(* name is tunnelled to a forwarder when some route for it encapsulates    *)
(* under the public name of that forwarder.                                *)
Encapsulates(f, n, t) == Routes[f][n] # None /\ Routes[f][n].to = t

TunnelledTo(n, t) == \E f \in Forwarder : Encapsulates(f, n, t)

(* Routes lead away from the consumers, and those of the tunnels to        *)
(* forwarders: no end host answers to the public name of a gateway.        *)
RoutesToGateways ==
  \A f \in Forwarder, d \in Name \cup Forwarder : Routes[f][d] # None =>
    /\ Routes[f][d].links \cap Consumer = {}
    /\ d \in Forwarder \/ Routes[f][d].to # None => Routes[f][d].links \subseteq Forwarder

(* The gateway at the end of a tunnel sends what comes out of it on in the *)
(* clear: one pending interest has one key, and cannot belong to two       *)
(* tunnels.                                                                *)
TunnelsEnd ==
  \A n \in Name, t \in Forwarder : TunnelledTo(n, t) => \A u \in Forwarder : ~Encapsulates(t, n, u)

(* The links a route encapsulates for, in both directions.                 *)
EncapsulatesOver(f, l) ==
  f \in Forwarder /\ \E n \in Name :
    Routes[f][n] # None /\ Routes[f][n].to # None /\ l \in Routes[f][n].links

TunnelLinks ==
  {p \in Node \X Node : EncapsulatesOver(p[1], p[2]) \/ EncapsulatesOver(p[2], p[1])}

(* The names behind a gateway are private: they are asked for through the  *)
(* tunnel or not at all, at that gateway and on the links of the tunnel.   *)
PrivateNames ==
  /\ \A n \in Name, t \in Forwarder : TunnelledTo(n, t) =>
       /\ \A c \in Consumer : Home[c] = t => n \notin Wanted[c]
       /\ \A f \in Forwarder : Routes[f][n] # None /\ t \in Routes[f][n].links => Routes[f][n].to # None
  /\ \A f \in Forwarder, n \in Name : Routes[f][n] # None =>
       \A l \in Routes[f][n].links : <<f, l>> \in TunnelLinks => Routes[f][n].to # None

(* Routes have no cycle: what is sealed for a gateway comes closer to it   *)
(* and never back to where it was sealed.                                  *)
Onward(f, t) ==
  {l \in Forwarder : \E d \in Name \cup {t} :
     /\ Routes[f][d] # None /\ l \in Routes[f][d].links
     /\ d = t \/ Routes[f][d].to = t}

Nearer(t, rank) == \A f \in Forwarder : \A l \in Onward(f, t) : rank[l] < rank[f]

NoCycle ==
  \A t \in Forwarder : \E rank \in [Forwarder -> 0..Cardinality(Forwarder)] : Nearer(t, rank)

PrivateNetworks == RoutesToGateways /\ TunnelsEnd /\ PrivateNames /\ NoCycle

(* Whatever crosses a link of the tunnel is sealed and under a public name: *)
(* interests are encapsulated before they leave (athena.c:569) and the     *)
(* content that answers them is encrypted (athena.c:786-838).              *)
TunnelCarriesSealed ==
  \A m \in net : <<m.from, m.to>> \in TunnelLinks =>
                   m.packet.name \in Outer /\ m.packet.key # None

(* The key in the pending interest of a gateway is the one the content for *)
(* it is encrypted with, though the gateway at the other end keeps the name *)
(* and key of the first of several requests: decryption never fails for an *)
(* honest message (athena.c:797).                                          *)
KeysAgree ==
  \A m \in net : Received(m, "Content") =>
    \A e \in Pending(m) : e.key # None /\ ~Encrypts(m.to, e) => m.packet.key = e.key

(* Consumers get content in the clear and only content they asked for,     *)
(* whoever else asked for it and whatever tunnel it came through.          *)
DeliveredInClear ==
  \A m \in net : m.to \in Consumer =>
    /\ m.kind = "Content"
    /\ m.packet.key = None
    /\ m.packet.name \in asked[m.to]

(* A request for a name that is routed is answered in the end: no pending  *)
(* interest at any forwarder swallows the retransmissions, and requests of *)
(* several consumers that meet in one pending interest do not starve one   *)
(* another, in spite of losses (athena_PIT.c:656, athena.c:617-635).       *)
Answered ==
  \A c \in Consumer : \A n \in Name :
    Routes[Home[c]][n] # None => (n \in asked[c] ~> n \in got[c])

=============================================================================
