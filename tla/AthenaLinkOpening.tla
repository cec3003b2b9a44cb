--------------------------- MODULE AthenaLinkOpening ---------------------------
(***************************************************************************)
(* How links come to be and go: the options of a URI, the system calls an  *)
(* open makes one after the other, what it undoes when one of them fails   *)
(* (athena_TransportLinkModuleTCP.c, ...UDP.c, ...ETH.c and the sockets    *)
(* under platform/), and the references that keep a link and its socket    *)
(* (athena_TransportLink.c, athena_TransportLinkModule.c).                 *)
(*                                                                         *)
(* A link is a piece of memory with a count of the references to it: one   *)
(* of its creator, one of each list it is in and one of each fragmenter    *)
(* that was made for it.  A socket is a descriptor; the Ethernet links of  *)
(* one listener have one between them, which is counted too.  One thread   *)
(* runs all of it; one step is one system call.  A URI that cannot be      *)
(* parsed does nothing.                                                    *)
(*                                                                         *)
(* Left out: addresses and the MTU, the loading of modules, the table of a *)
(* listener after one of its links was closed (AthenaDatagramLinks).  The  *)
(* Ethernet socket is the one of Linux; darwin's BPF device is left out.   *)
(* Mutant... definitions are the one after them with a bug the code could  *)
(* have had.                                                               *)
(***************************************************************************)
EXTENDS Naturals, Sequences, FiniteSets

CONSTANTS
  Uri,         (* [scheme, at: the name of its address, tokens: options]   *)
  Name,        (* names of links                                           *)
  PeerName,    (* those of them that are made of the addresses of a peer   *)
  MaxLinks,    (* bound: links at a time                                   *)
  MaxSockets,  (* descriptors the process can have                         *)
  Faults,      (* system calls that may fail                               *)
  Malformed,   (* value of an option that is not well-formed               *)
  None

Link == 1..MaxLinks
Socket == 1..MaxSockets
Scheme == {"TCP", "UDP", "ETH"}
Forced == {"true", "false"}  (* values of the option "local"               *)

SystemCalls == {"connect", "options", "nonblock", "bind", "listen", "getsockname",
                "interface", "address"}
Step == SystemCalls \cup {"socket", "accept", "dup", "acquire", "create", "fragmenter", "add"}

(* A link, and what is known of one that is being made.                    *)
LinkState ==
  [uri : Uri, of : Link \cup {None}, name : Name, listens : BOOLEAN,
   forced : Forced \cup {None}, socket : Socket \cup {None},
   keeper : Link \cup {None}, refs : Nat \ {0}]

Work ==
  [uri : Uri, of : Link \cup {None}, name : Name, listens : BOOLEAN,
   forced : Forced \cup {None}, socket : Socket \cup {None},
   keeper : Link \cup {None}, todo : Seq(Step), link : Link \cup {None}]

(* What others can tell of a link. *)
Description ==
  [uri : Uri, of : Link \cup {None}, name : Name, listens : BOOLEAN,
   forced : Forced \cup {None}, fragments : BOOLEAN]

ASSUME OpeningAssumption ==
  /\ MaxLinks \in Nat \ {0} /\ MaxSockets \in Nat \ {0}
  /\ \A u \in Uri : /\ u.scheme \in Scheme /\ u.at \in Name
                    /\ u.tokens \in Seq([opt : STRING, is : Name \cup Forced \cup {"set", Malformed}])
                    /\ \A i \in DOMAIN u.tokens :
                         /\ u.tokens[i].opt = "name" => u.tokens[i].is \in Name \cup {Malformed}
                         /\ u.tokens[i].opt = "local" => u.tokens[i].is \in Forced \cup {Malformed}
  /\ PeerName \subseteq Name
  /\ None \notin Nat \cup Name \cup Forced
  /\ None \notin LinkState /\ None \notin Work /\ None \notin Description

VARIABLES
  link,    (* [Link -> LinkState, None for memory that is free]            *)
  shares,  (* [Socket -> references to it, 0 when it is closed]            *)
  listed,  (* links in the lists of the adapter                            *)
  owned,   (* links in the list of the module                              *)
  work,    (* the link being made, None between two of them                *)
  lost     (* sockets that were left open by an open that failed           *)

lists == <<listed, owned>>
vars  == <<link, shares, lists, work, lost>>

Least(S) == CHOOSE x \in S : \A y \in S : x <= y

Memory == {l \in Link : link[l] = None}
Present == Link \ Memory
Unused == {d \in Socket : shares[d] = 0}

Init ==
  /\ link = [l \in Link |-> None]
  /\ shares = [d \in Socket |-> 0]
  /\ listed = {} /\ owned = {}
  /\ work = None
  /\ lost = {}

(***************************************************************************)
(* The options of a URI                                                    *)
(***************************************************************************)
Options ==
  [scheme \in Scheme |-> {"listener", "name", "local"} \cup
     (IF scheme = "TCP" THEN {} ELSE {"src", "fragmenter", "mtu"})]

NoParameters == [listens |-> FALSE, name |-> None, forced |-> None,
                 source |-> FALSE, fragments |-> FALSE]

WithOption(p, t) ==
  [listens   |-> p.listens \/ t.opt = "listener",
   name      |-> IF t.opt = "name" THEN t.is ELSE p.name,
   forced    |-> IF t.opt = "local" THEN t.is ELSE p.forced,
   source    |-> p.source \/ t.opt = "src",
   fragments |-> p.fragments \/ t.opt = "fragmenter"]

(* One bad option is the end of it.                                        *)
Parsed(scheme, p, t) ==
  IF p = Malformed \/ t.is = Malformed \/ t.opt \notin Options[scheme] THEN Malformed
  ELSE WithOption(p, t)

Parameters(u) ==
  LET read[n \in 0..Len(u.tokens)] ==
        IF n = 0 THEN NoParameters ELSE Parsed(u.scheme, read[n - 1], u.tokens[n])
  IN read[Len(u.tokens)]

(***************************************************************************)
(* What an open does, in order                                             *)
(***************************************************************************)
TCPCalls(p) ==
  IF p.listens THEN <<"socket", "options", "nonblock", "bind", "listen">>
  ELSE <<"socket", "connect", "options", "getsockname">>

UDPCalls(p) ==
  IF p.listens THEN <<"socket", "options", "nonblock", "bind">>
  ELSE <<"socket", "options">> \o (IF p.source THEN <<"bind">> ELSE <<>>) \o <<"getsockname">>

(* athenaEthernet_Create, the same for both kinds of link                  *)
ETHCalls == <<"socket", "interface", "bind", "address">>

Calls(u, p) ==
  CASE u.scheme = "TCP" -> TCPCalls(p)
    [] u.scheme = "UDP" -> UDPCalls(p)
    [] u.scheme = "ETH" -> ETHCalls

Steps(u, p) ==
  Calls(u, p) \o <<"create">> \o (IF p.fragments THEN <<"fragmenter">> ELSE <<>>) \o <<"add">>

(* A link made for a peer of a listener: the TCP listener accepts it; the  *)
(* others have the socket already.                                         *)
CloneSteps(k) ==
  CASE link[k].uri.scheme = "TCP" -> <<"accept", "create", "add">>
    [] link[k].uri.scheme = "UDP" -> <<"fragmenter", "dup", "create", "add">>
    [] link[k].uri.scheme = "ETH" -> <<"fragmenter", "acquire", "create", "add">>

NoWork == work = None

Room == Memory # {}  (* the bound *)

BeginOpen(u) ==
  LET p == Parameters(u)
  IN /\ NoWork /\ Room
     /\ p # Malformed
     /\ work' = [uri |-> u, of |-> None, listens |-> p.listens, forced |-> p.forced,
                 name |-> IF p.name = None THEN u.at ELSE p.name,
                 todo |-> Steps(u, p), socket |-> None, keeper |-> None, link |-> None]
     /\ UNCHANGED <<link, shares, lists, lost>>

BeginClone(k, n) ==
  /\ NoWork /\ Room
  /\ k \in listed /\ link[k].listens
  /\ work' = [uri |-> link[k].uri, of |-> k, listens |-> FALSE, forced |-> link[k].forced,
              name |-> n, todo |-> CloneSteps(k), socket |-> None, keeper |-> None, link |-> None]
  /\ UNCHANGED <<link, shares, lists, lost>>

Doing(step) == work # None /\ work.todo[1] = step

Done(w) == work' = [w EXCEPT !.todo = Tail(@)]

(* A descriptor of its own; without one, dup leaves the link without.      *)
TakeSocket ==
  /\ Doing("socket") \/ Doing("accept") \/ Doing("dup")
  /\ IF Unused = {}
       THEN Doing("dup") /\ Done(work) /\ UNCHANGED shares
       ELSE /\ Done([work EXCEPT !.socket = Least(Unused)])
            /\ shares' = [shares EXCEPT ![Least(Unused)] = 1]
  /\ UNCHANGED <<link, lists, lost>>

ShareSocket ==
  /\ Doing("acquire")
  /\ Done([work EXCEPT !.socket = link[work.of].socket])
  /\ shares' = [shares EXCEPT ![link[work.of].socket] = @ + 1]
  /\ UNCHANGED <<link, lists, lost>>

Call ==
  /\ \E step \in SystemCalls : Doing(step)
  /\ Done(work)
  /\ UNCHANGED <<link, shares, lists, lost>>

CreateLink ==
  LET l == Least(Memory)
  IN /\ Doing("create")
     /\ link' = [link EXCEPT ![l] =
          [uri |-> work.uri, of |-> work.of, name |-> work.name, listens |-> work.listens,
           forced |-> work.forced, socket |-> work.socket, keeper |-> work.keeper, refs |-> 1]]
     /\ Done([work EXCEPT !.link = l])
     /\ UNCHANGED <<shares, lists, lost>>

(* athenaFragmenter_Create acquires the link it is made for: the link      *)
(* itself when one is opened, the listener when one is made for a peer.    *)
KeepFor(k) == [link EXCEPT ![k].refs = @ + 1]

CreateFragmenter ==
  /\ Doing("fragmenter")
  /\ IF work.of = None
       THEN /\ link' = [KeepFor(work.link) EXCEPT ![work.link].keeper = work.link]
            /\ Done(work)
       ELSE IF link[work.of].keeper = None THEN Done(work) /\ UNCHANGED link
       ELSE link' = KeepFor(work.of) /\ Done([work EXCEPT !.keeper = work.of])
  /\ UNCHANGED <<shares, lists, lost>>

NameTaken(n) == \E k \in listed : link[k].name = n

(* The adapter and the module each acquire a link that is added.           *)
AddLink ==
  /\ Doing("add")
  /\ ~NameTaken(work.name)
  /\ link' = [link EXCEPT ![work.link].refs = @ + 2]
  /\ listed' = listed \cup {work.link} /\ owned' = owned \cup {work.link}
  /\ work' = None
  /\ UNCHANGED <<shares, lost>>

(***************************************************************************)
(* Undoing                                                                 *)
(***************************************************************************)

(* _TCPClose, _UDPClose close the descriptor, _ETHClose releases it.       *)
Closed(C) == [d \in Socket |->
  LET users == {l \in C : link[l].socket = d} IN shares[d] - Cardinality(users)]

(* What a close gives back: the reference of the creator, those of the     *)
(* lists and those of the fragmenters.                                     *)
Released(x, C) ==
  (IF x \in C THEN 1 ELSE 0) + (IF x \in C \cap listed THEN 1 ELSE 0)
    + (IF x \in C \cap owned THEN 1 ELSE 0) + Cardinality({l \in C : link[l].keeper = x})

CloseLinks(C) ==
  /\ link' = [x \in Link |->
       IF link[x] = None \/ link[x].refs = Released(x, C) THEN None
       ELSE [link[x] EXCEPT !.refs = @ - Released(x, C)]]
  /\ shares' = Closed(C)
  /\ listed' = listed \ C /\ owned' = owned \ C

MutantAloneCloses(k) == {}

(* A datagram listener closes the links of its table (_closeConnection).   *)
ClosedWith(k) == {l \in listed : link[l].of = k /\ link[l].uri.scheme # "TCP"}

Close(k) ==
  /\ NoWork
  /\ k \in listed
  /\ CloseLinks({k} \cup ClosedWith(k))
  /\ UNCHANGED <<work, lost>>

(* The calls after which a failed open does not close its descriptor.      *)
LeftOpen == {<<"TCP", "connect">>, <<"TCP", "getsockname">>, <<"UDP", "getsockname">>}

MutantNeverCloses(step) == {}

ClosedAfter(step) ==
  IF work.socket = None \/ <<work.uri.scheme, step>> \in LeftOpen THEN {} ELSE {work.socket}

CallFails ==
  \E step \in Faults \cap ({"socket", "accept"} \cup SystemCalls) :
    /\ Doing(step)
    /\ shares' = [d \in Socket |-> IF d \in ClosedAfter(step) THEN 0 ELSE shares[d]]
    /\ lost' = IF <<work.uri.scheme, step>> \in LeftOpen THEN lost \cup {work.socket} ELSE lost
    /\ work' = None
    /\ UNCHANGED <<link, lists>>

NoSocket ==
  /\ Doing("socket") \/ Doing("accept")
  /\ Unused = {}
  /\ work' = None
  /\ UNCHANGED <<link, shares, lists, lost>>

(* A link that was opened is closed again; the lists do not have it yet.   *)
FragmenterFails ==
  /\ "fragmenter" \in Faults
  /\ Doing("fragmenter") /\ work.of = None
  /\ CloseLinks({work.link})
  /\ work' = None
  /\ UNCHANGED lost

(* The link of a peer does without: the failure is logged, no more.        *)
CloneGoesWithout ==
  /\ "fragmenter" \in Faults
  /\ Doing("fragmenter") /\ work.of # None
  /\ link[work.of].keeper # None
  /\ Done(work)
  /\ UNCHANGED <<link, shares, lists, lost>>

OpenRefused ==
  /\ Doing("add") /\ work.of = None
  /\ NameTaken(work.name)
  /\ CloseLinks({work.link})
  /\ work' = None
  /\ UNCHANGED lost

(* The TCP link of a peer that is refused has its descriptor closed and is *)
(* released.                                                               *)
CloneRefused ==
  /\ Doing("add") /\ work.of # None /\ work.uri.scheme = "TCP"
  /\ NameTaken(work.name)
  /\ link' = [link EXCEPT ![work.link] = None]
  /\ shares' = [shares EXCEPT ![work.socket] = @ - 1]
  /\ work' = None
  /\ UNCHANGED <<lists, lost>>

(* The UDP or ETH link of a peer that is refused is released, and its      *)
(* event is set next, through the pointer the release has cleared: the     *)
(* process stops, and a new one starts with nothing.                       *)
CloneCrashes ==
  /\ Doing("add") /\ work.of # None /\ work.uri.scheme # "TCP"
  /\ NameTaken(work.name)
  /\ link' = [l \in Link |-> None]
  /\ shares' = [d \in Socket |-> 0]
  /\ listed' = {} /\ owned' = {}
  /\ work' = None
  /\ lost' = {}

Undo ==
  \/ CallFails \/ NoSocket
  \/ FragmenterFails \/ CloneGoesWithout
  \/ OpenRefused \/ CloneRefused \/ CloneCrashes

Next ==
  \/ \E u \in Uri : BeginOpen(u)
  \/ \E k \in Link, n \in PeerName : BeginClone(k, n)
  \/ TakeSocket \/ ShareSocket \/ Call
  \/ CreateLink \/ CreateFragmenter \/ AddLink
  \/ Undo
  \/ \E k \in Link : Close(k)

Spec == Init /\ [][Next]_vars

(***************************************************************************)
(* Properties                                                              *)
(***************************************************************************)
(* A link in use holds memory, is in both lists or in neither, and a link  *)
(* with the count of its references at 0 is free (_destroy_link).          *)
TypeOK ==
  /\ link \in [Link -> LinkState \cup {None}]
  /\ shares \in [Socket -> Nat]
  /\ listed = owned /\ listed \subseteq Present
  /\ Present \subseteq listed \cup (IF NoWork THEN {} ELSE {work.link})
  /\ lost \subseteq Socket \ Unused
  /\ work \in Work \cup {None}
  /\ work # None => Len(work.todo) > 0

Holders(l) ==
  1 + (IF l \in listed THEN 1 ELSE 0) + (IF l \in owned THEN 1 ELSE 0)
    + Cardinality({k \in Present : link[k].keeper = l})
    + (IF work # None /\ work.link = None /\ work.keeper = l THEN 1 ELSE 0)

Users(d) ==
  Cardinality({l \in Present : link[l].socket = d})
    + (IF work # None /\ work.link = None /\ work.socket = d THEN 1 ELSE 0)

(* As long as the process runs, however opens fail, peers come and links   *)
(* are closed, a link has as many references as there are holders of it, a *)
(* descriptor as many as there are users, and none is open without one but *)
(* those an open forgot (athenaTransportLink_Acquire and _Release,         *)
(* athenaEthernet_Acquire and _Release, close).  What the process leaves   *)
(* when it stops (CloneCrashes) is the operating system's.                 *)
ResourcesCounted ==
  /\ TypeOK
  /\ \A l \in Present : link[l].refs = Holders(l)
  /\ \A d \in Socket : shares[d] = Users(d) + (IF d \in lost THEN 1 ELSE 0)

OpenedAs(l) ==
  IF l \notin listed THEN None
  ELSE [uri |-> link[l].uri, of |-> link[l].of, name |-> link[l].name,
        listens |-> link[l].listens, fragments |-> link[l].keeper # None,
        forced |-> link[l].forced]

Opened == INSTANCE OpenLinks WITH opened <- [l \in Link |-> OpenedAs(l)]

(* An open makes the link its URI describes, the last of each option       *)
(* counting, or none at all; no two links have one name; the link of a     *)
(* peer has what its listener has, but for a fragmenter it may lack, and   *)
(* goes with the listener when they share a socket; and they all may stop  *)
(* at once (athenaTransportLinkModule_Open, _cloneNewLink,                 *)
(* _closeConnection).                                                      *)
ImplementsOpenLinks == Opened!Spec

(* "Use the same fragmentation as our parent"                              *)
(* (athena_TransportLinkModuleUDP.c:403): the link of a peer has a         *)
(* fragmenter exactly if its listener has one.  Not so once the making of  *)
(* the fragmenter has failed (_cloneNewLink).                              *)
PeersFragmentAsTheirListener ==
  \A l \in listed : link[l].of # None /\ link[l].uri.scheme # "TCP" =>
    (link[l].keeper = None) = (link[link[l].of].keeper = None)
=============================================================================
