---------------------- MODULE AthenaTransportLinkAdapter ----------------------
(***************************************************************************)
(* The link adapter (athena_TransportLinkAdapter.c) with the links and the *)
(* module that own them (athena_TransportLink.c,                           *)
(* athena_TransportLinkModule.c), under the engine loop of athena.c.       *)
(*                                                                         *)
(* One thread runs all of it; the other ends of the links and the          *)
(* connections made to the listeners interleave with it.  One step is what *)
(* the thread does between two looks at a socket: one link read, one       *)
(* connection accepted, one poll(), one message processed.  A close is     *)
(* part of the step it happens in, with everything it calls: the module    *)
(* and the adapter forget the link and _removeLink of athena.c clears its  *)
(* id from the FIB and the PIT, which are here the sets of ids they hold.  *)
(*                                                                         *)
(* Between the messages the engine hands out, its caller (a start-up       *)
(* program, a control message) opens and closes links and adds routes.     *)
(* An id is an index of the instance list, from 1 here and from 0 there.   *)
(* Left out: several modules, the codec, statistics, logs and the list of  *)
(* links for a query.  Definitions named Mutant... are the one after them  *)
(* with a bug the code could have had.                                     *)
(***************************************************************************)
EXTENDS Naturals, Sequences, FiniteSets, SequencesExt

CONSTANTS
  Link,         (* links; a closed one that nothing has stands for a new one *)
  Name,         (* names of links                                          *)
  MaxInput,     (* bound: messages that wait in a socket                   *)
  StrayRoutes,  (* control messages may name the id of no link             *)
  None

ASSUME AdapterAssumption ==
  /\ IsFiniteSet(Link)
  /\ MaxInput \in Nat \ {0}
  /\ StrayRoutes \in BOOLEAN
  /\ None \notin Link \cup Name

VARIABLES
  link,       (* [Link -> LinkState], Gone for the links that are not there *)
  slot,       (* instanceList                                              *)
  listeners,  (* listenerList                                              *)
  polled,     (* pollfdTransportLink                                       *)
  owned,      (* instanceList of the module                                *)
  routes,     (* ids in vectors of the FIB                                 *)
  pending,    (* ids in vectors of the PIT                                 *)
  phase,      (* what the thread is doing                                  *)
  at,         (* the index its loop has reached                            *)
  next,       (* nextLinkToRead                                            *)
  read,       (* the link read last                                        *)
  input,      (* [Link -> messages in the socket]                          *)
  waiting,    (* [Link -> connections a listener has not accepted]         *)
  peer        (* [Link -> state of the other end]                          *)

table   == <<slot, listeners, polled, owned>>
holders == <<routes, pending>>
thread  == <<phase, at, next, read>>
sockets == <<input, waiting, peer>>
vars    == <<link, table, holders, thread, sockets>>

Event == {"Receive", "Error"}
LinkState == [name : Name \cup {None}, listens : BOOLEAN, events : SUBSET Event]
Gone == [name |-> None, listens |-> FALSE, events |-> {}]

Phase == {"Start", "Search", "Listen", "Poll", "ListenAgain", "SearchAgain", "Process",
          "CloseListeners", "CloseInstances", "DestroyModules", "Destroyed"}

Present  == {l \in Link : link[l] # Gone}
Unmade   == {l \in Link : l \notin Present /\ \A k \in Link : l \notin waiting[k]}
SlotsOf(C) == {i \in DOMAIN slot : slot[i] \in C}

Init ==
  /\ link = [l \in Link |-> Gone]
  /\ slot = <<>> /\ listeners = <<>> /\ polled = <<>> /\ owned = <<>>
  /\ routes = {} /\ pending = {}
  /\ phase = "Start" /\ at = 1 /\ next = 1 /\ read = None
  /\ input = [l \in Link |-> 0]
  /\ waiting = [l \in Link |-> {}]
  /\ peer = [l \in Link |-> "up"]

(***************************************************************************)
(* Adding and removing                                                     *)
(***************************************************************************)

(* The first vacant place is taken before the list grows: the instance     *)
(* list and the poll lists alike.                                          *)
Placed(list, l) ==
  LET vacant == {i \in DOMAIN list : list[i] = None}
  IN IF vacant = {} THEN Append(list, l)
     ELSE [list EXCEPT ![CHOOSE i \in vacant : \A j \in vacant : i <= j] = l]

Blanked(list, C) == [i \in DOMAIN list |-> IF list[i] \in C THEN None ELSE list[i]]

MutantLeavesHole(list, C) == Blanked(list, C)

Without(list, C) ==
  LET kept[n \in 0..Len(list)] ==
        IF n = 0 THEN <<>>
        ELSE IF list[n] \in C THEN kept[n - 1] ELSE Append(kept[n - 1], list[n])
  IN kept[Len(list)]

NameTaken(n) == \E k \in ToSet(listeners \o slot) \ {None} : link[k].name = n

AddLink(l, n, listens, old) ==
  /\ link' = [old EXCEPT ![l] = [name |-> n, listens |-> listens, events |-> {}]]
  /\ IF listens
       THEN listeners' = Append(listeners, l) /\ UNCHANGED slot
       ELSE slot' = Placed(slot, l) /\ UNCHANGED listeners
  /\ polled' = Placed(polled, l)
  /\ owned' = Append(owned, l)

(* The sockets of closed links are gone, and with them what was in them.   *)
Disconnect(C) ==
  /\ input' = [l \in Link |-> IF l \in C THEN 0 ELSE input[l]]
  /\ waiting' = [l \in Link |-> IF l \in C THEN {} ELSE waiting[l]]
  /\ peer' = [l \in Link |-> IF l \in C THEN "up" ELSE peer[l]]

MutantNotPolled(C) == Blanked(polled, C \cap ToSet(slot))

Unpolled(C) == Blanked(polled, C)

(* _removeLink of athena.c, called for a link that has an id.              *)
Forget(C) ==
  /\ routes' = routes \ SlotsOf(C)
  /\ pending' = pending \ SlotsOf(C)

CloseLinks(C, old) ==
  /\ link' = [l \in Link |-> IF l \in C THEN Gone ELSE old[l]]
  /\ slot' = Blanked(slot, C)
  /\ listeners' = Without(listeners, C)
  /\ polled' = Unpolled(C)
  /\ owned' = Without(owned, C)
  /\ Forget(C)
  /\ Disconnect(C)

(***************************************************************************)
(* What the caller does with the adapter between two messages              *)
(***************************************************************************)
CallerHasControl == phase \in {"Start", "Process"}

(* One thing is done for a message; the start-up program does several      *)
(* before it calls the engine.                                             *)
Return == IF phase = "Start" THEN UNCHANGED thread
          ELSE phase' = "Search" /\ at' = next /\ read' = None /\ UNCHANGED next

Open(l, n, listens) ==
  /\ CallerHasControl
  /\ l \in Unmade
  /\ IF NameTaken(n) THEN UNCHANGED <<link, table>> ELSE AddLink(l, n, listens, link)
  /\ Return
  /\ UNCHANGED <<holders, sockets>>

CloseByName(n) ==
  /\ phase = "Process"
  /\ \E l \in Present : link[l].name = n /\ CloseLinks({l}, link)
  /\ Return

(* An id comes from a link name, the ingress of the message or, unchecked, *)
(* from the message itself.                                                *)
Ids == IF StrayRoutes THEN 1..Cardinality(Link) ELSE SlotsOf(Link)

AddRoute(i) ==
  /\ CallerHasControl
  /\ i \in Ids
  /\ routes' = routes \cup {i}
  /\ Return
  /\ UNCHANGED <<link, table, pending, sockets>>

DeleteRoute(i) ==
  /\ phase = "Process"
  /\ i \in routes
  /\ routes' = routes \ {i}
  /\ Return
  /\ UNCHANGED <<link, table, pending, sockets>>

(* An interest waits with the id of its ingress, which _retrieve_next_message *)
(* returned as the index it stopped at.                                    *)
Interest ==
  /\ phase = "Process"
  /\ pending' = pending \cup {next - 1}
  /\ Return
  /\ UNCHANGED <<link, table, routes, sockets>>

(* The answer goes to the links that wait for it.  A send on a broken      *)
(* connection fails and marks the link.                                    *)
FailedSends(ids) == {slot[i] : i \in {j \in ids : peer[slot[j]] = "reset"}}

Answer(i) ==
  /\ phase = "Process"
  /\ i \in pending
  /\ pending' = pending \ {i}
  /\ link' = [l \in Link |-> IF l \in FailedSends({i} \cap SlotsOf(Link))
                THEN [link[l] EXCEPT !.events = @ \cup {"Error"}] ELSE link[l]]
  /\ Return
  /\ UNCHANGED <<table, routes, sockets>>

(* A message with no effect on links: no route, answered from the store... *)
Ignore ==
  /\ CallerHasControl
  /\ phase' = "Search" /\ at' = next /\ read' = None
  /\ UNCHANGED <<link, table, holders, next, sockets>>

Kill ==
  /\ CallerHasControl
  /\ phase' = "CloseListeners"
  /\ UNCHANGED <<link, table, holders, at, next, read, sockets>>

(***************************************************************************)
(* athenaTransportLinkAdapter_Receive                                      *)
(***************************************************************************)
Readable(list) ==
  {i \in at..Len(list) : list[i] # None /\ "Receive" \in link[list[i]].events}

Visits(list, i) == i \in Readable(list) /\ \A j \in Readable(list) : i <= j

GoTo(p, index) == phase' = p /\ at' = index

(* A link marked with an error is closed when it is read.                  *)
CloseVisited(list) ==
  /\ \E i \in DOMAIN list :
       /\ Visits(list, i)
       /\ "Error" \in link[list[i]].events
       /\ CloseLinks({list[i]}, link)
       /\ GoTo(phase, i + 1)
       /\ read' = list[i]
  /\ UNCHANGED next

(* The event is cleared before the read; a read that finds the other end   *)
(* gone marks the link.                                                    *)
AfterRead(l) ==
  [link EXCEPT ![l].events = IF input[l] = 0 /\ peer[l] # "up" THEN {"Error"} ELSE {}]

Serviced(l) == [link EXCEPT ![l].events = {}]

Searching == phase \in {"Search", "SearchAgain"}
Listening == phase \in {"Listen", "ListenAgain"}

NextLinkToRead(i) == next' = i + 1

ReadLink ==
  /\ Searching
  /\ \E i \in DOMAIN slot :
       /\ Visits(slot, i)
       /\ "Error" \notin link[slot[i]].events
       /\ link' = AfterRead(slot[i])
       /\ read' = slot[i]
       /\ input' = [input EXCEPT ![slot[i]] = IF @ = 0 THEN 0 ELSE @ - 1]
       /\ \/ GoTo(phase, i + 1) /\ UNCHANGED next        \* nothing, or nothing decodable
          \/ input[slot[i]] > 0 /\ GoTo("Process", 1) /\ NextLinkToRead(i)
  /\ UNCHANGED <<table, holders, waiting, peer>>

CloseLink == Searching /\ CloseVisited(slot)

CloseListener == Listening /\ CloseVisited(listeners)

(* A listener accepts one connection at a time.  When its name is taken    *)
(* the connection is closed.                                               *)
Accept ==
  /\ Listening
  /\ \E i \in DOMAIN listeners, l \in Link, n \in Name :
       /\ Visits(listeners, i)
       /\ l \in waiting[listeners[i]]
       /\ "Error" \notin link[listeners[i]].events
       /\ waiting' = [waiting EXCEPT ![listeners[i]] = @ \ {l}]
       /\ IF NameTaken(n) THEN link' = Serviced(listeners[i]) /\ UNCHANGED table
          ELSE AddLink(l, n, FALSE, Serviced(listeners[i]))
       /\ GoTo(phase, i + 1)
       /\ read' = listeners[i]
  /\ UNCHANGED <<holders, next, input, peer>>

(* A connection that was withdrawn is gone; one there is no descriptor for *)
(* goes on waiting.  A failed read of a datagram listener marks it.        *)
AcceptFails ==
  /\ Listening
  /\ \E i \in DOMAIN listeners :
       /\ Visits(listeners, i)
       /\ "Error" \notin link[listeners[i]].events
       /\ link' \in {Serviced(listeners[i]), [link EXCEPT ![listeners[i]].events = {"Error"}]}
       /\ \E withdrawn \in SUBSET waiting[listeners[i]] :
            waiting' = [waiting EXCEPT ![listeners[i]] = @ \ withdrawn]
       /\ GoTo(phase, i + 1)
       /\ read' = listeners[i]
  /\ UNCHANGED <<table, holders, next, input, peer>>

(* The end of a traversal; after the last one the engine calls again.      *)
EndOfSearch ==
  /\ Searching
  /\ Readable(slot) = {}
  /\ IF phase = "Search" THEN GoTo("Listen", 1) ELSE GoTo("Search", next)
  /\ read' = None
  /\ UNCHANGED <<link, table, holders, next, sockets>>

EndOfListeners ==
  /\ Listening
  /\ Readable(listeners) = {}
  /\ IF phase = "Listen" THEN GoTo("Poll", 1) /\ UNCHANGED next
     ELSE GoTo("SearchAgain", 1) /\ next' = 1
  /\ read' = None
  /\ UNCHANGED <<link, table, holders, sockets>>

(* athenaTransportLinkAdapter_Poll blocks until a socket has something.    *)
HasInput(l) == input[l] > 0 \/ waiting[l] # {} \/ peer[l] = "ended"
HasHungUp(l) == peer[l] = "reset"
Watched == ToSet(polled) \ {None}

MutantFirstOnly ==
  {polled[i] : i \in {j \in DOMAIN polled : /\ polled[j] \in Watched /\ HasInput(polled[j])
     /\ \A k \in 1..j - 1 : polled[k] = None \/ ~HasInput(polled[k])}}

Signalled == {l \in Watched : HasInput(l)}

Poll ==
  /\ phase = "Poll"
  /\ \E l \in Watched : HasInput(l) \/ HasHungUp(l)
  /\ CloseLinks({l \in Watched : HasHungUp(l)},
                [l \in Link |-> IF l \in Signalled
                   THEN [link[l] EXCEPT !.events = @ \cup {"Receive"}] ELSE link[l]])
  /\ GoTo("ListenAgain", 1)
  /\ UNCHANGED <<next, read>>

(***************************************************************************)
(* athenaTransportLinkAdapter_Destroy.  A close shortens the list of       *)
(* listeners under the loop, which misses every second one; the module,    *)
(* which closes its first link as often as it has links, finds them.       *)
(***************************************************************************)
EverySecond(list) == {list[i] : i \in {j \in DOMAIN list : j % 2 = 1}}

DestroyStep(from, C, to) ==
  /\ phase = from
  /\ CloseLinks(C, link)
  /\ GoTo(to, 1)
  /\ UNCHANGED <<next, read>>

MutantModuleKeeps == DestroyStep("DestroyModules", {}, "Destroyed")

DestroyModules == DestroyStep("DestroyModules", ToSet(owned), "Destroyed")

Destroy ==
  \/ DestroyStep("CloseListeners", EverySecond(listeners), "CloseInstances")
  \/ DestroyStep("CloseInstances", ToSet(slot) \ {None}, "DestroyModules")
  \/ DestroyModules

(***************************************************************************)
(* The other ends                                                          *)
(***************************************************************************)
Arrive(l) ==
  /\ l \in Present /\ ~link[l].listens
  /\ peer[l] = "up" /\ input[l] < MaxInput
  /\ input' = [input EXCEPT ![l] = @ + 1]
  /\ UNCHANGED <<link, table, holders, thread, waiting, peer>>

Connect(l, k) ==
  /\ k \in Present /\ link[k].listens
  /\ l \in Unmade
  /\ waiting' = [waiting EXCEPT ![k] = @ \cup {l}]
  /\ UNCHANGED <<link, table, holders, thread, input, peer>>

HangUp(l, how) ==
  /\ l \in Present
  /\ peer[l] = "up"
  /\ how = "reset" \/ ~link[l].listens
  /\ peer' = [peer EXCEPT ![l] = how]
  /\ UNCHANGED <<link, table, holders, thread, input, waiting>>

Environment ==
  \/ \E l \in Link : Arrive(l) \/ \E k \in Link : Connect(l, k)
  \/ \E l \in Link, how \in {"ended", "reset"} : HangUp(l, how)

Caller ==
  \/ \E l \in Link, n \in Name, listens \in BOOLEAN : Open(l, n, listens)
  \/ \E n \in Name : CloseByName(n)
  \/ \E i \in 1..Cardinality(Link) : AddRoute(i) \/ DeleteRoute(i) \/ Answer(i)
  \/ Interest \/ Ignore \/ Kill

Receive ==
  \/ ReadLink \/ CloseLink \/ EndOfSearch
  \/ Accept \/ AcceptFails \/ CloseListener \/ EndOfListeners
  \/ Poll

Next == Caller \/ Receive \/ Destroy \/ Environment

(* The thread goes on while it can; nothing makes the others do anything.  *)
Spec == Init /\ [][Next]_vars /\ WF_vars(Caller \/ Receive \/ Destroy)

(***************************************************************************)
(* Properties                                                              *)
(***************************************************************************)
TypeOK ==
  /\ link \in [Link -> LinkState]
  /\ slot \in Seq(Link \cup {None}) /\ polled \in Seq(Link \cup {None})
  /\ listeners \in Seq(Link) /\ owned \in Seq(Link)
  /\ routes \subseteq 1..Cardinality(Link) /\ pending \subseteq 1..Cardinality(Link)
  /\ phase \in Phase /\ at \in Nat /\ next \in Nat /\ read \in Link \cup {None}
  /\ input \in [Link -> 0..MaxInput]
  /\ waiting \in [Link -> SUBSET Link]
  /\ peer \in [Link -> {"up", "ended", "reset"}]

Once(list, C) == \A l \in C : Cardinality({i \in DOMAIN list : list[i] = l}) = 1

(* Four lists know of a link and each is kept by hand: whatever was opened,*)
(* accepted and closed, from whichever loop, the lists agree on the links  *)
(* there are and have each once.  A closed link that stays in a poll list  *)
(* is a pointer into freed memory, one that is missing is never read.      *)
ListsAgree ==
  /\ ToSet(slot) \ {None} = {l \in Present : ~link[l].listens}
  /\ ToSet(listeners) = {l \in Present : link[l].listens}
  /\ Watched = Present /\ ToSet(owned) = Present
  /\ Once(slot \o listeners, Present) /\ Once(polled, Present) /\ Once(owned, Present)

UsersOf(l) == {u \in {"route", "pending"} :
  SlotsOf({l}) \cap (IF u = "route" THEN routes ELSE pending) # {}}

Table == INSTANCE LinkTable WITH
  name <- [l \in Link |-> link[l].name],
  users <- [l \in Link |-> UsersOf(l)],
  User <- {"route", "pending"},
  stopped <- phase = "Destroyed"

(* Ids are used again as soon as a link is gone, and routes and pending    *)
(* interests hold ids.  Through all of that each holds on to the link it   *)
(* was meant for and to nothing once that link is gone; names are never    *)
(* used twice; and a destroyed adapter has closed every link, although     *)
(* its own loop over the listeners misses some.                            *)
ImplementsLinkTable == Table!Spec

(* Every link gets its turn: input on a link, or the end of its            *)
(* connection, is read or the link is closed, however much comes in over   *)
(* the others, as long as the engine runs.                                 *)
EveryLinkIsRead ==
  \A l \in Link : l \in Present /\ HasInput(l) ~> read = l \/ l \notin Present
=============================================================================
