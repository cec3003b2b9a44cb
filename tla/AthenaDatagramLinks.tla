-------------------------- MODULE AthenaDatagramLinks --------------------------
(***************************************************************************)
(* The datagram links: a UDP or Ethernet listener has one socket for all   *)
(* its peers and makes a link for each peer it hears of, with a queue that *)
(* it fills (athena_TransportLinkModuleUDP.c, ...ETH.c and the Ethernet    *)
(* sockets under platform/).  The thread that reads them is the one of     *)
(* AthenaTransportLinkAdapter, reduced to what matters here: the links are *)
(* visited once per round, in any order.                                   *)
(*                                                                         *)
(* A link is known by its memory: the listener keeps the address in a      *)
(* table by peer and does not hear of the link being closed.  Left out:    *)
(* fragments (AthenaFragmenterBEFS), further listeners, the peers' names.  *)
(* Mutant... definitions are the one after them with a bug the code could  *)
(* have had.                                                               *)
(***************************************************************************)
EXTENDS Naturals, Sequences, FiniteSets, SequencesExt

CONSTANTS
  Peer, Data,
  Link,      (* memory that links are made in                              *)
  Batch,     (* frames one read of the socket brings: more than 1 with BPF *)
  MaxHeld,   (* bound: frames that wait anywhere                           *)
  Reuse,     (* memory of closed links is used again although the table    *)
             (* still has it                                               *)
  NameTaken, (* a link of another kind may have the name of a new one      *)
  Nothing

ASSUME DatagramAssumption ==
  /\ Batch \in Nat \ {0} /\ MaxHeld \in Nat \ {0}
  /\ Reuse \in BOOLEAN /\ NameTaken \in BOOLEAN
  /\ Cardinality(Link) >= Cardinality(Peer)
  /\ Nothing \notin Peer \cup Data \cup Link

VARIABLES
  socket,     (* frames in the socket                                      *)
  buffer,     (* frames that were read with an earlier one                 *)
  listener,   (* events of the listener, Nothing when it is closed         *)
  table,      (* multiplexTable                                            *)
  owner,      (* [Link -> the peer of the link, Nothing for free memory]   *)
  events,     (* [Link -> events of the link]                              *)
  queue,      (* [Link -> messages queued by the listener]                 *)
  phase,      (* what the thread is doing                                  *)
  turn,       (* links not visited yet in this round                       *)
  handed      (* the message being processed and the peer of its link      *)

frames == <<socket, buffer>>
links  == <<owner, events, queue>>
thread == <<phase, turn, handed>>
datagramVars == <<frames, listener, table, links, thread>>

Event == {"Receive", "Error"}
Frame == [from : Peer, data : Data \cup {Nothing}]  \* Nothing: nothing can be made of it
Phase == {"Search", "Process", "Listen", "Poll", "ListenAgain", "Crashed"}

Present == {l \in Link : owner[l] # Nothing}
Entries == {table[p] : p \in Peer} \ {Nothing}
Stale(p) == table[p] # Nothing /\ owner[table[p]] # p

DatagramInit ==
  /\ socket = <<>> /\ buffer = <<>>
  /\ listener = {} /\ table = [p \in Peer |-> Nothing]
  /\ owner = [l \in Link |-> Nothing] /\ events = [l \in Link |-> {}]
  /\ queue = [l \in Link |-> <<>>]
  /\ phase = "Search" /\ turn = {} /\ handed = Nothing

(***************************************************************************)
(* Closing.  A link takes its queue with it and leaves the table as it is; *)
(* the listener closes what its table has.                                 *)
(***************************************************************************)
QueueReleased(C) == queue' = [l \in Link |-> IF l \in C THEN <<>> ELSE queue[l]]

CloseLinks(C) ==
  /\ owner' = [l \in Link |-> IF l \in C THEN Nothing ELSE owner[l]]
  /\ events' = [l \in Link |-> IF l \in C THEN {} ELSE events[l]]
  /\ QueueReleased(C)
  /\ turn' = turn \ C

CloseListener ==
  /\ listener # Nothing
  /\ listener' = Nothing /\ table' = [p \in Peer |-> Nothing]
  /\ socket' = <<>> /\ buffer' = <<>>
  /\ CloseLinks(Entries)
  /\ UNCHANGED handed

(***************************************************************************)
(* A round over the links (_retrieve_next_message)                         *)
(***************************************************************************)
Visits(l) == l \in turn /\ "Receive" \in events[l]

MutantNewest(s) == [first |-> Last(s), rest |-> Front(s)]

Oldest(s) == [first |-> Head(s), rest |-> Tail(s)]

EventIfMore(rest) == IF rest = <<>> THEN {} ELSE {"Receive"}

(* _UDPReceiveProxy, _ETHReceiveProxy                                      *)
ReceiveProxy(l) ==
  LET message == Oldest(queue[l])
  IN /\ phase = "Search" /\ Visits(l)
     /\ "Error" \notin events[l]
     /\ turn' = turn \ {l}
     /\ IF queue[l] = <<>>
          THEN events' = [events EXCEPT ![l] = {}] /\ UNCHANGED <<queue, phase, handed>>
          ELSE /\ queue' = [queue EXCEPT ![l] = message.rest]
               /\ events' = [events EXCEPT ![l] = EventIfMore(message.rest)]
               /\ handed' = [over |-> owner[l], from |-> message.first.from,
                             data |-> message.first.data]
               /\ phase' = "Process"
     /\ UNCHANGED <<frames, listener, table, owner>>

CloseVisited(l) ==
  /\ phase = "Search" /\ Visits(l)
  /\ "Error" \in events[l]
  /\ CloseLinks({l})
  /\ UNCHANGED <<frames, listener, table, phase, handed>>

Processed ==
  /\ phase = "Process"
  /\ phase' = "Search" /\ handed' = Nothing
  /\ UNCHANGED <<frames, listener, table, links, turn>>

EndOfSearch ==
  /\ phase = "Search"
  /\ \A l \in Link : ~Visits(l)
  /\ phase' = "Listen" /\ turn' = {}
  /\ UNCHANGED <<frames, listener, table, links, handed>>

(***************************************************************************)
(* The listener's turn, before and after poll()                            *)
(***************************************************************************)
Listening == phase \in {"Listen", "ListenAgain"}

AfterListening ==
  IF phase = "Listen" THEN phase' = "Poll" /\ UNCHANGED turn
  ELSE phase' = "Search" /\ turn' = Link

NothingToRead ==
  /\ Listening
  /\ listener \in {Nothing, {}, {"Error"}}
  /\ AfterListening
  /\ UNCHANGED <<frames, listener, table, links, handed>>

(* athenaEthernet_Receive; a UDP read brings one frame.                    *)
Pending ==
  IF buffer # <<>> THEN buffer
  ELSE SubSeq(socket, 1, IF Len(socket) < Batch THEN Len(socket) ELSE Batch)

Read ==
  /\ listener' = EventIfMore(Tail(Pending))
  /\ buffer' = Tail(Pending)
  /\ socket' = IF buffer # <<>> THEN socket
               ELSE SubSeq(socket, Len(Pending) + 1, Len(socket))

QueueMessage(l, message) ==
  /\ queue' = [queue EXCEPT ![l] = Append(@, message)]
  /\ events' = [events EXCEPT ![l] = @ \cup {"Receive"}]

Free == {l \in Link \ Present : Reuse \/ l \notin Entries}

(* _cloneNewLink                                                           *)
NewLink(message) ==
  /\ table[message.from] = Nothing
  /\ \E l \in Free :
       /\ table' = [table EXCEPT ![message.from] = l]
       /\ owner' = [owner EXCEPT ![l] = message.from]
       /\ QueueMessage(l, message)

KnownLink(message) ==
  /\ table[message.from] \in Present
  /\ QueueMessage(table[message.from], message)
  /\ UNCHANGED <<table, owner>>

FreedLink(message) ==
  /\ table[message.from] \in Link \ Present
  /\ UNCHANGED <<table, links>>

DemuxDelivery(message) == NewLink(message) \/ KnownLink(message) \/ FreedLink(message)

MutantDecoded(frame) == TRUE

Decoded(frame) == frame.data # Nothing

CanRead == Listening /\ listener = {"Receive"}

ReceiveListener ==
  /\ CanRead
  /\ Pending # <<>>
  /\ Read
  /\ IF Decoded(Head(Pending)) THEN DemuxDelivery(Head(Pending))
     ELSE UNCHANGED <<table, links>>
  /\ AfterListening
  /\ UNCHANGED handed

(* A failed read marks the listener, which is closed when it is next read. *)
ReadFails ==
  /\ CanRead
  /\ buffer = <<>>
  /\ listener' = {"Error"}
  /\ AfterListening
  /\ UNCHANGED <<frames, table, links, handed>>

CloseFailed ==
  /\ Listening /\ listener = Event
  /\ CloseListener
  /\ phase' = IF phase = "Listen" THEN "Poll" ELSE "Search"

Stop ==
  /\ phase' = "Crashed" /\ turn' = {} /\ handed' = Nothing
  /\ UNCHANGED <<frames, listener, table, links>>

(* What the use of freed memory does is not defined: that nothing happens  *)
(* is one outcome (FreedLink), that the process stops another.             *)
Freed(p) == table[p] \in Link \ Present

Delivers(p) == CanRead /\ Pending # <<>> /\ Decoded(Head(Pending)) /\ Head(Pending).from = p

Crash ==
  /\ \E p \in Peer :
       Freed(p) /\ (Delivers(p) \/ phase = "Search" \/ (Listening /\ listener = Event))
  /\ Stop

(* _cloneNewLink when the name of the new link is taken: the link is       *)
(* released, which leaves NULL, and an event of it is set all the same.    *)
CloneCrashes ==
  /\ NameTaken
  /\ \E p \in Peer : table[p] = Nothing /\ Delivers(p)
  /\ Stop

(***************************************************************************)
(* poll() does not block while a queue has messages (_UDPPoll, _ETHPoll).  *)
(* The links have the socket of their listener, so input on it is an event *)
(* for all of them.  Other links end the wait too.                         *)
(***************************************************************************)
HasInput == listener # Nothing /\ socket # <<>>

MutantPollsNothing == {}

Queued == {l \in Present : queue[l] # <<>>}

PollReturns ==
  /\ phase = "Poll"
  /\ listener' = IF HasInput THEN listener \cup {"Receive"} ELSE listener
  /\ events' = [l \in Link |-> IF HasInput /\ l \in Present
                                 THEN events[l] \cup {"Receive"} ELSE events[l]]
  /\ phase' = "ListenAgain"
  /\ UNCHANGED <<frames, table, owner, queue, turn, handed>>

Poll == (HasInput \/ Queued # {}) /\ PollReturns

PollOther == ~HasInput /\ PollReturns

(***************************************************************************)
(* The peers, and what the messages of other links make the engine do      *)
(***************************************************************************)
Held == Len(socket) + Len(buffer) +
        Cardinality(UNION {{<<l, i>> : i \in DOMAIN queue[l]} : l \in Link})

Arrive(p, d) ==
  /\ listener # Nothing /\ phase # "Crashed"
  /\ Held < MaxHeld
  /\ socket' = Append(socket, [from |-> p, data |-> d])
  /\ UNCHANGED <<buffer, listener, table, links, thread>>

SendFails(l) ==
  /\ phase = "Search"
  /\ l \in Present
  /\ events' = [events EXCEPT ![l] = @ \cup {"Error"}]
  /\ UNCHANGED <<frames, listener, table, owner, queue, thread>>

CloseByName ==
  /\ phase = "Search"
  /\ \/ CloseListener
     \/ \E l \in Present : CloseLinks({l}) /\ UNCHANGED <<frames, listener, table, handed>>
  /\ UNCHANGED phase

OpenListener ==
  /\ phase = "Search"
  /\ listener = Nothing
  /\ listener' = {}
  /\ UNCHANGED <<frames, table, links, thread>>

Others ==
  \/ \E p \in Peer, d \in Data \cup {Nothing} : Arrive(p, d)
  \/ \E l \in Link : SendFails(l)
  \/ CloseByName \/ OpenListener \/ PollOther \/ ReadFails \/ Crash \/ CloneCrashes

Engine ==
  \/ \E l \in Link : ReceiveProxy(l) \/ CloseVisited(l)
  \/ Processed \/ EndOfSearch
  \/ NothingToRead \/ ReceiveListener \/ CloseFailed
  \/ Poll

DatagramNext == Engine \/ Others

(* The thread goes on while there is something to read.                    *)
DatagramSpec == DatagramInit /\ [][DatagramNext]_datagramVars /\ WF_datagramVars(Engine)

(***************************************************************************)
(* Properties                                                              *)
(***************************************************************************)
DatagramTypeOK ==
  /\ socket \in Seq(Frame) /\ buffer \in Seq(Frame) /\ Len(buffer) < Batch
  /\ listener \in (SUBSET Event) \cup {Nothing}
  /\ table \in [Peer -> Link \cup {Nothing}]
  /\ owner \in [Link -> Peer \cup {Nothing}]
  /\ events \in [Link -> SUBSET Event]
  /\ queue \in [Link -> Seq([from : Peer, data : Data])]
  /\ phase \in Phase /\ turn \subseteq Link
  /\ handed \in [over : Peer, from : Peer, data : Data] \cup {Nothing}

Mine(p, s) ==
  LET mine[n \in 0..Len(s)] ==
        IF n = 0 THEN <<>>
        ELSE IF s[n].from = p /\ s[n].data # Nothing THEN Append(mine[n - 1], s[n].data)
        ELSE mine[n - 1]
  IN mine[Len(s)]

WaitingFor(p) ==
  (IF table[p] = Nothing \/ Stale(p) THEN <<>> ELSE Mine(p, queue[table[p]]))
    \o Mine(p, buffer) \o Mine(p, socket)

Channels == INSTANCE PeerChannels WITH
  waiting <- [p \in Peer |-> WaitingFor(p)],
  given <- handed, None <- Nothing

(* One socket, one table and one queue per peer keep the messages of peers *)
(* apart and in order, give out each once and lose only the oldest, while  *)
(* links are closed and listeners closed and opened again, as long as no   *)
(* link is made in memory that the table still has for another peer.  The  *)
(* code does not see to that.                                              *)
ImplementsPeerChannels == Channels!Spec

Linked(p) == listener # Nothing /\ "Error" \notin listener /\ ~Stale(p)

(* poll() waits for other links.                                           *)
PollBlocks == phase = "Poll" /\ ~HasInput /\ Queued = {}

(* "if we have existing events, poll doesn't need to block": the listener  *)
(* has no event standing when the thread waits.  The code does not keep    *)
(* this: the event for frames that were read with an earlier one is not    *)
(* among those poll() asks the links for.                                  *)
NoEventStands == PollBlocks => listener \in {Nothing, {}, {"Error"}}

(* Every peer gets its turn: a peer that has messages waiting has one      *)
(* handed up, unless its link or the listener is closed, the process stops *)
(* or the thread waits in poll() over frames it has read, which takes a    *)
(* read of three at once.  The events that stand for queued messages are   *)
(* set by hand and poll() must not wait while a message is queued.         *)
EveryPeerGetsItsTurn ==
  \A p \in Peer :
    WaitingFor(p) # <<>> ~>
      \/ handed # Nothing /\ handed.from = p
      \/ ~Linked(p) \/ phase = "Crashed"
      \/ PollBlocks /\ buffer # <<>>

(* "If there's no existing link and a new one can't be created, drop the   *)
(* message": the first message of a peer never stops the process.  The     *)
(* code does not keep this where the name of the new link is taken.        *)
UnlinkedIsDropped ==
  [][\A p \in Peer : table[p] = Nothing /\ Delivers(p) => phase' # "Crashed"]_datagramVars
=============================================================================
