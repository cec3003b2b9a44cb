--------------------------- MODULE AthenaStreamLink ---------------------------
(***************************************************************************)
(* The two ends of a TCP link (athena_TransportLinkModuleTCP.c).  Each end *)
(* is a forwarder with one thread that writes a message until all of it is *)
(* in the socket and reads one until all of it is there: a message is its  *)
(* header, which has the length, and its body, and nothing else on the     *)
(* stream says where one ends.  Sockets that were connected or, on Linux,  *)
(* accepted make the thread wait; those accepted on BSD have the           *)
(* non-blocking flag of the listener.                                      *)
(*                                                                         *)
(* Each unit on the stream knows the message it is of, its place and the   *)
(* size its header states.  The other links and the choice of the next     *)
(* link to read are AthenaTransportLinkAdapter's.  Mutant... definitions   *)
(* are the one after them with a bug the code could have had.              *)
(***************************************************************************)
EXTENDS Naturals, Sequences, FiniteSets, SequencesExt

CONSTANTS
  End,          (* the two ends                                            *)
  Header, Size, (* sizes of the header and of whole messages               *)
  Room,         (* [End -> units between the sockets of that end and the other] *)
  Messages,     (* bound: messages that can be told apart                  *)
  Window,       (* bound: messages of one end on the way                   *)
  NonBlocking,  (* ends with a socket that does not make the thread wait   *)
  None

ASSUME StreamAssumption ==
  /\ IsFiniteSet(End) /\ Cardinality(End) = 2 /\ NonBlocking \subseteq End
  /\ Header \in Nat \ {0} /\ Size \subseteq Nat /\ \A s \in Size : s > Header
  /\ \E largest \in Size : \A s \in Size : s <= largest
  /\ Room \in [End -> Nat \ {0}]
  /\ {Window, Messages} \subseteq Nat \ {0} /\ Messages > Window + 1

VARIABLES
  pc,      (* [End -> what the thread is doing with the link]              *)
  out,     (* [End -> units of the message it still has to write]          *)
  got,     (* [End -> units of the message it is reading]                  *)
  need,    (* [End -> units of that message's body still missing]          *)
  stream,  (* [End -> units it wrote and the other has not read]           *)
  given,   (* [End -> units of the last message of that end handed up]     *)
  sent,    (* [End -> number of its next message]                          *)
  error    (* ends with the Error event                                    *)

vars == <<pc, out, got, need, stream, given, sent, error>>

Other(e) == CHOOSE f \in End : f # e

Unit == [msg : 0..Messages - 1, size : Size, place : Nat \ {0}]

Units(m, size) == [i \in 1..size |-> [msg |-> m, size |-> size, place |-> i]]

Least(a, b) == IF a < b THEN a ELSE b

Waits(e) == e \notin NonBlocking

Open(e) == pc[e] # "closed"

Init ==
  /\ pc = [e \in End |-> "idle"]
  /\ out = [e \in End |-> <<>>] /\ got = [e \in End |-> <<>>]
  /\ need = [e \in End |-> 0]
  /\ stream = [e \in End |-> <<>>] /\ given = [e \in End |-> <<>>]
  /\ sent = [e \in End |-> 0]
  /\ error = {}

(***************************************************************************)
(* Writing (_TCPSend, _writeLink)                                          *)
(***************************************************************************)
OnTheWay(e) == out[e] \o stream[e] \o got[Other(e)]

Numbers(units) == {u.msg : u \in ToSet(units)}

Send(e, size) ==
  /\ pc[e] = "idle"
  /\ Cardinality(Numbers(OnTheWay(e))) < Window
  /\ pc' = [pc EXCEPT ![e] = "write"]
  /\ out' = [out EXCEPT ![e] = Units(sent[e], size)]
  /\ sent' = [sent EXCEPT ![e] = (@ + 1) % Messages]
  /\ UNCHANGED <<got, need, stream, given, error>>

Left(e) == Room[e] - Len(stream[e])

MutantShortWrite(e, n) == <<>>

Remainder(e, n) == SubSeq(out[e], n + 1, Len(out[e]))

Write(e) ==
  /\ pc[e] = "write"
  /\ Open(Other(e)) /\ Left(e) > 0
  /\ LET n == Least(Left(e), Len(out[e]))
     IN /\ stream' = [stream EXCEPT ![e] = @ \o SubSeq(out[e], 1, n)]
        /\ out' = [out EXCEPT ![e] = Remainder(e, n)]
        /\ pc' = [pc EXCEPT ![e] = IF out'[e] = <<>> THEN "idle" ELSE "write"]
  /\ UNCHANGED <<got, need, given, sent, error>>

(* The rest of a message that cannot be written is dropped: the link is    *)
(* marked when the other end is gone, but not when there is no room.       *)
WriteFails(e) ==
  /\ pc[e] = "write"
  /\ ~Open(Other(e)) \/ (Left(e) = 0 /\ ~Waits(e))
  /\ error' = IF Open(Other(e)) THEN error ELSE error \cup {e}
  /\ out' = [out EXCEPT ![e] = <<>>]
  /\ pc' = [pc EXCEPT ![e] = "idle"]
  /\ UNCHANGED <<got, need, stream, given, sent>>

(***************************************************************************)
(* Reading (_TCPReceive, _readLink)                                        *)
(***************************************************************************)
Input(e) == stream[Other(e)]
Ended(e) == Input(e) = <<>> /\ ~Open(Other(e))

(* poll() reports input and the end of the connection.  A marked link is   *)
(* closed instead of read.                                                 *)
BeginRead(e) ==
  /\ pc[e] = "idle"
  /\ e \notin error
  /\ Input(e) # <<>> \/ Ended(e)
  /\ pc' = [pc EXCEPT ![e] = "header"]
  /\ got' = [got EXCEPT ![e] = <<>>]
  /\ UNCHANGED <<out, need, stream, given, sent, error>>

Take(e, n) ==
  /\ got' = [got EXCEPT ![e] = @ \o SubSeq(Input(e), 1, n)]
  /\ stream' = [stream EXCEPT ![Other(e)] = SubSeq(@, n + 1, Len(@))]

(* The size that stands in what was read as a header: anything, when it is *)
(* not one.                                                                *)
Stated(units) ==
  IF \E m \in 0..Messages - 1, s \in Size : units = SubSeq(Units(m, s), 1, Header)
    THEN {units[1].size} ELSE Size \cup {0}

HeaderMissing(e) == Header - Len(got[e])

MutantBodySize(size) == size

BodySize(size) == size - Header

BeginBody(e, size) ==
  /\ Take(e, HeaderMissing(e))
  /\ pc' = [pc EXCEPT ![e] = "body"]
  /\ need' = [need EXCEPT ![e] = BodySize(size)]

(* A length shorter than the header: whatever is in the socket goes.       *)
Flush(e) ==
  /\ stream' = [stream EXCEPT ![Other(e)] = <<>>]
  /\ got' = [got EXCEPT ![e] = <<>>]
  /\ pc' = [pc EXCEPT ![e] = "idle"]
  /\ UNCHANGED need

ReadHeader(e) ==
  /\ pc[e] = "header"
  /\ Input(e) # <<>>
  /\ IF Len(Input(e)) < HeaderMissing(e)
       THEN Take(e, Len(Input(e))) /\ UNCHANGED <<pc, need>>
       ELSE \E size \in Stated(got[e] \o SubSeq(Input(e), 1, HeaderMissing(e))) :
              IF size = 0 THEN Flush(e) ELSE BeginBody(e, size)
  /\ UNCHANGED <<out, given, sent, error>>

MutantWanted(e) == Len(Input(e))

Wanted(e) == Least(need[e], Len(Input(e)))

ReadBody(e) ==
  LET n == Wanted(e)
  IN /\ pc[e] = "body"
     /\ n > 0
     /\ IF n < need[e]
          THEN Take(e, n) /\ UNCHANGED <<pc, given>>
          ELSE /\ given' = [given EXCEPT ![Other(e)] = got[e] \o SubSeq(Input(e), 1, n)]
               /\ stream' = [stream EXCEPT ![Other(e)] = SubSeq(@, n + 1, Len(@))]
               /\ got' = [got EXCEPT ![e] = <<>>]
               /\ pc' = [pc EXCEPT ![e] = "idle"]
     /\ need' = [need EXCEPT ![e] = IF n < @ THEN @ - n ELSE 0]
     /\ UNCHANGED <<out, sent, error>>

GiveUp(e) ==
  /\ pc' = [pc EXCEPT ![e] = "idle"]
  /\ got' = [got EXCEPT ![e] = <<>>]
  /\ need' = [need EXCEPT ![e] = 0]

(* Nothing comes: at the end of the connection, or on a socket that does   *)
(* not wait.  What was read of the header is dropped, and the header when  *)
(* nothing of the body has come.  Later a result of -1 is added to the     *)
(* count of what was read (line 409 looks at the wrong variable), which    *)
(* takes one unit off it.  Only the end at the start of a header marks the *)
(* link.                                                                   *)
ReadNothing(e) ==
  /\ pc[e] \in {"header", "body"}
  /\ Ended(e) \/ (Input(e) = <<>> /\ ~Waits(e))
  /\ IF Ended(e) \/ Len(got[e]) <= Header THEN GiveUp(e)
     ELSE /\ got' = [got EXCEPT ![e] = Front(@)]
          /\ need' = [need EXCEPT ![e] = @ + 1]
          /\ UNCHANGED pc
  /\ error' = IF Ended(e) /\ pc[e] = "header" /\ got[e] = <<>> THEN error \cup {e} ELSE error
  /\ UNCHANGED <<out, stream, given, sent>>

(* A close drops what the end has not read, which may reset the connection *)
(* and take what the other has not read.                                   *)
Close(e) ==
  /\ pc[e] = "idle"
  /\ pc' = [pc EXCEPT ![e] = "closed"]
  /\ \E reset \in {FALSE, Input(e) # <<>>} :
       stream' = [f \in End |-> IF f = e /\ ~reset THEN stream[e] ELSE <<>>]
  /\ error' = error \ {e}
  /\ UNCHANGED <<out, got, need, given, sent>>

CloseMarked(e) == e \in error /\ Close(e)

Receive(e) == ReadHeader(e) \/ ReadBody(e) \/ ReadNothing(e)

Next == \E e \in End :
  \/ \E size \in Size : Send(e, size)
  \/ Write(e) \/ WriteFails(e)
  \/ BeginRead(e) \/ Receive(e) \/ CloseMarked(e)
  \/ e \notin error /\ Close(e)

(* Both threads go on.  A link with input gets its turn although others,   *)
(* and messages to send, keep the thread busy: that is EveryLinkIsRead of  *)
(* AthenaTransportLinkAdapter.                                             *)
Fairness == \A e \in End :
  /\ WF_vars(Write(e) \/ WriteFails(e) \/ Receive(e) \/ CloseMarked(e))
  /\ SF_vars(BeginRead(e))

Spec == Init /\ [][Next]_vars /\ Fairness

(***************************************************************************)
(* Properties                                                              *)
(***************************************************************************)
TypeOK ==
  /\ pc \in [End -> {"idle", "write", "header", "body", "closed"}]
  /\ out \in [End -> Seq(Unit)] /\ got \in [End -> Seq(Unit)]
  /\ stream \in [End -> Seq(Unit)] /\ given \in [End -> Seq(Unit)]
  /\ \A e \in End : Len(stream[e]) <= Room[e]
  /\ need \in [End -> 0..Max(Size) - Header]
  /\ sent \in [End -> 0..Messages - 1]
  /\ error \subseteq End

Whole(units) == units = Units(units[1].msg, units[1].size)

(* The message given last, or no message at all.                           *)
Given(e) ==
  IF given[e] = <<>> THEN None
  ELSE IF Whole(given[e]) THEN given[e][1].msg ELSE Messages

(* The units that may still come, in the order of sending.                 *)
Coming(e) == IF Open(Other(e)) THEN got[Other(e)] \o stream[e] \o out[e] ELSE <<>>

Flight(e) == Numbers(Coming(e))

Order(e) ==
  {pair \in Flight(e) \X Flight(e) :
     pair[1] # pair[2] /\ \E i, j \in DOMAIN Coming(e) :
       i < j /\ Coming(e)[i].msg = pair[1] /\ Coming(e)[j].msg = pair[2]}

Direction(e) == INSTANCE MessageLink WITH
  Message <- 0..Messages - 1, flight <- Flight(e), order <- Order(e), delivered <- Given(e)

(* Framing holds: what an end hands up is one message of the other from    *)
(* its first unit to its last, in the order of sending and at most once,   *)
(* however writes and reads cut the stream and whenever an end is closed.  *)
ImplementsMessageLinks ==
  /\ \A e \in End : Direction(e)!Init
  /\ [][\A e \in End : Direction(e)!Next \/ UNCHANGED Direction(e)!vars]_vars

(* A message that was begun is handed up at the other end, unless one of   *)
(* the ends is closed: no end is left waiting for the rest of a message or *)
(* for room that does not come, as long as one of the two has room for     *)
(* everything it sends.                                                    *)
EveryMessageArrives == \A e \in End, m \in 0..Messages - 1 :
  m \in Numbers(OnTheWay(e)) ~> Given(e) = m \/ \E f \in End : ~Open(f)
=============================================================================
