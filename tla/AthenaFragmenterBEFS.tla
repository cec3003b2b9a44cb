------------------------ MODULE AthenaFragmenterBEFS ------------------------
(***************************************************************************)
(* The begin-end fragmenter of the packet links                            *)
(* (athena_TransportLinkModuleFragmenter_BEFS.c behind                     *)
(* athena_Fragmenter.c): one end cuts a message that does not fit a packet *)
(* into numbered fragments (_UDPSend, _ETHSend), the other end puts it     *)
(* together again.  The network between them keeps packets in order unless *)
(* it is said not to and may do what `Faults' names.                       *)
(*                                                                         *)
(* A fragment is known by the message it is of, its place in it and the    *)
(* sequence number on it; the flags of its header follow from its place.   *)
(* Sequence numbers wrap at SeqSize (2^20).  Left out: the idle flag that  *)
(* nothing reads and idle packets, which nothing sends.  Definitions named *)
(* Mutant... are the one after them with a bug the code could have had.    *)
(***************************************************************************)
EXTENDS Naturals, Integers, Sequences, FiniteSets, SequencesExt

CONSTANTS
  MTU, Header,  (* sizes of a packet and of the fragment header in it      *)
  MinPacket,    (* size below which a packet is padded: Ethernet only      *)
  Size,         (* sizes of messages                                       *)
  SeqSize,      (* number of sequence numbers                              *)
  Messages,     (* bound: messages that can be told apart at once          *)
  NetSize,      (* bound: packets in the network                           *)
  MaxGap,       (* bound: how far numbers run ahead before faults pause    *)
  Faults,       (* of "lose", "duplicate", "cut", "fail", "reorder"        *)
  None

Part == [msg : 0..Messages - 1, size : Size, number : Nat]
Packet == [part : Part, seq : 0..SeqSize - 1 \cup {None}, again : BOOLEAN]

ASSUME FragmenterAssumption ==
  /\ MTU \in Nat /\ Header \in Nat /\ MTU > Header /\ Size \subseteq Nat \ {0}
  /\ SeqSize \in Nat \ {0} /\ SeqSize % 2 = 0 /\ MaxGap \in Nat /\ MaxGap <= SeqSize \div 2
  /\ NetSize \in Nat \ {0} /\ Messages \in Nat /\ Messages > NetSize + 2
  /\ None \notin Nat /\ None \notin Part

ASSUME PaddingAssumption == MinPacket \in Nat /\ MinPacket <= MTU

VARIABLES
  sending,    (* the next fragment to make, or None                        *)
  sendSeq,    (* sendSequenceNumber                                        *)
  net,        (* packets on the way                                        *)
  fragments,  (* fragments the receiver holds                              *)
  expected,   (* receiveSequenceNumber                                     *)
  delivered,  (* the parts of the message delivered last                   *)
  harmed      (* messages that lost a packet                               *)

sender   == <<sending, sendSeq>>
receiver == <<fragments, expected, delivered>>
vars     == <<sender, net, receiver, harmed>>

MaxPayload == MTU - Header

Init ==
  /\ sending = None /\ sendSeq = 0
  /\ net = <<>>
  /\ fragments = <<>> /\ expected = 0 /\ delivered = <<>>
  /\ harmed = {}

(***************************************************************************)
(* The sending end                                                         *)
(***************************************************************************)
Fits(size) == size <= MTU

Remaining(part) == part.size - MaxPayload * part.number

IsBegin(part) == part.number = 0

(* A last fragment that fills its packet is not marked: `<' on line 403.   *)
IsEnd(part) == Remaining(part) < MaxPayload

(* athenaEthernet_Send fills a frame up that is too short, and nothing at   *)
(* the other end takes the filling off again.                              *)
Padded(part) == Header + Remaining(part) < MinPacket

Follows(part) == [part EXCEPT !.number = @ + 1]

InFlight ==
  {p.part.msg : p \in ToSet(net)} \cup {f.msg : f \in ToSet(fragments)}
    \cup (IF sending = None THEN {} ELSE {sending.msg})

DeliveredMessage == IF delivered = <<>> THEN None ELSE delivered[1].msg

NewMessage ==
  CHOOSE m \in 0..Messages - 1 :
    /\ m \notin InFlight \cup {DeliveredMessage}
    /\ \A k \in 0..m - 1 : k \in InFlight \cup {DeliveredMessage}

Put(part, seq) ==
  /\ Len(net) < NetSize
  /\ net' = Append(net, [part |-> part, seq |-> seq, again |-> FALSE])

(* _UDPSend, _ETHSend: a message that fits goes out as it is.              *)
Send(size) ==
  LET part == [msg |-> NewMessage, size |-> size, number |-> 0]
  IN /\ sending = None
     /\ IF Fits(size)
          THEN Put(part, None) /\ UNCHANGED sending
          ELSE sending' = part /\ UNCHANGED net
     /\ harmed' = harmed \cap InFlight  \* the others are not told apart any more
     /\ UNCHANGED <<sendSeq, receiver>>

(* _BEFS_CreateFragment, until nothing remains.                            *)
MutantSameNumber == UNCHANGED sendSeq

MutantNoMask == sendSeq' = sendSeq + 1

TakeNumber == sendSeq' = (sendSeq + 1) % SeqSize

Rest(part) == IF Remaining(Follows(part)) > 0 THEN Follows(part) ELSE None

CreateFragment ==
  /\ sending # None
  /\ Put(sending, sendSeq)
  /\ TakeNumber
  /\ sending' = Rest(sending)
  /\ UNCHANGED <<receiver, harmed>>

(* Fragments are refused, cut and lost while the numbers have not run so   *)
(* far ahead of the receiver that they could come round to the one it      *)
(* expects.                                                                *)
MayFail(seq) == (seq - expected) % SeqSize < MaxGap

(* A fragment that cannot be sent ends the loop over the fragments.        *)
SendFails ==
  /\ "fail" \in Faults
  /\ sending # None
  /\ MayFail(sendSeq)
  /\ TakeNumber
  /\ sending' = None
  /\ harmed' = harmed \cup {sending.msg}
  /\ UNCHANGED <<net, receiver>>

(***************************************************************************)
(* The receiving end (_BEFS_ReceiveAndReassemble)                          *)
(***************************************************************************)

(* _compareSequenceNumbers: half of the numbers are before any number.     *)
MutantPlainCompare(a, b) == a - b

Compare(a, b) ==
  LET d == (a - b) % SeqSize IN IF d < SeqSize \div 2 THEN d ELSE d - SeqSize

ClearFragmenterData == fragments' = <<>> /\ UNCHANGED delivered

(* A begin fragment drops what was there.                                  *)
Gathered(part) == Append(IF IsBegin(part) THEN <<>> ELSE fragments, part)

Gather(p) ==
  /\ expected' = (p.seq + 1) % SeqSize
  /\ IF IsEnd(p.part)
       THEN delivered' = Gathered(p.part) /\ fragments' = <<>>
       ELSE fragments' = Gathered(p.part) /\ UNCHANGED delivered

Expects(p) == IsBegin(p.part) \/ Compare(p.seq, expected) = 0

(* An old number is taken for a repetition; any other that is not expected, *)
(* and a fragment whose size is not the one in its header, drops what was  *)
(* gathered.                                                               *)
ReceiveFragment(p, good) ==
  CASE p.seq = None ->
         delivered' = <<p.part>> /\ UNCHANGED <<fragments, expected>>
    [] p.seq # None /\ Expects(p) /\ good -> Gather(p)
    [] p.seq # None /\ ~IsBegin(p.part) /\ Compare(p.seq, expected) < 0 -> UNCHANGED receiver
    [] OTHER -> ClearFragmenterData /\ UNCHANGED expected

Heads == IF "reorder" \in Faults THEN DOMAIN net ELSE DOMAIN net \cap {1}

Receive ==
  /\ \E i \in Heads :
       /\ ReceiveFragment(net[i], ~Padded(net[i].part))
       /\ net' = RemoveAt(net, i)
  /\ UNCHANGED <<sender, harmed>>

(***************************************************************************)
(* What the network may do to a fragment: deliver it twice, lose it or cut *)
(* it.  A padded one is dropped whenever it comes, so that its repetition  *)
(* is left out.                                                            *)
(***************************************************************************)
Harmed(p) == harmed' = IF p.again THEN harmed ELSE harmed \cup {p.part.msg}

ReceiveTwice ==
  /\ "duplicate" \in Faults
  /\ net # <<>> /\ Head(net).seq # None /\ ~Head(net).again /\ ~Padded(Head(net).part)
  /\ ReceiveFragment(Head(net), TRUE)
  /\ net' = [net EXCEPT ![1].again = TRUE]
  /\ UNCHANGED <<sender, harmed>>

Lose ==
  /\ "lose" \in Faults
  /\ net # <<>>
  /\ Head(net).seq # None /\ ~Head(net).again => MayFail(Head(net).seq)
  /\ net' = Tail(net)
  /\ Harmed(Head(net))
  /\ UNCHANGED <<sender, receiver>>

ReceiveCut ==
  /\ "cut" \in Faults
  /\ net # <<>>
  /\ Head(net).seq # None /\ MayFail(Head(net).seq)
  /\ ReceiveFragment(Head(net), FALSE)
  /\ net' = Tail(net)
  /\ Harmed(Head(net))
  /\ UNCHANGED sender

Next ==
  \/ \E size \in Size : Send(size)
  \/ CreateFragment \/ SendFails
  \/ Receive \/ ReceiveTwice \/ Lose \/ ReceiveCut

(* A message that was begun is finished and packets that arrive are        *)
(* received: both ends are loops that do not wait for anything else.       *)
Fairness == WF_vars(CreateFragment) /\ WF_vars(Receive)

Spec == Init /\ [][Next]_vars /\ Fairness

(***************************************************************************)
(* Properties                                                              *)
(***************************************************************************)
Parts(size) == IF Fits(size) THEN 1 ELSE (size + MaxPayload - 1) \div MaxPayload

Whole(parts) ==
  /\ Len(parts) = Parts(parts[1].size)
  /\ \A i \in DOMAIN parts : parts[i] = [parts[1] EXCEPT !.number = i - 1]

TypeOK ==
  /\ sending \in Part \cup {None}
  /\ sendSeq \in 0..SeqSize - 1 /\ expected \in 0..SeqSize - 1
  /\ net \in Seq(Packet) /\ Len(net) <= NetSize
  /\ fragments \in Seq(Part) /\ delivered \in Seq(Part)
  /\ harmed \subseteq 0..Messages - 1

(* The message delivered last, or no message at all.                       *)
Delivered ==
  IF delivered = <<>> \/ Whole(delivered) THEN DeliveredMessage
  ELSE Messages

(* The fragments that may still come, in the order of sending.             *)
Coming ==
  net \o (IF sending = None THEN <<>>
          ELSE <<[part |-> sending, seq |-> sendSeq, again |-> FALSE]>>)

Flight == {p.part.msg : p \in ToSet(Coming)} \ (harmed \cup {DeliveredMessage})

Order ==
  {pair \in Flight \X Flight :
     pair[1] # pair[2] /\ \E i, j \in DOMAIN Coming :
       i < j /\ Coming[i].part.msg = pair[1] /\ Coming[j].part.msg = pair[2]}

Link == INSTANCE MessageLink WITH
  Message <- 0..Messages - 1,
  flight <- Flight,
  order <- Order,
  delivered <- Delivered

(* What is handed up is one message with all its fragments in their order: *)
(* never the end of one behind the beginning of another and never one with *)
(* a hole, whatever was lost, repeated or refused before and wherever the  *)
(* sequence numbers wrap, while faults stop short of half of the numbers.  *)
(* Messages come in order and at most once: a repeated last fragment is    *)
(* not a second message, and a message that lost a packet never comes.     *)
ImplementsMessageLink == Link!Spec

(* "otherwise it owns the buffer and eventually passes back the            *)
(* aggregated message after receiving all its fragments"                   *)
(* (athena_TransportLinkModuleETH.c:544-545): a message all packets of     *)
(* which arrive is delivered, whatever became of the messages before it.   *)
(* The code does not keep this: a last fragment that fills its packet is   *)
(* not marked as the last, and one that is padded is dropped.              *)
EveryIntactMessageArrives ==
  \A m \in 0..Messages - 1 :
    m \in InFlight ~> m \in harmed \/ DeliveredMessage = m

(* What is left of it.  The last fragment of the message is marked and not *)
(* padded, or the message is not cut up at all.                            *)
Ends(size) ==
  LET last == [msg |-> 0, size |-> size, number |-> Parts(size) - 1]
  IN Fits(size) \/ (IsEnd(last) /\ ~Padded(last))

Underway ==
  {p.part : p \in ToSet(net)} \cup ToSet(fragments) \cup ({sending} \ {None})

(* Such a message is delivered once all its packets arrive, whatever       *)
(* became of the messages before it, the ones that can never be delivered  *)
(* among them, and however often packets are repeated.                     *)
EveryEndedMessageArrives ==
  \A m \in 0..Messages - 1 :
    (\E part \in Underway : part.msg = m /\ Ends(part.size))
      ~> m \in harmed \/ DeliveredMessage = m
=============================================================================
