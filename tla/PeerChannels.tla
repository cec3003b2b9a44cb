----------------------------- MODULE PeerChannels -----------------------------
(***************************************************************************)
(* What a datagram listener promises for the peers that share its socket:  *)
(* the messages of each peer come in over the link of that peer, in the    *)
(* order they arrived and at most once.  The oldest may be lost.           *)
(***************************************************************************)
EXTENDS Naturals, Sequences

CONSTANTS Peer, Data, None

VARIABLES
  waiting,  (* [Peer -> Seq(Data)]: arrived and not yet given out          *)
  given     (* the message given out and the peer whose link it came over  *)

vars == <<waiting, given>>

Init == waiting = [p \in Peer |-> <<>>] /\ given = None

Arrive(p, d) ==
  /\ waiting' = [waiting EXCEPT ![p] = Append(@, d)]
  /\ UNCHANGED given

Without(n) == [p \in Peer |-> SubSeq(waiting[p], n[p] + 1, Len(waiting[p]))]

Lose ==
  /\ \E n \in [Peer -> UNION {0..Len(waiting[p]) : p \in Peer}] : waiting' = Without(n)
  /\ UNCHANGED given

Give(p) ==
  /\ waiting[p] # <<>>
  /\ given' = [over |-> p, from |-> p, data |-> Head(waiting[p])]
  /\ waiting' = [waiting EXCEPT ![p] = Tail(@)]

Finish == given' = None /\ UNCHANGED waiting

Next ==
  \/ \E p \in Peer : Give(p) \/ \E d \in Data : Arrive(p, d)
  \/ Lose \/ Finish

Spec == Init /\ [][Next]_vars
=============================================================================
