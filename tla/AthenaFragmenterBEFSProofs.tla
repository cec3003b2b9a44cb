----------------------- MODULE AthenaFragmenterBEFSProofs -----------------------
(***************************************************************************)
(* What is proved of the fragmenter over a network that keeps packets in   *)
(* order: a message is handed up whole or not at all, and in the order of  *)
(* sending, whatever is lost, repeated, cut or refused.                    *)
(***************************************************************************)
EXTENDS AthenaFragmenterBEFS, FiniteSetTheorems, SequenceTheorems, TLAPS

(***************************************************************************)
(* The invariant                                                           *)
(***************************************************************************)
Continues(p) == p.seq # None /\ ~IsBegin(p.part)
Finishes(p) == p.seq = None \/ IsEnd(p.part)

(* A message that fits is a packet of its own; of the others there are     *)
(* fragments, and only the one the network delivers next was delivered     *)
(* before.                                                                 *)
WellMade(q) ==
  \A i \in 1..Len(q) :
    /\ q[i].seq = None => q[i].part.number = 0 /\ Fits(q[i].part.size)
    /\ q[i].seq # None => ~Fits(q[i].part.size) /\ Remaining(q[i].part) > 0
    /\ q[i].again => i = 1 /\ q[i].seq # None

(* A message has its fragments one behind the other, numbered through, and *)
(* the one before a fragment is missing only where that has arrived.       *)
Runs(q) ==
  \A i, j \in 1..Len(q) : i < j /\ q[i].part.msg = q[j].part.msg =>
    /\ Continues(q[j])
    /\ q[j].part.size = q[i].part.size /\ q[j].part.number = q[i].part.number + (j - i)
    /\ \A h \in i..j : q[h].part.msg = q[i].part.msg

Consecutive(q) ==
  \A i, j \in 1..Len(q) : j = i + 1 /\ Continues(q[j]) =>
    /\ q[i].seq # None
    /\ q[j].part = Follows(q[i].part)
    /\ q[j].seq = (q[i].seq + 1) % SeqSize

Orderly(q) == q \in Seq(Packet) /\ WellMade(q) /\ Runs(q) /\ Consecutive(q)

(* How far the number of a fragment is ahead of the expected one.          *)
Ahead(p) == (p.seq - expected) % SeqSize

(* The fragments that come before one.                                     *)
Before(part) == [i \in 1..part.number |-> [part EXCEPT !.number = i - 1]]

(* A fragment of a message that has lost one: its number is ahead, and not *)
(* so far that it comes round to the expected one.                         *)
Lagging(p) ==
  /\ Continues(p) /\ p.part.msg \in harmed
  /\ Ahead(p) > 0 /\ Ahead(p) < MaxGap + p.part.number

Wanted(p) == Ahead(p) = 0 /\ fragments = Before(p.part)

Taken(p) ==
  /\ Ahead(p) = SeqSize - 1
  /\ IF IsEnd(p.part) THEN DeliveredMessage = p.part.msg ELSE fragments = Before(Follows(p.part))

(* What comes next is a new message, goes on with what is held, or goes on *)
(* with a message that lost a fragment.                                    *)
HeadInv ==
  Coming # <<>> =>
    /\ Continues(Coming[1]) /\ ~Coming[1].again => Wanted(Coming[1]) \/ Lagging(Coming[1])
    /\ Coming[1].again => Taken(Coming[1]) \/ Lagging(Coming[1])

(* The last fragment of a harmed message comes, or will be made, only      *)
(* behind one that is ahead.                                               *)
Closes(i) == Finishes(Coming[i]) \/ (i = Len(Coming) /\ sending # None)

HarmInv ==
  \A i \in 1..Len(Coming) : Closes(i) /\ Coming[i].part.msg \in harmed =>
    Coming[1].part.msg = Coming[i].part.msg /\ Lagging(Coming[1])

(* What was delivered is whole and comes again only as the repetition of   *)
(* its last fragment.                                                      *)
DeliveredInv ==
  /\ delivered = <<>> \/ Whole(delivered)
  /\ \A i \in 1..Len(Coming) : Coming[i].part.msg = DeliveredMessage =>
       i = 1 /\ Coming[1].again /\ IsEnd(Coming[1].part) /\ Taken(Coming[1])

HeldInv == \A i, j \in 1..Len(fragments) : fragments[i].msg = fragments[j].msg

FragmenterInv ==
  /\ TypeOK /\ (sending # None => ~Fits(sending.size) /\ Remaining(sending) > 0)
  /\ Orderly(Coming) /\ HeadInv /\ HarmInv /\ DeliveredInv /\ HeldInv

(* A message has so few fragments that numbers which run ahead do not come *)
(* round within one (a message's length field has 16 bits, a number 20).   *)
ShortMessages == \A size \in Size : MaxGap + Parts(size) <= SeqSize + 1

InOrder == "reorder" \notin Faults

LEMMA Assembled ==
  ASSUME TypeOK', (sending # None => ~Fits(sending.size) /\ Remaining(sending) > 0)',
         Orderly(Coming'), HeadInv', HarmInv', DeliveredInv', HeldInv'
  PROVE  FragmenterInv'
<1>1. Orderly(Coming)'
  BY DEF Orderly, WellMade, Runs, Consecutive
<1>2. QED
  BY <1>1 DEF FragmenterInv

(***************************************************************************)
(* Numbers                                                                 *)
(***************************************************************************)
LEMMA Residue ==
  ASSUME NEW n \in Nat \ {0}, NEW a \in 0..n - 1, NEW b \in 0..n - 1
  PROVE  (a - b) % n = IF a < b THEN a - b + n ELSE a - b
  OBVIOUS

LEMMA NextNumber ==
  ASSUME NEW n \in Nat \ {0}, NEW a \in 0..n - 1
  PROVE  (a + 1) % n = IF a = n - 1 THEN 0 ELSE a + 1
  OBVIOUS

LEMMA Products ==
  ASSUME NEW m \in Nat \ {0}, NEW a \in Nat, NEW b \in Nat, a < b
  PROVE  m * a \in Nat /\ m * b \in Nat /\ m * (a + 1) = m * a + m /\ m * a + m <= m * b
  OBVIOUS

LEMMA Quotient ==
  ASSUME NEW m \in Nat \ {0}, NEW x \in Nat, NEW q \in Nat, m * q <= x, x < m * (q + 1)
  PROVE  x \div m = q
  OBVIOUS

LEMMA Sequencing ==
  ASSUME NEW a \in 0..SeqSize - 1, NEW b \in 0..SeqSize - 1
  PROVE  /\ (a - b) % SeqSize \in 0..SeqSize - 1
         /\ ((a + 1) % SeqSize) \in 0..SeqSize - 1
         /\ (((a + 1) % SeqSize) - b) % SeqSize
              = IF (a - b) % SeqSize = SeqSize - 1 THEN 0 ELSE ((a - b) % SeqSize) + 1
         /\ (a - ((a + 1) % SeqSize)) % SeqSize = SeqSize - 1
         /\ (a - b) % SeqSize = SeqSize - 1 => b = (a + 1) % SeqSize
         /\ (Compare(a, b) = 0) <=> ((a - b) % SeqSize = 0)
         /\ (Compare(a, b) < 0) <=> ((a - b) % SeqSize >= SeqSize \div 2)
<1>1. SeqSize \in Nat \ {0} /\ SeqSize >= 2 /\ 0 \in 0..SeqSize - 1
      /\ SeqSize \div 2 \in Nat /\ SeqSize \div 2 > 0 /\ SeqSize \div 2 < SeqSize
  BY FragmenterAssumption
<1>2. (a - b) % SeqSize = IF a < b THEN a - b + SeqSize ELSE a - b
  BY <1>1, Residue
<1>3. (a + 1) % SeqSize = IF a = SeqSize - 1 THEN 0 ELSE a + 1
  BY <1>1, NextNumber
<1> DEFINE c == (a + 1) % SeqSize
<1>4. c \in 0..SeqSize - 1
  BY <1>1, <1>3
<1> HIDE DEF c
<1>5. (c - b) % SeqSize = IF c < b THEN c - b + SeqSize ELSE c - b
  BY <1>1, <1>4, Residue
<1>6. (a - c) % SeqSize = IF a < c THEN a - c + SeqSize ELSE a - c
  BY <1>1, <1>4, Residue
<1>7. (a - b) % SeqSize \in 0..SeqSize - 1
  BY <1>1, <1>2
<1>8. (c - b) % SeqSize = IF (a - b) % SeqSize = SeqSize - 1 THEN 0 ELSE ((a - b) % SeqSize) + 1
  <2>1. c = IF a = SeqSize - 1 THEN 0 ELSE a + 1
    BY <1>3 DEF c
  <2>2. QED
    BY <1>1, <1>2, <1>5, <2>1
<1>9. (a - c) % SeqSize = SeqSize - 1
  BY <1>1, <1>3, <1>6 DEF c
<1>10. /\ (Compare(a, b) = 0) <=> ((a - b) % SeqSize = 0)
       /\ (Compare(a, b) < 0) <=> ((a - b) % SeqSize >= SeqSize \div 2)
  <2> DEFINE d == (a - b) % SeqSize
  <2>1. Compare(a, b) = IF d < SeqSize \div 2 THEN d ELSE d - SeqSize
    BY DEF Compare
  <2>2. d \in 0..SeqSize - 1
    BY <1>7
  <2> HIDE DEF d
  <2>3. QED
    BY <1>1, <2>1, <2>2 DEF d
<1>11. (a - b) % SeqSize = SeqSize - 1 => b = c
  BY <1>1, <1>2, <1>3 DEF c
<1>12. QED
  BY <1>4, <1>7, <1>8, <1>9, <1>10, <1>11 DEF c

LEMMA Payload == MaxPayload \in Nat \ {0} /\ Size \subseteq Nat \ {0} /\ MTU \in Nat /\ MaxPayload <= MTU
BY FragmenterAssumption DEF MaxPayload

LEMMA NextFragment ==
  ASSUME NEW part \in Part
  PROVE  /\ Follows(part) \in Part /\ Follows(part).msg = part.msg /\ Follows(part).size = part.size
         /\ Follows(part).number = part.number + 1 /\ ~IsBegin(Follows(part))
         /\ Remaining(part) \in Int /\ Remaining(Follows(part)) = Remaining(part) - MaxPayload
<1>1. part.size \in Nat /\ part.number \in Nat /\ MaxPayload \in Nat
  BY Payload DEF Part
<1>2. /\ Follows(part) \in Part /\ Follows(part).msg = part.msg /\ Follows(part).size = part.size
      /\ Follows(part).number = part.number + 1
  BY DEF Part, Follows
<1>3. MaxPayload * (part.number + 1) = MaxPayload * part.number + MaxPayload
  BY <1>1, Payload, Products
<1>4. MaxPayload * part.number \in Nat
  BY <1>1
<1>5. QED
  BY <1>1, <1>2, <1>3, <1>4 DEF Remaining, IsBegin

(* The last fragment is the last there is, and the first is not.           *)
LEMMA LastFragment ==
  ASSUME NEW part \in Part, NEW other \in Part, IsEnd(part),
         other.size = part.size, other.number > part.number
  PROVE  Remaining(other) <= 0
<1>1. /\ part.size \in Nat /\ part.number \in Nat /\ other.number \in Nat
      /\ MaxPayload \in Nat \ {0}
  BY Payload DEF Part
<1>2. /\ MaxPayload * part.number \in Nat /\ MaxPayload * other.number \in Nat
      /\ MaxPayload * part.number + MaxPayload <= MaxPayload * other.number
  BY <1>1, Products
<1>3. QED
  BY <1>1, <1>2 DEF Remaining, IsEnd

LEMMA CountParts ==
  ASSUME NEW part \in Part, ~Fits(part.size), Remaining(part) > 0
  PROVE  /\ part.number + 1 <= Parts(part.size) /\ Parts(part.size) \in Nat
         /\ IsEnd(part) => Parts(part.size) = part.number + 1
         /\ IsBegin(part) => ~IsEnd(part)
<1>1. part.size \in Nat /\ part.number \in Nat /\ MaxPayload \in Nat \ {0} /\ MTU \in Nat
  BY Payload DEF Part
<1> DEFINE x == part.size + MaxPayload - 1
           n == part.number
<1>2. Parts(part.size) = x \div MaxPayload
  BY DEF Parts
<1>3. x \in Nat
  BY <1>1
<1>4. MaxPayload * (n + 1) = MaxPayload * n + MaxPayload /\ MaxPayload * n \in Nat
      /\ MaxPayload * ((n + 1) + 1) = MaxPayload * (n + 1) + MaxPayload
  <2>1. n + 1 \in Nat /\ (n + 1) + 1 \in Nat /\ n < n + 1 /\ n + 1 < (n + 1) + 1
    BY <1>1
  <2>2. QED
    BY <1>1, <2>1, Products
<1>5. MaxPayload * n < part.size
  BY <1>1, <1>4 DEF Remaining
<1>6. IsEnd(part) => Parts(part.size) = part.number + 1
  <2>1. ASSUME IsEnd(part)
        PROVE  MaxPayload * (n + 1) <= x /\ x < MaxPayload * ((n + 1) + 1)
    BY <1>1, <1>4, <1>5, <2>1 DEF IsEnd, Remaining
  <2>2. n + 1 \in Nat
    BY <1>1
  <2> HIDE DEF x
  <2>3. QED
    BY <1>1, <1>2, <1>3, <2>1, <2>2, Quotient
<1>7. n + 1 <= x \div MaxPayload /\ x \div MaxPayload \in Nat
  <2>1. MaxPayload * (n + 1) <= x
    BY <1>1, <1>4, <1>5
  <2> DEFINE k == x \div MaxPayload
  <2>2. k \in Nat /\ x < MaxPayload * (k + 1)
    BY <1>1, <1>3
  <2> HIDE DEF k, x
  <2>3. ASSUME k < n + 1
        PROVE  MaxPayload * (k + 1) <= MaxPayload * (n + 1)
    <3>1. k = n \/ k + 1 < n + 1
      BY <1>1, <2>2, <2>3
    <3>2. k + 1 \in Nat /\ n + 1 \in Nat
      BY <1>1, <2>2
    <3>3. CASE k = n
      BY <1>1, <1>4, <3>3
    <3>4. CASE k + 1 < n + 1
      <4>1. MaxPayload * (k + 1) \in Nat /\ MaxPayload * (k + 1) + MaxPayload <= MaxPayload * (n + 1)
        BY <1>1, <3>2, <3>4, Products
      <4>2. QED
        BY <1>1, <1>4, <4>1
    <3>5. QED
      BY <3>1, <3>3, <3>4
  <2>4. MaxPayload * (k + 1) \in Nat
    BY <1>1, <2>2
  <2>5. ~(k < n + 1)
    BY <1>1, <1>3, <1>4, <2>1, <2>2, <2>3, <2>4
  <2>6. n + 1 <= k
    BY <1>1, <2>2, <2>5
  <2>7. QED
    BY <2>2, <2>6 DEF k
<1>8. IsBegin(part) => ~IsEnd(part)
  BY <1>1, Payload DEF IsBegin, IsEnd, Remaining, Fits
<1>9. QED
  BY <1>2, <1>6, <1>7, <1>8

(***************************************************************************)
(* The queue of what is coming                                             *)
(***************************************************************************)
LEMMA PacketOf ==
  ASSUME NEW q \in Seq(Packet), NEW i \in 1..Len(q)
  PROVE  /\ q[i] \in Packet /\ q[i].part \in Part /\ q[i].part.number \in Nat
         /\ q[i].part.msg \in 0..Messages - 1 /\ q[i].part.size \in Size
         /\ q[i].seq # None => q[i].seq \in 0..SeqSize - 1
<1>1. q[i] \in Packet
  BY ElementOfSeq
<1>2. q[i].part \in Part /\ q[i].seq \in 0..SeqSize - 1 \cup {None}
  BY <1>1 DEF Packet
<1>3. QED
  BY <1>1, <1>2 DEF Part

LEMMA Shorter ==
  ASSUME NEW q, Orderly(q), q # <<>>
  PROVE  /\ Orderly(Tail(q)) /\ Len(Tail(q)) = Len(q) - 1
         /\ \A i \in 1..Len(Tail(q)) : i + 1 \in 1..Len(q) /\ Tail(q)[i] = q[i + 1]
<1> DEFINE r == Tail(q)
<1>1. q \in Seq(Packet) /\ Len(q) \in Nat
  BY DEF Orderly
<1>2. r \in Seq(Packet) /\ Len(r) = Len(q) - 1 /\ \A i \in 1..Len(r) : r[i] = q[i + 1]
  BY <1>1, HeadTailProperties
<1>3. \A i \in 1..Len(r) : i + 1 \in 1..Len(q)
  BY <1>1, <1>2
<1> HIDE DEF r
<1>4. WellMade(r)
  <2>1. \A i \in 1..Len(r) : ~r[i].again
    <3>1. \A i \in 1..Len(r) : i + 1 # 1
      OBVIOUS
    <3>2. QED
      BY <1>2, <1>3, <3>1 DEF Orderly, WellMade
  <2> SUFFICES ASSUME NEW i \in 1..Len(r)
               PROVE  /\ r[i].seq = None => r[i].part.number = 0 /\ Fits(r[i].part.size)
                      /\ r[i].seq # None => ~Fits(r[i].part.size) /\ Remaining(r[i].part) > 0
                      /\ r[i].again => i = 1 /\ r[i].seq # None
    BY DEF WellMade
  <2>2. r[i] = q[i + 1] /\ i + 1 \in 1..Len(q)
    BY <1>2, <1>3
  <2>3. /\ q[i + 1].seq = None => q[i + 1].part.number = 0 /\ Fits(q[i + 1].part.size)
        /\ q[i + 1].seq # None => ~Fits(q[i + 1].part.size) /\ Remaining(q[i + 1].part) > 0
    BY <2>2 DEF Orderly, WellMade
  <2>4. QED
    BY <2>1, <2>2, <2>3
<1>5. Runs(r)
  <2> SUFFICES ASSUME NEW i \in 1..Len(r), NEW j \in 1..Len(r), i < j, r[i].part.msg = r[j].part.msg
               PROVE  /\ Continues(r[j])
                      /\ r[j].part.size = r[i].part.size
                      /\ r[j].part.number = r[i].part.number + (j - i)
                      /\ \A h \in i..j : r[h].part.msg = r[i].part.msg
    BY DEF Runs
  <2>1. i + 1 \in 1..Len(q) /\ j + 1 \in 1..Len(q) /\ i + 1 < j + 1 /\ (j + 1) - (i + 1) = j - i
    BY <1>3
  <2>2. r[i] = q[i + 1] /\ r[j] = q[j + 1]
    BY <1>2
  <2>3. /\ Continues(r[j])
        /\ r[j].part.size = r[i].part.size
        /\ r[j].part.number = r[i].part.number + (j - i)
        /\ \A h \in i + 1..j + 1 : q[h].part.msg = r[i].part.msg
    BY <2>1, <2>2 DEF Orderly, Runs
  <2>4. \A h \in i..j : h \in 1..Len(r) /\ h + 1 \in i + 1..j + 1
    BY <1>1, <1>2
  <2>5. QED
    BY <1>2, <2>3, <2>4
<1>6. Consecutive(r)
  <2> SUFFICES ASSUME NEW i \in 1..Len(r), NEW j \in 1..Len(r), j = i + 1, Continues(r[j])
               PROVE  /\ r[i].seq # None
                      /\ r[j].part = Follows(r[i].part)
                      /\ r[j].seq = (r[i].seq + 1) % SeqSize
    BY DEF Consecutive
  <2>1. i + 1 \in 1..Len(q) /\ j + 1 \in 1..Len(q) /\ j + 1 = (i + 1) + 1
    BY <1>3
  <2>2. r[i] = q[i + 1] /\ r[j] = q[j + 1]
    BY <1>2
  <2>3. QED
    BY <2>1, <2>2 DEF Orderly, Consecutive
<1>7. QED
  BY <1>2, <1>3, <1>4, <1>5, <1>6 DEF Orderly, r

(* Without its last packet, or with a packet marked, the rest is the same. *)
LEMMA PartOf ==
  ASSUME NEW q, Orderly(q), NEW r \in Seq(Packet), Len(r) <= Len(q),
         \A i \in 1..Len(r) : /\ r[i].part = q[i].part /\ r[i].seq = q[i].seq
                              /\ r[i].again => i = 1 /\ q[i].seq # None
  PROVE  Orderly(r)
<1>1. Len(q) \in Nat /\ Len(r) \in Nat
  BY DEF Orderly
<1>2. \A i \in 1..Len(r) : i \in 1..Len(q)
  BY <1>1
<1>3. WellMade(r)
  <2> SUFFICES ASSUME NEW i \in 1..Len(r)
               PROVE  /\ r[i].seq = None => r[i].part.number = 0 /\ Fits(r[i].part.size)
                      /\ r[i].seq # None => ~Fits(r[i].part.size) /\ Remaining(r[i].part) > 0
                      /\ r[i].again => i = 1 /\ r[i].seq # None
    BY DEF WellMade
  <2>1. /\ q[i].seq = None => q[i].part.number = 0 /\ Fits(q[i].part.size)
        /\ q[i].seq # None => ~Fits(q[i].part.size) /\ Remaining(q[i].part) > 0
    BY <1>2 DEF Orderly, WellMade
  <2>2. r[i].part = q[i].part /\ r[i].seq = q[i].seq
    OBVIOUS
  <2>3. QED
    BY <2>1, <2>2
<1>4. Runs(r)
  <2> SUFFICES ASSUME NEW i \in 1..Len(r), NEW j \in 1..Len(r), i < j, r[i].part.msg = r[j].part.msg
               PROVE  /\ Continues(r[j])
                      /\ r[j].part.size = r[i].part.size
                      /\ r[j].part.number = r[i].part.number + (j - i)
                      /\ \A h \in i..j : r[h].part.msg = r[i].part.msg
    BY DEF Runs
  <2>1. /\ Continues(q[j])
        /\ q[j].part.size = q[i].part.size
        /\ q[j].part.number = q[i].part.number + (j - i)
        /\ \A h \in i..j : q[h].part.msg = q[i].part.msg
    BY <1>2 DEF Orderly, Runs
  <2>2. \A h \in i..j : h \in 1..Len(r)
    BY <1>1
  <2>3. QED
    BY <2>1, <2>2 DEF Continues
<1>5. Consecutive(r)
  BY <1>2 DEF Orderly, Consecutive, Continues
<1>6. QED
  BY <1>3, <1>4, <1>5 DEF Orderly

LEMMA Appended ==
  ASSUME NEW q \in Seq(Packet), NEW p \in Packet
  PROVE  /\ Append(q, p) \in Seq(Packet) /\ Len(Append(q, p)) = Len(q) + 1 /\ Append(q, p) # <<>>
         /\ \A i \in 1..Len(Append(q, p)) :
              IF i = Len(q) + 1 THEN Append(q, p)[i] = p
              ELSE i \in 1..Len(q) /\ Append(q, p)[i] = q[i]
  OBVIOUS

LEMMA LongerByNew ==
  ASSUME NEW q, Orderly(q), NEW p \in Packet, ~p.again, p.part.number = 0,
         \A i \in 1..Len(q) : q[i].part.msg # p.part.msg,
         p.seq = None => Fits(p.part.size),
         p.seq # None => ~Fits(p.part.size) /\ Remaining(p.part) > 0
  PROVE  Orderly(Append(q, p))
<1> DEFINE r == Append(q, p)
           n == Len(q) + 1
<1>1. q \in Seq(Packet) /\ Len(q) \in Nat
  BY DEF Orderly
<1>2. r \in Seq(Packet) /\ Len(r) = n
  BY <1>1, Appended
<1>3. \A i \in 1..Len(r) : IF i = n THEN r[i] = p ELSE i \in 1..Len(q) /\ r[i] = q[i]
  BY <1>1, Appended
<1>4. ~Continues(p)
  BY DEF Continues, IsBegin
<1> HIDE DEF r
<1>5. WellMade(r)
  BY <1>1, <1>2, <1>3 DEF Orderly, WellMade
<1>6. Runs(r)
  <2> SUFFICES ASSUME NEW i \in 1..Len(r), NEW j \in 1..Len(r), i < j, r[i].part.msg = r[j].part.msg
               PROVE  /\ Continues(r[j])
                      /\ r[j].part.size = r[i].part.size
                      /\ r[j].part.number = r[i].part.number + (j - i)
                      /\ \A h \in i..j : r[h].part.msg = r[i].part.msg
    BY DEF Runs
  <2>1. i # n /\ j # n
    BY <1>1, <1>2, <1>3
  <2>2. /\ Continues(q[j])
        /\ q[j].part.size = q[i].part.size
        /\ q[j].part.number = q[i].part.number + (j - i)
        /\ \A h \in i..j : q[h].part.msg = q[i].part.msg
    BY <1>3, <2>1 DEF Orderly, Runs
  <2>3. \A h \in i..j : h \in 1..Len(r) /\ h # n
    BY <1>1, <1>2, <2>1
  <2>4. QED
    BY <1>3, <2>1, <2>2, <2>3
<1>7. Consecutive(r)
  <2> SUFFICES ASSUME NEW i \in 1..Len(r), NEW j \in 1..Len(r), j = i + 1, Continues(r[j])
               PROVE  /\ r[i].seq # None
                      /\ r[j].part = Follows(r[i].part)
                      /\ r[j].seq = (r[i].seq + 1) % SeqSize
    BY DEF Consecutive
  <2>1. j # n
    BY <1>3, <1>4
  <2>2. i # n
    BY <1>1, <1>2
  <2>3. QED
    BY <1>3, <2>1, <2>2 DEF Orderly, Consecutive
<1>8. QED
  BY <1>2, <1>5, <1>6, <1>7 DEF Orderly, r

LEMMA LongerByNext ==
  ASSUME NEW q, Orderly(q), q # <<>>, NEW p \in Packet, ~p.again, p.seq # None,
         q[Len(q)].seq # None, Remaining(p.part) > 0,
         p.part = Follows(q[Len(q)].part), p.seq = (q[Len(q)].seq + 1) % SeqSize
  PROVE  Orderly(Append(q, p))
<1> DEFINE r == Append(q, p)
           n == Len(q) + 1
           last == q[Len(q)]
<1>1. q \in Seq(Packet) /\ Len(q) \in Nat /\ Len(q) \in 1..Len(q)
  BY EmptySeq DEF Orderly
<1>2. r \in Seq(Packet) /\ Len(r) = n
  BY <1>1, Appended
<1>3. \A i \in 1..Len(r) : IF i = n THEN r[i] = p ELSE i \in 1..Len(q) /\ r[i] = q[i]
  BY <1>1, Appended
<1>4. last.part \in Part
  BY <1>1, PacketOf
<1>5. /\ p.part.msg = last.part.msg /\ p.part.size = last.part.size
      /\ p.part.number = last.part.number + 1 /\ ~IsBegin(p.part)
  BY <1>4, NextFragment
<1>6. \A i \in 1..Len(q) : q[i].part.number \in Nat
  BY <1>1, PacketOf
<1> HIDE DEF r
<1>7. WellMade(r)
  BY <1>1, <1>2, <1>3, <1>5 DEF Orderly, WellMade
<1>8. Runs(r)
  <2> SUFFICES ASSUME NEW i \in 1..Len(r), NEW j \in 1..Len(r), i < j, r[i].part.msg = r[j].part.msg
               PROVE  /\ Continues(r[j])
                      /\ r[j].part.size = r[i].part.size
                      /\ r[j].part.number = r[i].part.number + (j - i)
                      /\ \A h \in i..j : r[h].part.msg = r[i].part.msg
    BY DEF Runs
  <2>1. i # n /\ r[i] = q[i] /\ i \in 1..Len(q)
    BY <1>1, <1>2, <1>3
  <2>2. CASE j # n
    <3>1. /\ Continues(q[j])
          /\ q[j].part.size = q[i].part.size
          /\ q[j].part.number = q[i].part.number + (j - i)
          /\ \A h \in i..j : q[h].part.msg = q[i].part.msg
      BY <1>3, <2>1, <2>2 DEF Orderly, Runs
    <3>2. \A h \in i..j : h \in 1..Len(r) /\ h # n
      BY <1>1, <1>2, <2>1, <2>2
    <3>3. QED
      BY <1>3, <2>1, <2>2, <3>1, <3>2
  <2>3. CASE j = n
    <3>1. r[j] = p
      BY <1>3, <2>3
    <3>2. /\ last.part.size = q[i].part.size
          /\ last.part.number = q[i].part.number + (Len(q) - i)
          /\ \A h \in i..Len(q) : q[h].part.msg = q[i].part.msg
      <4>1. q[i].part.msg = last.part.msg
        BY <1>5, <2>1, <3>1
      <4>2. CASE i = Len(q)
        BY <1>1, <1>6, <4>2
      <4>3. CASE i < Len(q)
        BY <1>1, <2>1, <4>1, <4>3 DEF Orderly, Runs
      <4>4. QED
        BY <1>1, <2>1, <4>2, <4>3
    <3>3. \A h \in i..j : h = n \/ (h \in i..Len(q) /\ h \in 1..Len(r) /\ h # n)
      BY <1>1, <1>2, <2>3
    <3>4. \A h \in i..j : r[h].part.msg = r[i].part.msg
      BY <1>3, <2>1, <2>3, <3>1, <3>2, <3>3
    <3>5. p.part.number = q[i].part.number + (j - i)
      BY <1>1, <1>5, <1>6, <2>1, <2>3, <3>2
    <3>6. Continues(p)
      BY <1>5 DEF Continues
    <3>7. QED
      BY <1>5, <2>1, <3>1, <3>2, <3>4, <3>5, <3>6
  <2>4. QED
    BY <2>2, <2>3
<1>9. Consecutive(r)
  <2> SUFFICES ASSUME NEW i \in 1..Len(r), NEW j \in 1..Len(r), j = i + 1, Continues(r[j])
               PROVE  /\ r[i].seq # None
                      /\ r[j].part = Follows(r[i].part)
                      /\ r[j].seq = (r[i].seq + 1) % SeqSize
    BY DEF Consecutive
  <2>1. i # n /\ r[i] = q[i] /\ i \in 1..Len(q)
    BY <1>1, <1>2, <1>3
  <2>2. CASE j # n
    BY <1>3, <2>1, <2>2 DEF Orderly, Consecutive
  <2>3. CASE j = n
    <3>1. i = Len(q) /\ r[j] = p
      BY <1>1, <1>3, <2>3
    <3>2. QED
      BY <2>1, <3>1
  <2>4. QED
    BY <2>2, <2>3
<1>10. QED
  BY <1>2, <1>7, <1>8, <1>9 DEF Orderly, r

(* The last fragment of a message has none of it behind it.                *)
LEMMA NothingBehind ==
  ASSUME NEW q, Orderly(q), NEW i \in 1..Len(q), NEW j \in 1..Len(q), i < j, Finishes(q[i])
  PROVE  q[i].part.msg # q[j].part.msg
<1>1. q \in Seq(Packet) /\ q[i].part \in Part /\ q[j].part \in Part
  BY PacketOf DEF Orderly
<1> SUFFICES ASSUME q[i].part.msg = q[j].part.msg
             PROVE  FALSE
  OBVIOUS
<1>2. /\ Continues(q[j]) /\ q[j].part.size = q[i].part.size
      /\ q[j].part.number = q[i].part.number + (j - i)
      /\ \A h \in i..j : q[h].part.msg = q[i].part.msg
  BY DEF Orderly, Runs
<1>3. q[j].part.number > q[i].part.number /\ q[j].seq # None /\ ~Fits(q[j].part.size)
      /\ Remaining(q[j].part) > 0
  BY <1>1, <1>2 DEF Part, Continues, Orderly, WellMade
<1>4. CASE q[i].seq = None
  BY <1>2, <1>3, <1>4 DEF Orderly, WellMade
<1>5. CASE IsEnd(q[i].part)
  <2>1. Remaining(q[j].part) <= 0 /\ Remaining(q[j].part) \in Int
    BY <1>1, <1>2, <1>3, <1>5, LastFragment, NextFragment
  <2>2. QED
    BY <1>3, <2>1
<1>6. QED
  BY <1>4, <1>5 DEF Finishes

(* What is coming is the network and behind it the fragment to be made.    *)
Made(s, k) == [part |-> s, seq |-> k, again |-> FALSE]

Queue(n, s, k) == n \o (IF s = None THEN <<>> ELSE <<Made(s, k)>>)

LEMMA QueueShape ==
  ASSUME NEW n \in Seq(Packet), NEW s \in Part \cup {None}, NEW k \in 0..SeqSize - 1
  PROVE  /\ Queue(n, s, k) \in Seq(Packet)
         /\ s = None => Queue(n, s, k) = n
         /\ s # None => Queue(n, s, k) = Append(n, Made(s, k)) /\ Made(s, k) \in Packet /\ s \in Part
         /\ Len(Queue(n, s, k)) = IF s = None THEN Len(n) ELSE Len(n) + 1
         /\ \A i \in 1..Len(n) : i \in 1..Len(Queue(n, s, k)) /\ Queue(n, s, k)[i] = n[i]
         /\ s # None => Queue(n, s, k)[Len(n) + 1] = Made(s, k)
         /\ n # <<>> => 1 \in 1..Len(n) /\ Queue(n, s, k) # <<>> /\ Head(n) = n[1]
<1>1. Len(n) \in Nat /\ (n # <<>> => 1 \in 1..Len(n) /\ Head(n) = n[1])
  BY EmptySeq
<1>2. CASE s = None
  <2>1. Queue(n, s, k) = n
    BY <1>1, <1>2, ConcatEmptySeq DEF Queue
  <2>2. QED
    BY <1>1, <1>2, <2>1
<1>3. CASE s # None
  <2>1. s \in Part /\ Made(s, k) \in Packet
    BY <1>3 DEF Made, Packet
  <2>2. Queue(n, s, k) = n \o <<Made(s, k)>>
    BY <1>3 DEF Queue
  <2>3. n \o <<Made(s, k)>> = Append(n, Made(s, k))
    BY <1>1, <2>1
  <2>4. Queue(n, s, k) = Append(n, Made(s, k))
    BY <2>2, <2>3
  <2>5. QED
    BY <1>1, <1>3, <2>1, <2>4, Appended
<1>4. QED
  BY <1>2, <1>3

LEMMA QueueDropped ==
  ASSUME NEW n \in Seq(Packet), NEW s \in Part \cup {None}, NEW k \in 0..SeqSize - 1, n # <<>>
  PROVE  Queue(Tail(n), s, k) = Tail(Queue(n, s, k))
<1>1. Tail(n) \in Seq(Packet)
  BY HeadTailProperties
<1>2. CASE s = None
  <2>1. Queue(n, s, k) = n
    BY <1>2, QueueShape
  <2>2. Queue(Tail(n), s, k) = Tail(n)
    BY <1>1, <1>2, QueueShape
  <2>3. QED
    BY <2>1, <2>2
<1>3. CASE s # None
  <2>1. Queue(n, s, k) = Append(n, Made(s, k)) /\ Made(s, k) \in Packet
    BY <1>3, QueueShape
  <2>2. Queue(Tail(n), s, k) = Append(Tail(n), Made(s, k))
    BY <1>1, <1>3, QueueShape
  <2>3. Append(Tail(n), Made(s, k)) = Tail(Append(n, Made(s, k)))
    BY <2>1
  <2>4. QED
    BY <2>1, <2>2, <2>3
<1>4. QED
  BY <1>2, <1>3

LEMMA ComingIsQueue ==
  /\ Coming = Queue(net, sending, sendSeq)
  /\ Coming' = Queue(net', sending', sendSeq')
BY DEF Coming, Queue, Made

LEMMA ComingShape ==
  ASSUME TypeOK
  PROVE  /\ net \in Seq(Packet) /\ Len(net) \in Nat /\ Coming \in Seq(Packet) /\ Len(Coming) \in Nat
         /\ sending = None => Coming = net
         /\ sending # None => Coming = Append(net, Made(sending, sendSeq)) /\ sending \in Part
         /\ Len(Coming) = IF sending = None THEN Len(net) ELSE Len(net) + 1
         /\ \A i \in 1..Len(net) : i \in 1..Len(Coming) /\ Coming[i] = net[i]
         /\ sending # None => Coming[Len(Coming)] = Made(sending, sendSeq) /\ Coming # <<>>
         /\ net # <<>> => 1 \in 1..Len(net) /\ Coming # <<>> /\ Head(net) = Coming[1]
<1>1. net \in Seq(Packet) /\ sending \in Part \cup {None} /\ sendSeq \in 0..SeqSize - 1
  BY DEF TypeOK
<1>2. Len(net) \in Nat
  BY <1>1
<1> DEFINE q == Queue(net, sending, sendSeq)
<1>3. /\ q \in Seq(Packet)
      /\ sending = None => q = net
      /\ sending # None => q = Append(net, Made(sending, sendSeq)) /\ sending \in Part
      /\ Len(q) = IF sending = None THEN Len(net) ELSE Len(net) + 1
      /\ \A i \in 1..Len(net) : i \in 1..Len(q) /\ q[i] = net[i]
      /\ sending # None => q[Len(net) + 1] = Made(sending, sendSeq)
      /\ net # <<>> => 1 \in 1..Len(net) /\ q # <<>> /\ Head(net) = net[1]
  BY <1>1, QueueShape
<1> HIDE DEF q
<1>4. Coming = q
  BY ComingIsQueue DEF q
<1>5. sending # None => q # <<>>
  BY <1>2, <1>3
<1>6. QED
  BY <1>1, <1>2, <1>3, <1>4, <1>5

LEMMA ComingDropped ==
  ASSUME TypeOK, net # <<>>, net' = Tail(net), UNCHANGED sender
  PROVE  Coming' = Tail(Coming)
BY ComingIsQueue, QueueDropped DEF TypeOK, sender

(* Numbers that run ahead do not come round within a message.              *)
LEMMA NoWrap ==
  ASSUME ShortMessages, NEW part \in Part, ~Fits(part.size), Remaining(part) > 0
  PROVE  MaxGap + part.number <= SeqSize /\ MaxGap \in Nat /\ SeqSize \in Nat /\ part.number \in Nat
<1>1. part.number + 1 <= Parts(part.size) /\ Parts(part.size) \in Nat
  BY CountParts
<1>2. MaxGap + Parts(part.size) <= SeqSize + 1
  BY DEF ShortMessages, Part
<1>3. part.number \in Nat
  BY DEF Part
<1>4. QED
  BY <1>1, <1>2, <1>3, FragmenterAssumption

(***************************************************************************)
(* The first packet goes                                                   *)
(***************************************************************************)
Advanced(p) ==
  /\ p.seq # None /\ (IsBegin(p.part) \/ Ahead(p) = 0 \/ Ahead(p) = SeqSize - 1)
  /\ expected' = (p.seq + 1) % SeqSize
  /\ fragments' = Before(Follows(p.part))
  /\ harmed' = harmed

Missed(p) ==
  /\ p.seq # None /\ Ahead(p) < MaxGap + p.part.number
  /\ expected' = expected
  /\ p.part.msg \in harmed'

LEMMA NextHead ==
  ASSUME FragmenterInv, ShortMessages, Coming # <<>>, Coming' = Tail(Coming), sending' = sending,
         harmed' = harmed \/ harmed' = harmed \cup {Coming[1].part.msg},
         Finishes(Coming[1]) \/ Advanced(Coming[1]) \/ Missed(Coming[1])
  PROVE  Orderly(Coming') /\ HeadInv' /\ HarmInv'
<1>1. PICK q : q = Coming
  OBVIOUS
<1>2. Orderly(q) /\ q # <<>> /\ q \in Seq(Packet) /\ Len(q) \in Nat /\ 1 \in 1..Len(q)
  BY <1>1, EmptySeq DEF FragmenterInv, Orderly
<1> DEFINE r == Tail(q)
           p == q[1]
<1>3. /\ Orderly(r) /\ r \in Seq(Packet) /\ Len(r) = Len(q) - 1
      /\ \A i \in 1..Len(r) : i + 1 \in 1..Len(q) /\ r[i] = q[i + 1]
  BY <1>2, Shorter DEF Orderly
<1> HIDE DEF r
<1>4. Coming' = r
  BY <1>1 DEF r
<1>5. /\ p \in Packet /\ p.part \in Part /\ p.part.number \in Nat
      /\ p.seq # None => p.seq \in 0..SeqSize - 1
  BY <1>2, PacketOf
<1>6. p.seq # None => ~Fits(p.part.size) /\ Remaining(p.part) > 0
  BY <1>2 DEF Orderly, WellMade
<1>7. expected \in 0..SeqSize - 1
  BY DEF FragmenterInv, TypeOK
<1>8. p.seq # None => Ahead(p) \in 0..SeqSize - 1
  BY <1>5, <1>7, Sequencing DEF Ahead
<1>9. ASSUME r # <<>>, Continues(r[1])
      PROVE  /\ p.seq # None /\ r[1].part = Follows(p.part) /\ r[1].seq = (p.seq + 1) % SeqSize
             /\ r[1].part.number = p.part.number + 1 /\ r[1].part.msg = p.part.msg
             /\ ~Finishes(p) /\ ~r[1].again
             /\ Lagging(p) => ~Advanced(p)
             /\ Advanced(p) => Wanted(r[1])'
             /\ Missed(p) => Lagging(r[1])'
  <2>1. Len(r) \in Nat /\ 1 \in 1..Len(r) /\ 2 \in 1..Len(q) /\ r[1] = q[2] /\ 2 = 1 + 1
    BY <1>2, <1>3, <1>9, EmptySeq
  <2>2. p.seq # None /\ r[1].part = Follows(p.part) /\ r[1].seq = (p.seq + 1) % SeqSize
    BY <1>2, <1>9, <2>1 DEF Orderly, Consecutive
  <2>3. r[1].part.number = p.part.number + 1 /\ r[1].part.msg = p.part.msg
    BY <1>5, <2>2, NextFragment
  <2>4. ~Finishes(p)
    BY <1>2, <2>1, <2>3, NothingBehind
  <2>5. ~r[1].again
    <3>1. q[2].again => 2 = 1
      BY <1>2, <2>1 DEF Orderly, WellMade
    <3>2. QED
      BY <2>1, <3>1
  <2>6. /\ r[1].part \in Part /\ ~Fits(r[1].part.size) /\ Remaining(r[1].part) > 0
        /\ r[1].seq \in 0..SeqSize - 1
    <3>1. r[1].seq # None
      BY <1>9 DEF Continues
    <3>2. QED
      BY <1>3, <2>1, <3>1, PacketOf DEF Orderly, WellMade
  <2>7. MaxGap + p.part.number + 1 <= SeqSize /\ MaxGap \in Nat /\ SeqSize \in Nat
    <3>1. MaxGap + r[1].part.number <= SeqSize /\ MaxGap \in Nat /\ SeqSize \in Nat
      BY <2>6, NoWrap
    <3>2. QED
      BY <1>5, <2>3, <3>1
  <2>8. Lagging(p) => ~Advanced(p)
    BY <1>5, <1>8, <2>2, <2>7 DEF Lagging, Advanced, Continues
  <2>9. ASSUME Advanced(p)
        PROVE  Wanted(r[1])'
    <3>1. expected' = r[1].seq /\ fragments' = Before(r[1].part)
      BY <2>2, <2>9 DEF Advanced
    <3>2. (r[1].seq - expected') % SeqSize = 0
      BY <2>6, <2>7, <3>1, Residue
    <3>3. QED
      BY <3>1, <3>2 DEF Wanted, Ahead, Before
  <2>10. ASSUME Missed(p)
         PROVE  Lagging(r[1])'
    <3>1. Ahead(p) < SeqSize - 1
      BY <1>5, <1>8, <2>2, <2>7, <2>10 DEF Missed
    <3>2. (r[1].seq - expected') % SeqSize = Ahead(p) + 1
      <4>1. p.seq \in 0..SeqSize - 1 /\ expected' = expected
        BY <1>5, <2>2, <2>10 DEF Missed
      <4>2. (((p.seq + 1) % SeqSize) - expected) % SeqSize
              = IF (p.seq - expected) % SeqSize = SeqSize - 1 THEN 0 ELSE ((p.seq - expected) % SeqSize) + 1
        BY <1>7, <4>1, Sequencing
      <4>3. (p.seq - expected) % SeqSize < SeqSize - 1 /\ (p.seq - expected) % SeqSize \in 0..SeqSize - 1
        BY <1>8, <2>2, <3>1 DEF Ahead
      <4>4. (p.seq - expected) % SeqSize # SeqSize - 1
        BY <2>7, <4>3
      <4>5. QED
        BY <2>2, <4>1, <4>2, <4>4 DEF Ahead
    <3>3. Ahead(r[1])' = Ahead(p) + 1
      BY <3>2 DEF Ahead
    <3>4. Ahead(p) + 1 > 0 /\ Ahead(p) + 1 < MaxGap + r[1].part.number
      <4>1. Ahead(p) \in Nat /\ Ahead(p) < MaxGap + p.part.number
        BY <1>8, <2>2, <2>7, <2>10 DEF Missed
      <4>2. QED
        BY <1>5, <2>3, <2>7, <4>1
    <3>5. r[1].part.msg \in harmed'
      BY <2>3, <2>10 DEF Missed
    <3>6. QED
      BY <1>9, <3>3, <3>4, <3>5 DEF Lagging, Continues, IsBegin
  <2>11. QED
    BY <2>2, <2>3, <2>4, <2>5, <2>8, <2>9, <2>10
<1>10. HeadInv'
  <2>1. ASSUME r # <<>>
        PROVE  ~r[1].again /\ (Continues(r[1]) => Wanted(r[1])' \/ Lagging(r[1])')
    <3>1. ~r[1].again
      <4>1. Len(r) \in Nat /\ 1 \in 1..Len(r) /\ 2 \in 1..Len(q) /\ r[1] = q[2]
        BY <1>2, <1>3, <2>1, EmptySeq
      <4>2. q[2].again => 2 = 1
        BY <1>2, <4>1 DEF Orderly, WellMade
      <4>3. QED
        BY <4>1, <4>2
    <3>2. QED
      BY <1>1, <1>9, <2>1, <3>1
  <2>2. HeadInv' = (r # <<>> =>
           /\ Continues(r[1]) /\ ~r[1].again => Wanted(r[1])' \/ Lagging(r[1])'
           /\ r[1].again => Taken(r[1])' \/ Lagging(r[1])')
    BY <1>4 DEF HeadInv, Continues, Wanted, Lagging, Taken, Ahead, Before, DeliveredMessage, IsBegin, IsEnd, Remaining, Follows
  <2>3. QED
    BY <2>1, <2>2
<1>11. HarmInv'
  <2> SUFFICES ASSUME NEW i \in 1..Len(r), Finishes(r[i]) \/ (i = Len(r) /\ sending # None),
                      r[i].part.msg \in harmed'
               PROVE  r[1].part.msg = r[i].part.msg /\ Lagging(r[1])'
    BY <1>4 DEF HarmInv, Closes, Finishes, Lagging, Continues, Ahead, IsBegin, IsEnd, Remaining
  <2>1. i + 1 \in 1..Len(q) /\ r[i] = q[i + 1] /\ 1 \in 1..Len(r) /\ r[1] = q[2] /\ r # <<>> /\ 2 \in 1..i + 1
    <3>1. Len(r) \in Nat /\ 1 \in 1..Len(r)
      BY <1>2, <1>3
    <3>2. QED
      BY <1>3, <3>1
  <2>2. Finishes(q[i + 1]) \/ (i + 1 = Len(q) /\ sending # None)
    BY <1>2, <1>3, <2>1
  <2>3. q[i + 1].part.msg = p.part.msg /\ (harmed' = harmed => Lagging(p))
    <3>1. q[i + 1].part.msg \in harmed => p.part.msg = q[i + 1].part.msg /\ Lagging(p)
      BY <1>1, <2>1, <2>2 DEF FragmenterInv, HarmInv, Closes
    <3>2. QED
      BY <1>1, <2>1, <3>1
  <2>4. r[1].part.msg = p.part.msg /\ Continues(r[1])
    <3>1. 1 < i + 1 /\ 1 < 2 /\ 2 \in 1..Len(q)
      BY <2>1
    <3>2. q[2].part.msg = q[1].part.msg
      BY <1>2, <2>1, <2>3, <3>1 DEF Orderly, Runs
    <3>3. Continues(q[2])
      BY <1>2, <3>1, <3>2 DEF Orderly, Runs
    <3>4. QED
      BY <2>1, <3>2, <3>3
  <2>5. Lagging(r[1])'
    <3>1. CASE Advanced(p)
      BY <1>9, <2>1, <2>3, <2>4, <3>1 DEF Advanced
    <3>2. CASE Missed(p)
      BY <1>9, <2>1, <2>4, <3>2
    <3>3. QED
      BY <1>1, <1>9, <2>1, <2>4, <3>1, <3>2
  <2>6. QED
    BY <2>1, <2>3, <2>4, <2>5
<1>12. QED
  BY <1>3, <1>4, <1>10, <1>11

LEMMA Gathers ==
  ASSUME NEW part \in Part
  PROVE  /\ Before(part) \in Seq(Part) /\ Len(Before(part)) = part.number
         /\ \A i \in 1..part.number : Before(part)[i] = [part EXCEPT !.number = i - 1]
         /\ Append(Before(part), part) \in Seq(Part)
         /\ Append(Before(part), part) = Before(Follows(part))
         /\ IsBegin(part) => Before(part) = <<>>
<1>1. part.number \in Nat /\ Follows(part) \in Part /\ Follows(part).number = part.number + 1
  BY NextFragment DEF Part
<1>2. \A x \in Part : \A i \in 1..x.number : [x EXCEPT !.number = i - 1] \in Part
  <2> SUFFICES ASSUME NEW x \in Part, NEW i \in 1..x.number
               PROVE  [x EXCEPT !.number = i - 1] \in Part
    OBVIOUS
  <2>1. i - 1 \in Nat
    BY DEF Part
  <2>2. QED
    BY <2>1 DEF Part
<1>3. \A x \in Part : Before(x) \in Seq(Part) /\ Len(Before(x)) = x.number
  <2> SUFFICES ASSUME NEW x \in Part
               PROVE  Before(x) \in Seq(Part) /\ Len(Before(x)) = x.number
    OBVIOUS
  <2>1. x.number \in Nat /\ Before(x) \in [1..x.number -> Part]
    BY <1>2 DEF Before, Part
  <2>2. QED
    BY <2>1
<1>4. Before(part) \in Seq(Part) /\ Len(Before(part)) = part.number
      /\ Before(Follows(part)) \in Seq(Part) /\ Len(Before(Follows(part))) = part.number + 1
  BY <1>1, <1>3
<1> DEFINE s == Append(Before(part), part)
           t == Before(Follows(part))
<1>5. s \in Seq(Part) /\ Len(s) = part.number + 1
  BY <1>4
<1>6. \A i \in 1..part.number + 1 : s[i] = IF i = part.number + 1 THEN part ELSE Before(part)[i]
  BY <1>1, <1>4
<1>7. \A i \in 1..part.number : Before(part)[i] = [part EXCEPT !.number = i - 1]
  BY DEF Before
<1>8. \A i \in 1..part.number + 1 : t[i] = [part EXCEPT !.number = i - 1]
  <2>1. \A i \in 1..part.number + 1 : t[i] = [Follows(part) EXCEPT !.number = i - 1]
    BY <1>1 DEF Before
  <2>2. \A i \in 1..part.number + 1 : [Follows(part) EXCEPT !.number = i - 1] = [part EXCEPT !.number = i - 1]
    BY DEF Follows, Part
  <2>3. QED
    BY <2>1, <2>2
<1>9. [part EXCEPT !.number = (part.number + 1) - 1] = part
  <2>1. (part.number + 1) - 1 = part.number
    BY <1>1
  <2>2. QED
    BY <2>1 DEF Part
<1> HIDE DEF s, t
<1>10. \A i \in 1..part.number + 1 : s[i] = t[i]
  <2> SUFFICES ASSUME NEW i \in 1..part.number + 1
               PROVE  s[i] = t[i]
    OBVIOUS
  <2>1. CASE i = part.number + 1
    BY <1>6, <1>8, <1>9, <2>1
  <2>2. CASE i # part.number + 1
    <3>1. i \in 1..part.number
      BY <1>1, <2>2
    <3>2. QED
      BY <1>6, <1>7, <1>8, <2>2, <3>1
  <2>3. QED
    BY <2>1, <2>2
<1>11. s = t
  <2>1. t \in Seq(Part) /\ Len(t) = part.number + 1
    BY <1>4 DEF t
  <2>2. QED
    BY <1>5, <1>10, <2>1, SeqEqual
<1>12. IsBegin(part) => Before(part) = <<>>
  BY <1>4 DEF IsBegin
<1>13. QED
  BY <1>4, <1>5, <1>7, <1>11, <1>12 DEF s, t

(* What is delivered with the last fragment is the whole message.          *)
LEMMA GatheredWhole ==
  ASSUME NEW part \in Part, ~Fits(part.size), Remaining(part) > 0, IsEnd(part)
  PROVE  LET all == Append(Before(part), part)
         IN all # <<>> /\ Whole(all) /\ all[1].msg = part.msg
<1> DEFINE all == Append(Before(part), part)
<1>1. part.number \in Nat /\ part.number + 1 = Parts(part.size) /\ part.number > 0
  BY CountParts DEF Part, IsBegin
<1>2. /\ Before(part) \in Seq(Part) /\ Len(Before(part)) = part.number
      /\ \A i \in 1..part.number : Before(part)[i] = [part EXCEPT !.number = i - 1]
  BY Gathers
<1>3. all \in Seq(Part) /\ Len(all) = part.number + 1 /\ all # <<>> /\ DOMAIN all = 1..part.number + 1
  BY <1>1, <1>2
<1>4. \A i \in 1..part.number + 1 : all[i] = IF i = part.number + 1 THEN part ELSE Before(part)[i]
  BY <1>1, <1>2
<1> HIDE DEF all
<1>5. 1 \in 1..part.number /\ 1 \in 1..part.number + 1 /\ 1 # part.number + 1
  BY <1>1
<1>6. all[1] = [part EXCEPT !.number = 0]
  <2>1. all[1] = [part EXCEPT !.number = 1 - 1]
    BY <1>2, <1>4, <1>5
  <2>2. 1 - 1 = 0
    OBVIOUS
  <2>3. QED
    BY <2>1, <2>2
<1>7. all[1].size = part.size /\ all[1].msg = part.msg
  BY <1>6 DEF Part
<1>8. \A n : [all[1] EXCEPT !.number = n] = [part EXCEPT !.number = n]
  BY <1>6 DEF Part
<1>9. \A i \in 1..part.number + 1 : all[i] = [all[1] EXCEPT !.number = i - 1]
  <2> SUFFICES ASSUME NEW i \in 1..part.number + 1
               PROVE  all[i] = [part EXCEPT !.number = i - 1]
    BY <1>8
  <2>1. CASE i = part.number + 1
    <3>1. i - 1 = part.number
      BY <1>1, <2>1
    <3>2. [part EXCEPT !.number = part.number] = part
      BY DEF Part
    <3>3. QED
      BY <1>4, <2>1, <3>1, <3>2
  <2>2. CASE i # part.number + 1
    <3>1. i \in 1..part.number
      BY <1>1, <2>2
    <3>2. QED
      BY <1>2, <1>4, <2>2, <3>1
  <2>3. QED
    BY <2>1, <2>2
<1>10. Whole(all)
  BY <1>1, <1>3, <1>7, <1>9 DEF Whole
<1>11. QED
  BY <1>3, <1>7, <1>10 DEF all

(***************************************************************************)
(* Receiving                                                               *)
(***************************************************************************)
Standalone(p) ==
  /\ p.seq = None /\ ~p.again
  /\ delivered' = <<p.part>> /\ fragments' = fragments /\ expected' = expected

Accepted(p) ==
  /\ p.seq # None /\ ~p.again /\ (IsBegin(p.part) \/ Ahead(p) = 0)
  /\ expected' = (p.seq + 1) % SeqSize
  /\ IF IsEnd(p.part) THEN delivered' = Append(Before(p.part), p.part) /\ fragments' = <<>>
     ELSE delivered' = delivered /\ fragments' = Before(Follows(p.part))

Repeated(p) ==
  /\ p.seq # None /\ p.again /\ Ahead(p) = SeqSize - 1
  /\ expected' = (p.seq + 1) % SeqSize
  /\ delivered' = delivered
  /\ IF IsEnd(p.part) THEN DeliveredMessage = p.part.msg /\ fragments' = fragments
     ELSE fragments' = Before(Follows(p.part))

Skipped(p) ==
  /\ Lagging(p)
  /\ expected' = expected /\ delivered' = delivered
  /\ fragments' = fragments \/ fragments' = <<>>

LEMMA Received ==
  ASSUME FragmenterInv, Coming # <<>>, ReceiveFragment(Coming[1], TRUE)
  PROVE  Standalone(Coming[1]) \/ Accepted(Coming[1]) \/ Repeated(Coming[1]) \/ Skipped(Coming[1])
<1>1. PICK q : q = Coming
  OBVIOUS
<1>2. Orderly(q) /\ q # <<>> /\ q \in Seq(Packet) /\ 1 \in 1..Len(q)
  BY <1>1, EmptySeq DEF FragmenterInv, Orderly
<1> DEFINE p == q[1]
<1>3. /\ p \in Packet /\ p.part \in Part
      /\ p.seq # None => p.seq \in 0..SeqSize - 1
  BY <1>2, PacketOf
<1>4. /\ p.seq # None => ~Fits(p.part.size) /\ Remaining(p.part) > 0
      /\ p.again => p.seq # None
  BY <1>2 DEF Orderly, WellMade
<1>5. /\ Continues(p) /\ ~p.again => Wanted(p) \/ Lagging(p)
      /\ p.again => Taken(p) \/ Lagging(p)
  BY <1>1, <1>2 DEF FragmenterInv, HeadInv
<1>6. expected \in 0..SeqSize - 1 /\ SeqSize \in Nat /\ SeqSize >= 2 /\ SeqSize \div 2 < SeqSize
  BY FragmenterAssumption DEF FragmenterInv, TypeOK
<1>7. ReceiveFragment(p, TRUE)
  BY <1>1
<1> SUFFICES Standalone(p) \/ Accepted(p) \/ Repeated(p) \/ Skipped(p)
  BY <1>1
<1> HIDE DEF p
<1>8. CASE p.seq = None
  BY <1>4, <1>7, <1>8 DEF ReceiveFragment, Standalone
<1>9. ASSUME p.seq # None
      PROVE  /\ Compare(p.seq, expected) = 0 <=> Ahead(p) = 0
             /\ Compare(p.seq, expected) < 0 <=> Ahead(p) >= SeqSize \div 2
             /\ Ahead(p) = SeqSize - 1 => expected = (p.seq + 1) % SeqSize
  BY <1>3, <1>6, <1>9, Sequencing DEF Ahead
<1>10. ASSUME p.seq # None, Expects(p)
       PROVE  Gather(p)
  BY <1>7, <1>10 DEF ReceiveFragment, Expects
<1>11. CASE p.seq # None /\ IsBegin(p.part)
  <2>1. Gather(p)
    BY <1>10, <1>11 DEF Expects
  <2>2. ~IsEnd(p.part)
    BY <1>3, <1>4, <1>11, CountParts
  <2>3. Gathered(p.part) = Before(Follows(p.part))
    <3>1. Before(p.part) = <<>> /\ Append(Before(p.part), p.part) = Before(Follows(p.part))
      BY <1>3, <1>11, Gathers
    <3>2. QED
      BY <1>11, <3>1 DEF Gathered
  <2>4. expected' = (p.seq + 1) % SeqSize /\ delivered' = delivered /\ fragments' = Before(Follows(p.part))
    BY <2>1, <2>2, <2>3 DEF Gather
  <2>5. p.again => Ahead(p) = SeqSize - 1
    BY <1>5, <1>11 DEF Taken, Lagging, Continues
  <2>6. QED
    BY <1>11, <2>2, <2>4, <2>5 DEF Accepted, Repeated
<1>12. CASE p.seq # None /\ ~IsBegin(p.part)
  <2>1. Continues(p)
    BY <1>12 DEF Continues
  <2>2. CASE Wanted(p) /\ ~p.again
    <3>1. Gather(p) /\ fragments = Before(p.part) /\ Ahead(p) = 0
      BY <1>9, <1>10, <1>12, <2>2 DEF Expects, Wanted
    <3>2. Gathered(p.part) = Append(Before(p.part), p.part)
      BY <1>12, <3>1 DEF Gathered
    <3>3. Append(Before(p.part), p.part) = Before(Follows(p.part))
      BY <1>3, Gathers
    <3>4. QED
      BY <1>12, <2>2, <3>1, <3>2, <3>3 DEF Accepted, Gather
  <2>3. CASE Taken(p) /\ p.again
    <3>1. Ahead(p) = SeqSize - 1 /\ Ahead(p) # 0 /\ Ahead(p) >= SeqSize \div 2
      BY <1>6, <2>3 DEF Taken
    <3>2. ~Expects(p) /\ Compare(p.seq, expected) < 0 /\ expected = (p.seq + 1) % SeqSize
      BY <1>9, <1>12, <3>1 DEF Expects
    <3>3. UNCHANGED receiver
      BY <1>7, <1>12, <3>2 DEF ReceiveFragment
    <3>4. QED
      BY <1>12, <2>3, <3>1, <3>2, <3>3 DEF Repeated, Taken, receiver
  <2>4. CASE Lagging(p)
    <3>1. ~Expects(p)
      BY <1>9, <1>12, <2>4 DEF Expects, Lagging
    <3>2. UNCHANGED receiver \/ (ClearFragmenterData /\ UNCHANGED expected)
      BY <1>7, <1>12, <3>1 DEF ReceiveFragment
    <3>3. QED
      BY <2>4, <3>2 DEF Skipped, receiver, ClearFragmenterData
  <2>5. QED
    BY <1>5, <2>1, <2>2, <2>3, <2>4
<1>13. QED
  BY <1>8, <1>11, <1>12

(* What the receiver holds and has delivered is well made.                 *)
ReceiverGood ==
  /\ fragments \in Seq(Part) /\ HeldInv
  /\ delivered \in Seq(Part) /\ (delivered = <<>> \/ Whole(delivered))
  /\ expected \in 0..SeqSize - 1

LEMMA BeforeHeld ==
  ASSUME NEW part \in Part
  PROVE  \A i, j \in 1..Len(Before(part)) : Before(part)[i].msg = Before(part)[j].msg
<1>1. Len(Before(part)) = part.number /\ \A i \in 1..part.number : Before(part)[i] = [part EXCEPT !.number = i - 1]
  BY Gathers
<1>2. \A i \in 1..part.number : Before(part)[i].msg = part.msg
  BY <1>1 DEF Part
<1>3. QED
  BY <1>1, <1>2

LEMMA ReceiverKept ==
  ASSUME FragmenterInv, Coming # <<>>,
         Standalone(Coming[1]) \/ Accepted(Coming[1]) \/ Repeated(Coming[1]) \/ Skipped(Coming[1])
  PROVE  /\ ReceiverGood'
         /\ \/ DeliveredMessage' = DeliveredMessage
            \/ Finishes(Coming[1]) /\ DeliveredMessage' = Coming[1].part.msg
<1>1. PICK p : p = Coming[1]
  OBVIOUS
<1>2. /\ p \in Packet /\ p.part \in Part
      /\ p.seq # None => p.seq \in 0..SeqSize - 1 /\ ~Fits(p.part.size) /\ Remaining(p.part) > 0
      /\ p.seq = None => p.part.number = 0 /\ Fits(p.part.size)
  <2>1. Orderly(Coming) /\ 1 \in 1..Len(Coming)
    BY EmptySeq DEF FragmenterInv, Orderly
  <2>2. QED
    BY <1>1, <2>1, PacketOf DEF Orderly, WellMade
<1>3. ReceiverGood
  BY DEF FragmenterInv, TypeOK, DeliveredInv, ReceiverGood
<1>4. p.seq # None => (p.seq + 1) % SeqSize \in 0..SeqSize - 1
  BY <1>2, <1>3, Sequencing DEF ReceiverGood
<1>5. /\ Before(Follows(p.part)) \in Seq(Part)
      /\ \A i, j \in 1..Len(Before(Follows(p.part))) :
           Before(Follows(p.part))[i].msg = Before(Follows(p.part))[j].msg
      /\ <<>> \in Seq(Part) /\ \A i, j \in 1..Len(<<>>) : <<>>[i].msg = <<>>[j].msg
  <2>1. Follows(p.part) \in Part
    BY <1>2, NextFragment
  <2>2. QED
    BY <2>1, Gathers, BeforeHeld
<1>6. p.seq # None /\ IsEnd(p.part) =>
        LET all == Append(Before(p.part), p.part)
        IN all \in Seq(Part) /\ all # <<>> /\ Whole(all) /\ all[1].msg = p.part.msg
  BY <1>2, GatheredWhole, Gathers
<1>7. p.seq = None => <<p.part>> \in Seq(Part) /\ Whole(<<p.part>>) /\ <<p.part>> # <<>>
  <2>1. ASSUME p.seq = None
        PROVE  Whole(<<p.part>>)
    <3> DEFINE w == <<p.part>>
    <3>1. Len(w) = 1 /\ DOMAIN w = {1} /\ w[1] = p.part
      OBVIOUS
    <3>2. Parts(w[1].size) = 1
      BY <1>2, <2>1, <3>1 DEF Parts
    <3>3. w[1] = [w[1] EXCEPT !.number = 1 - 1]
      <4>1. 1 - 1 = 0 /\ p.part.number = 0
        BY <1>2, <2>1
      <4>2. [p.part EXCEPT !.number = 0] = p.part
        BY <1>2, <4>1 DEF Part
      <4>3. QED
        BY <3>1, <4>1, <4>2
    <3> HIDE DEF w
    <3>4. Whole(w)
      BY <3>1, <3>2, <3>3 DEF Whole
    <3>5. QED
      BY <3>4 DEF w
  <2>2. QED
    BY <1>2, <2>1
<1>8. CASE Standalone(p)
  <2>1. delivered' = <<p.part>> /\ fragments' = fragments /\ expected' = expected /\ p.seq = None
    BY <1>8 DEF Standalone
  <2>2. ReceiverGood'
    BY <1>3, <1>7, <2>1 DEF ReceiverGood, HeldInv, Whole, Parts, Fits, MaxPayload
  <2>3. DeliveredMessage' = p.part.msg /\ Finishes(p)
    BY <1>7, <2>1 DEF DeliveredMessage, Finishes
  <2>4. QED
    BY <1>1, <2>2, <2>3
<1>9. CASE Accepted(p) /\ IsEnd(p.part)
  <2>1. /\ delivered' = Append(Before(p.part), p.part) /\ fragments' = <<>>
        /\ expected' = (p.seq + 1) % SeqSize /\ p.seq # None
    BY <1>9 DEF Accepted
  <2>2. ReceiverGood'
    BY <1>4, <1>5, <1>6, <1>9, <2>1 DEF ReceiverGood, HeldInv, Whole, Parts, Fits, MaxPayload
  <2>3. DeliveredMessage' = p.part.msg /\ Finishes(p)
    BY <1>6, <1>9, <2>1 DEF DeliveredMessage, Finishes
  <2>4. QED
    BY <1>1, <2>2, <2>3
<1>10. CASE (Accepted(p) \/ Repeated(p)) /\ ~IsEnd(p.part)
  <2>1. /\ delivered' = delivered /\ fragments' = Before(Follows(p.part))
        /\ expected' = (p.seq + 1) % SeqSize /\ p.seq # None
    BY <1>10 DEF Accepted, Repeated
  <2>2. ReceiverGood' /\ DeliveredMessage' = DeliveredMessage
    BY <1>3, <1>4, <1>5, <2>1 DEF ReceiverGood, HeldInv, DeliveredMessage, Whole, Parts, Fits, MaxPayload
  <2>3. QED
    BY <2>2
<1>11. CASE Repeated(p) /\ IsEnd(p.part)
  <2>1. /\ delivered' = delivered /\ fragments' = fragments
        /\ expected' = (p.seq + 1) % SeqSize /\ p.seq # None
    BY <1>11 DEF Repeated
  <2>2. ReceiverGood' /\ DeliveredMessage' = DeliveredMessage
    BY <1>3, <1>4, <2>1 DEF ReceiverGood, HeldInv, DeliveredMessage, Whole, Parts, Fits, MaxPayload
  <2>3. QED
    BY <2>2
<1>12. CASE Skipped(p)
  <2>1. /\ delivered' = delivered /\ (fragments' = fragments \/ fragments' = <<>>)
        /\ expected' = expected
    BY <1>12 DEF Skipped
  <2>2. DeliveredMessage' = DeliveredMessage
    BY <2>1 DEF DeliveredMessage
  <2>3. (delivered' = <<>> \/ Whole(delivered')) /\ delivered' \in Seq(Part) /\ expected' \in 0..SeqSize - 1
    BY <1>3, <2>1 DEF ReceiverGood
  <2>4. CASE fragments' = fragments
    <3>1. ReceiverGood'
      BY <1>3, <2>3, <2>4 DEF ReceiverGood, HeldInv, Whole, Parts, Fits, MaxPayload
    <3>2. QED
      BY <2>2, <3>1
  <2>5. CASE fragments' = <<>>
    <3>1. ReceiverGood'
      BY <1>5, <2>3, <2>5 DEF ReceiverGood, HeldInv, Whole, Parts, Fits, MaxPayload
    <3>2. QED
      BY <2>2, <3>1
  <2>6. QED
    BY <2>1, <2>2, <2>4, <2>5
<1>13. QED
  BY <1>1, <1>8, <1>9, <1>10, <1>11, <1>12

LEMMA HeadDrops ==
  ASSUME FragmenterInv, ShortMessages, net # <<>>, net' = Tail(net), UNCHANGED sender,
         harmed' = harmed \/ harmed' = harmed \cup {Coming[1].part.msg},
         Finishes(Coming[1]) \/ Advanced(Coming[1]) \/ Missed(Coming[1]),
         ReceiverGood',
         \/ DeliveredMessage' = DeliveredMessage
         \/ Finishes(Coming[1]) /\ DeliveredMessage' = Coming[1].part.msg
  PROVE  FragmenterInv'
<1>1. TypeOK /\ Orderly(Coming)
  BY DEF FragmenterInv
<1>2. /\ net \in Seq(Packet) /\ Coming # <<>> /\ Coming \in Seq(Packet) /\ Coming' = Tail(Coming)
      /\ sending' = sending /\ sendSeq' = sendSeq /\ 1 \in 1..Len(Coming)
  <2>1. /\ net \in Seq(Packet) /\ Coming # <<>> /\ Coming \in Seq(Packet)
        /\ sending' = sending /\ sendSeq' = sendSeq
    BY <1>1, ComingShape DEF sender
  <2>2. QED
    BY <1>1, <2>1, ComingDropped, EmptySeq
<1>3. Orderly(Coming') /\ HeadInv' /\ HarmInv'
  BY <1>2, NextHead
<1>4. TypeOK'
  <2>1. net' \in Seq(Packet) /\ Len(net') <= NetSize
    BY <1>1, <1>2, HeadTailProperties, FragmenterAssumption DEF TypeOK
  <2>2. harmed' \subseteq 0..Messages - 1
    BY <1>1, <1>2, PacketOf DEF TypeOK
  <2>3. QED
    BY <1>1, <1>2, <2>1, <2>2 DEF TypeOK, ReceiverGood
<1>5. \A i \in 1..Len(Coming') : Coming'[i].part.msg # DeliveredMessage'
  <2> SUFFICES ASSUME NEW i \in 1..Len(Coming')
               PROVE  Coming'[i].part.msg # DeliveredMessage'
    OBVIOUS
  <2>1. i + 1 \in 1..Len(Coming) /\ Coming'[i] = Coming[i + 1] /\ i + 1 # 1 /\ 1 < i + 1
    BY <1>1, <1>2, Shorter
  <2>2. Coming[i + 1].part.msg # DeliveredMessage
    BY <2>1 DEF FragmenterInv, DeliveredInv
  <2>3. Finishes(Coming[1]) => Coming[1].part.msg # Coming[i + 1].part.msg
    BY <1>1, <1>2, <2>1, NothingBehind
  <2>4. QED
    BY <2>1, <2>2, <2>3
<1>6. DeliveredInv' /\ HeldInv'
  BY <1>5 DEF DeliveredInv, ReceiverGood
<1>7. (sending # None => ~Fits(sending.size) /\ Remaining(sending) > 0)'
  BY <1>2 DEF FragmenterInv, Remaining, Fits, MaxPayload
<1>8. QED
  BY <1>3, <1>4, <1>6, <1>7, Assembled

(* The packet the network delivers next, as the invariant knows it.        *)
LEMMA FirstPacket ==
  ASSUME FragmenterInv, net # <<>>
  PROVE  /\ Coming # <<>> /\ Head(net) = Coming[1] /\ net[1] = Coming[1]
         /\ 1 \in 1..Len(net) /\ 1 \in 1..Len(Coming)
         /\ Coming[1].part \in Part /\ Coming[1].part.number \in Nat
         /\ Coming[1].seq # None => Coming[1].seq \in 0..SeqSize - 1
         /\ Coming[1].again => Coming[1].seq # None /\ (Taken(Coming[1]) \/ Lagging(Coming[1]))
<1>1. TypeOK /\ Orderly(Coming) /\ HeadInv /\ expected \in 0..SeqSize - 1
  BY DEF FragmenterInv, TypeOK
<1>2. /\ Coming # <<>> /\ Head(net) = Coming[1] /\ net[1] = Coming[1]
      /\ 1 \in 1..Len(net) /\ 1 \in 1..Len(Coming)
  BY <1>1, ComingShape
<1>3. /\ Coming[1].part \in Part /\ Coming[1].part.number \in Nat
      /\ Coming[1].seq # None => Coming[1].seq \in 0..SeqSize - 1
  BY <1>1, <1>2, PacketOf DEF Orderly
<1>4. Coming[1].again => Coming[1].seq # None /\ (Taken(Coming[1]) \/ Lagging(Coming[1]))
  BY <1>1, <1>2 DEF Orderly, WellMade, HeadInv
<1>5. QED
  BY <1>2, <1>3, <1>4

LEMMA FirstNumber ==
  ASSUME FragmenterInv, net # <<>>, Coming[1].seq # None
  PROVE  /\ Ahead(Coming[1]) \in 0..SeqSize - 1
         /\ Ahead(Coming[1]) = SeqSize - 1 => expected = (Coming[1].seq + 1) % SeqSize
         /\ (Compare(Coming[1].seq, expected) < 0) <=> (Ahead(Coming[1]) >= SeqSize \div 2)
<1>1. expected \in 0..SeqSize - 1 /\ Coming[1].seq \in 0..SeqSize - 1
  BY FirstPacket DEF FragmenterInv, TypeOK
<1>2. QED
  BY <1>1, Sequencing DEF Ahead

LEMMA ReceiverUnchanged ==
  ASSUME FragmenterInv, UNCHANGED <<expected, delivered>>, fragments' = fragments \/ fragments' = <<>>
  PROVE  ReceiverGood' /\ DeliveredMessage' = DeliveredMessage
<1>1. DeliveredMessage' = DeliveredMessage
  BY DEF DeliveredMessage
<1>2. (delivered' = <<>> \/ Whole(delivered')) /\ delivered' \in Seq(Part) /\ expected' \in 0..SeqSize - 1
  BY DEF FragmenterInv, TypeOK, DeliveredInv
<1>3. <<>> \in Seq(Part) /\ \A i, j \in 1..Len(<<>>) : <<>>[i].msg = <<>>[j].msg
  OBVIOUS
<1>4. CASE fragments' = fragments
  <2>1. ReceiverGood'
    BY <1>2, <1>4 DEF FragmenterInv, TypeOK, ReceiverGood, HeldInv, Whole, Parts, Fits, MaxPayload
  <2>2. QED
    BY <1>1, <2>1
<1>5. CASE fragments' = <<>>
  <2>1. ReceiverGood'
    BY <1>2, <1>3, <1>5 DEF ReceiverGood, HeldInv, Whole, Parts, Fits, MaxPayload
  <2>2. QED
    BY <1>1, <2>1
<1>6. QED
  BY <1>4, <1>5

LEMMA ReceivesFirst ==
  ASSUME FragmenterInv, InOrder, Receive
  PROVE  net # <<>> /\ ReceiveFragment(Coming[1], ~Padded(Coming[1].part)) /\ net' = Tail(net)
<1>1. PICK i \in Heads : ReceiveFragment(net[i], ~Padded(net[i].part)) /\ net' = RemoveAt(net, i)
  BY DEF Receive
<1>2. i = 1 /\ 1 \in DOMAIN net
  BY <1>1 DEF Heads, InOrder
<1>3. net \in Seq(Packet) /\ net # <<>>
  BY <1>2 DEF FragmenterInv, TypeOK
<1>4. RemoveAt(net, 1) = Tail(net)
  <2>1. SubSeq(net, 1, 1 - 1) = <<>>
    OBVIOUS
  <2>2. SubSeq(net, 1 + 1, Len(net)) = Tail(net)
    BY <1>3, TailIsSubSeq
  <2>3. Tail(net) \in Seq(Packet)
    BY <1>3, HeadTailProperties
  <2>4. <<>> \o Tail(net) = Tail(net)
    BY <2>3
  <2>5. QED
    BY <2>1, <2>2, <2>4 DEF RemoveAt
<1>5. QED
  BY <1>1, <1>2, <1>3, <1>4, FirstPacket

(* Only the last fragment of a message is padded.                          *)
LEMMA PaddedEnds ==
  ASSUME NEW part \in Part, Padded(part)
  PROVE  IsEnd(part)
<1>1. Remaining(part) \in Int
  BY NextFragment
<1>2. Header + Remaining(part) < MTU
  BY <1>1, PaddingAssumption, FragmenterAssumption DEF Padded
<1>3. QED
  BY <1>1, <1>2, FragmenterAssumption DEF IsEnd, MaxPayload

(* A packet comes as it was sent, or it is the padded end of a message and *)
(* nothing is gathered.                                                    *)
PaddedDropped ==
  /\ Finishes(Coming[1])
  /\ UNCHANGED <<expected, delivered>>
  /\ fragments' = fragments \/ fragments' = <<>>

LEMMA ReceivesPadded ==
  ASSUME FragmenterInv, InOrder, Receive
  PROVE  ReceiveFragment(Coming[1], TRUE) \/ PaddedDropped
<1>1. net # <<>> /\ ReceiveFragment(Coming[1], ~Padded(Coming[1].part))
  BY ReceivesFirst
<1>2. Coming[1].part \in Part
  BY <1>1, FirstPacket
<1>3. CASE Coming[1].seq = None
  BY <1>1, <1>3 DEF ReceiveFragment
<1>4. CASE ~Padded(Coming[1].part)
  BY <1>1, <1>4
<1>5. CASE Coming[1].seq # None /\ Padded(Coming[1].part)
  <2>1. ReceiveFragment(Coming[1], FALSE)
    BY <1>1, <1>5
  <2>2. UNCHANGED receiver \/ (ClearFragmenterData /\ UNCHANGED expected)
    BY <1>5, <2>1 DEF ReceiveFragment
  <2>3. QED
    BY <1>2, <1>5, <2>2, PaddedEnds DEF PaddedDropped, Finishes, receiver, ClearFragmenterData
<1>6. QED
  BY <1>3, <1>4, <1>5

LEMMA ReceiveKeeps ==
  ASSUME FragmenterInv, ShortMessages, InOrder, Receive
  PROVE  FragmenterInv'
<1>1. net # <<>> /\ net' = Tail(net) /\ Coming # <<>>
  BY ReceivesFirst, FirstPacket
<1>2. UNCHANGED sender /\ harmed' = harmed
  BY DEF Receive
<1>7. CASE PaddedDropped
  <2>1. ReceiverGood' /\ DeliveredMessage' = DeliveredMessage
    BY <1>7, ReceiverUnchanged DEF PaddedDropped
  <2>2. QED
    BY <1>1, <1>2, <1>7, <2>1, HeadDrops DEF PaddedDropped
<1> SUFFICES ASSUME ReceiveFragment(Coming[1], TRUE)
             PROVE  FragmenterInv'
  BY <1>7, ReceivesPadded
<1>3. Standalone(Coming[1]) \/ Accepted(Coming[1]) \/ Repeated(Coming[1]) \/ Skipped(Coming[1])
  BY <1>1, Received
<1>4. /\ ReceiverGood'
      /\ \/ DeliveredMessage' = DeliveredMessage
         \/ Finishes(Coming[1]) /\ DeliveredMessage' = Coming[1].part.msg
  BY <1>1, <1>3, ReceiverKept
<1>5. Finishes(Coming[1]) \/ Advanced(Coming[1]) \/ Missed(Coming[1])
  <2>1. Standalone(Coming[1]) => Finishes(Coming[1])
    BY DEF Standalone, Finishes
  <2>2. Accepted(Coming[1]) \/ Repeated(Coming[1]) => Finishes(Coming[1]) \/ Advanced(Coming[1])
    BY <1>2 DEF Accepted, Repeated, Finishes, Advanced
  <2>3. Skipped(Coming[1]) => Missed(Coming[1])
    BY <1>2 DEF Skipped, Missed, Lagging, Continues
  <2>4. QED
    BY <1>3, <2>1, <2>2, <2>3
<1>6. QED
  BY <1>1, <1>2, <1>4, <1>5, HeadDrops

LEMMA GapIsSmall ==
  /\ MaxGap \in Nat /\ SeqSize \in Nat /\ MaxGap <= SeqSize \div 2
  /\ SeqSize \div 2 <= SeqSize - 1 /\ SeqSize \div 2 \in Nat
BY FragmenterAssumption

LEMMA LoseKeeps ==
  ASSUME FragmenterInv, ShortMessages, Lose
  PROVE  FragmenterInv'
<1>1. /\ net # <<>> /\ net' = Tail(net) /\ UNCHANGED sender
      /\ UNCHANGED <<expected, delivered>> /\ fragments' = fragments
  BY DEF Lose, receiver
<1>2. Head(net) = Coming[1] /\ Coming # <<>> /\ Coming[1].part.number \in Nat
  BY <1>1, FirstPacket
<1>3. /\ Coming[1].seq # None /\ ~Coming[1].again => Ahead(Coming[1]) < MaxGap
      /\ harmed' = IF Coming[1].again THEN harmed ELSE harmed \cup {Coming[1].part.msg}
  BY <1>2 DEF Lose, MayFail, Ahead, Harmed
<1>4. Finishes(Coming[1]) \/ Advanced(Coming[1]) \/ Missed(Coming[1])
  <2>1. CASE Coming[1].seq = None
    BY <2>1 DEF Finishes
  <2>2. CASE Coming[1].seq # None /\ ~Coming[1].again
    <3>1. Ahead(Coming[1]) \in 0..SeqSize - 1 /\ Ahead(Coming[1]) < MaxGap + Coming[1].part.number
      BY <1>1, <1>2, <1>3, <2>2, FirstNumber, GapIsSmall
    <3>2. QED
      BY <1>1, <1>3, <2>2, <3>1 DEF Missed
  <2>3. CASE Coming[1].again /\ Taken(Coming[1])
    <3>1. Coming[1].seq # None /\ Ahead(Coming[1]) = SeqSize - 1
      BY <1>1, <2>3, FirstPacket DEF Taken
    <3>2. expected = (Coming[1].seq + 1) % SeqSize
      BY <1>1, <3>1, FirstNumber
    <3>3. QED
      BY <1>1, <1>3, <2>3, <3>1, <3>2 DEF Taken, Finishes, Advanced
  <2>4. CASE Coming[1].again /\ Lagging(Coming[1])
    BY <1>1, <1>3, <2>4 DEF Lagging, Missed, Continues
  <2>5. QED
    BY <1>1, <2>1, <2>2, <2>3, <2>4, FirstPacket
<1>5. ReceiverGood' /\ DeliveredMessage' = DeliveredMessage
  BY <1>1, ReceiverUnchanged
<1>6. QED
  BY <1>1, <1>3, <1>4, <1>5, HeadDrops

LEMMA CutClears ==
  ASSUME FragmenterInv, net # <<>>, Coming[1].seq # None, Ahead(Coming[1]) < MaxGap,
         ReceiveFragment(Coming[1], FALSE)
  PROVE  ClearFragmenterData /\ UNCHANGED expected
<1>1. ~(Compare(Coming[1].seq, expected) < 0)
  <2>1. Ahead(Coming[1]) \in 0..SeqSize - 1
    BY FirstNumber
  <2>2. ~(Ahead(Coming[1]) >= SeqSize \div 2)
    BY <2>1, GapIsSmall
  <2>3. QED
    BY <2>2, FirstNumber
<1>2. QED
  BY <1>1 DEF ReceiveFragment

LEMMA CutKeeps ==
  ASSUME FragmenterInv, ShortMessages, ReceiveCut
  PROVE  FragmenterInv'
<1>1. net # <<>> /\ net' = Tail(net) /\ UNCHANGED sender
  BY DEF ReceiveCut
<1>2. Head(net) = Coming[1] /\ Coming # <<>> /\ Coming[1].part.number \in Nat
  BY <1>1, FirstPacket
<1>3. /\ Coming[1].seq # None /\ Ahead(Coming[1]) < MaxGap
      /\ harmed' = IF Coming[1].again THEN harmed ELSE harmed \cup {Coming[1].part.msg}
      /\ ReceiveFragment(Coming[1], FALSE)
  BY <1>2 DEF ReceiveCut, MayFail, Ahead, Harmed
<1>4. expected' = expected /\ delivered' = delivered /\ fragments' = <<>>
  BY <1>1, <1>3, CutClears DEF ClearFragmenterData
<1>5. Missed(Coming[1])
  <2>1. Ahead(Coming[1]) \in 0..SeqSize - 1 /\ Ahead(Coming[1]) < MaxGap + Coming[1].part.number
    BY <1>1, <1>2, <1>3, FirstNumber, GapIsSmall
  <2>2. Coming[1].again => Lagging(Coming[1])
    <3>1. ~Taken(Coming[1])
      BY <1>3, <2>1, GapIsSmall DEF Taken
    <3>2. QED
      BY <1>1, <3>1, FirstPacket
  <2>3. QED
    BY <1>3, <1>4, <2>1, <2>2 DEF Missed, Lagging
<1>6. ReceiverGood' /\ DeliveredMessage' = DeliveredMessage
  BY <1>4, ReceiverUnchanged
<1>7. QED
  BY <1>1, <1>3, <1>5, <1>6, HeadDrops

(* A fragment is delivered and stays to be delivered again.                *)
LEMMA QueueMarked ==
  ASSUME NEW n \in Seq(Packet), NEW s \in Part \cup {None}, NEW k \in 0..SeqSize - 1,
         NEW m \in Seq(Packet), Len(m) = Len(n), \A i \in 1..Len(n) : i # 1 => m[i] = n[i]
  PROVE  /\ Queue(m, s, k) \in Seq(Packet) /\ Len(Queue(m, s, k)) = Len(Queue(n, s, k))
         /\ 1 \in 1..Len(n) => Queue(m, s, k)[1] = m[1]
         /\ \A i \in 1..Len(Queue(n, s, k)) : i # 1 \/ n = <<>> => Queue(m, s, k)[i] = Queue(n, s, k)[i]
<1>1. Len(n) \in Nat
  OBVIOUS
<1> DEFINE a == Queue(n, s, k)
           b == Queue(m, s, k)
<1>2. /\ Len(a) = IF s = None THEN Len(n) ELSE Len(n) + 1
      /\ \A i \in 1..Len(n) : i \in 1..Len(a) /\ a[i] = n[i]
      /\ s # None => a[Len(n) + 1] = Made(s, k)
  BY QueueShape
<1>3. /\ b \in Seq(Packet)
      /\ Len(b) = IF s = None THEN Len(m) ELSE Len(m) + 1
      /\ \A i \in 1..Len(m) : i \in 1..Len(b) /\ b[i] = m[i]
      /\ s # None => b[Len(m) + 1] = Made(s, k)
  <2>1. b \in Seq(Packet) /\ Len(b) = IF s = None THEN Len(m) ELSE Len(m) + 1
    BY QueueShape
  <2>2. \A i \in 1..Len(m) : i \in 1..Len(b) /\ b[i] = m[i]
    BY QueueShape
  <2>3. s # None => b[Len(m) + 1] = Made(s, k)
    BY QueueShape
  <2>4. QED
    BY <2>1, <2>2, <2>3
<1> HIDE DEF a, b
<1>4. \A i \in 1..Len(a) : i \in 1..Len(n) \/ (s # None /\ i = Len(n) + 1)
  BY <1>1, <1>2
<1>5. n = <<>> => \A i \in 1..Len(n) : FALSE
  OBVIOUS
<1>6. QED
  BY <1>1, <1>2, <1>3, <1>4, <1>5 DEF a, b

LEMMA ComingMarked ==
  ASSUME TypeOK, net # <<>>, net' = [net EXCEPT ![1].again = TRUE], UNCHANGED sender
  PROVE  /\ net' \in Seq(Packet) /\ Len(net') = Len(net)
         /\ Coming' \in Seq(Packet) /\ Len(Coming') = Len(Coming)
         /\ Coming'[1] = [Coming[1] EXCEPT !.again = TRUE]
         /\ \A i \in 1..Len(Coming) : i # 1 => Coming'[i] = Coming[i]
<1>1. net \in Seq(Packet) /\ sending \in Part \cup {None} /\ sendSeq \in 0..SeqSize - 1
      /\ sending' = sending /\ sendSeq' = sendSeq /\ net[1] = Coming[1] /\ 1 \in 1..Len(net)
  BY ComingShape DEF TypeOK, sender
<1>2. Coming = Queue(net, sending, sendSeq) /\ Coming' = Queue(net', sending, sendSeq)
  BY <1>1, ComingIsQueue
<1> DEFINE p == [net[1] EXCEPT !.again = TRUE]
<1>3. p \in Packet
  <2>1. net[1] \in Packet
    BY <1>1, ElementOfSeq
  <2>2. QED
    BY <2>1 DEF Packet
<1>4. net' = [net EXCEPT ![1] = p]
  OBVIOUS
<1> HIDE DEF p
<1>5. PICK n, m : n = net /\ m = net'
  OBVIOUS
<1>6. n \in Seq(Packet) /\ 1 \in 1..Len(n) /\ n # <<>>
  BY <1>1, <1>5
<1>7. /\ m \in Seq(Packet) /\ Len(m) = Len(n) /\ m[1] = p
      /\ \A i \in 1..Len(n) : i # 1 => m[i] = n[i]
  <2>1. m = [n EXCEPT ![1] = p]
    BY <1>4, <1>5
  <2>2. QED
    BY <1>3, <1>6, <2>1, ExceptSeq
<1>8. /\ Queue(m, sending, sendSeq) \in Seq(Packet)
      /\ Len(Queue(m, sending, sendSeq)) = Len(Queue(n, sending, sendSeq))
      /\ Queue(m, sending, sendSeq)[1] = p
      /\ \A i \in 1..Len(Queue(n, sending, sendSeq)) :
           i # 1 => Queue(m, sending, sendSeq)[i] = Queue(n, sending, sendSeq)[i]
  <2>1. \A i \in 1..Len(n) : i # 1 => m[i] = n[i]
    BY <1>7
  <2>2. PICK s \in Part \cup {None}, k \in 0..SeqSize - 1 : s = sending /\ k = sendSeq
    BY <1>1
  <2>3. /\ Queue(m, s, k) \in Seq(Packet) /\ Len(Queue(m, s, k)) = Len(Queue(n, s, k))
        /\ 1 \in 1..Len(n) => Queue(m, s, k)[1] = m[1]
        /\ \A i \in 1..Len(Queue(n, s, k)) : i # 1 \/ n = <<>> => Queue(m, s, k)[i] = Queue(n, s, k)[i]
    BY <1>6, <1>7, <2>1, QueueMarked
  <2>4. QED
    BY <1>6, <1>7, <2>2, <2>3
<1>9. QED
  BY <1>1, <1>2, <1>5, <1>7, <1>8 DEF p

LEMMA TwiceKeeps ==
  ASSUME FragmenterInv, ReceiveTwice
  PROVE  FragmenterInv'
<1>1. /\ net # <<>> /\ Head(net).seq # None /\ ~Head(net).again /\ ReceiveFragment(Head(net), TRUE)
      /\ net' = [net EXCEPT ![1].again = TRUE] /\ UNCHANGED sender /\ harmed' = harmed
  BY DEF ReceiveTwice
<1>2. PICK q, r : q = Coming /\ r = Coming'
  OBVIOUS
<1> DEFINE p == q[1]
<1>3. /\ Coming # <<>> /\ p.part \in Part /\ p.seq # None /\ ~p.again /\ p.seq \in 0..SeqSize - 1
      /\ 1 \in 1..Len(q) /\ ReceiveFragment(p, TRUE) /\ Orderly(q) /\ q \in Seq(Packet) /\ p = Coming[1]
      /\ net[1] = p
  BY <1>1, <1>2, FirstPacket DEF FragmenterInv, Orderly
<1>4. /\ net' \in Seq(Packet) /\ Len(net') = Len(net)
      /\ r \in Seq(Packet) /\ Len(r) = Len(q) /\ r # <<>>
      /\ r[1] = [p EXCEPT !.again = TRUE]
      /\ \A i \in 1..Len(q) : i # 1 => r[i] = q[i]
  <2>1. r # <<>>
    BY <1>1, <1>2, <1>3, ComingMarked DEF FragmenterInv
  <2>2. QED
    BY <1>1, <1>2, <1>3, <2>1, ComingMarked DEF FragmenterInv
<1>5. r[1].part = p.part /\ r[1].seq = p.seq /\ r[1].again
  <2>1. p \in Packet
    BY <1>3, ElementOfSeq
  <2>2. QED
    BY <1>4, <2>1 DEF Packet
<1> HIDE DEF p
<1>6. \A i \in 1..Len(q) : r[i].part = q[i].part /\ r[i].seq = q[i].seq
  BY <1>4, <1>5 DEF p
<1>7. Orderly(r)
  <2>1. \A i \in 1..Len(q) : i # 1 => ~r[i].again
    BY <1>3, <1>4 DEF Orderly, WellMade
  <2>2. QED
    BY <1>3, <1>4, <1>6, <2>1, PartOf DEF p
<1>8. Accepted(p) \/ Skipped(p)
  BY <1>3, Received DEF Standalone, Repeated
<1>9. /\ ReceiverGood'
      /\ \/ DeliveredMessage' = DeliveredMessage
         \/ Finishes(p) /\ DeliveredMessage' = p.part.msg
  BY <1>3, <1>8, ReceiverKept
<1>10. ASSUME Accepted(p)
       PROVE  Taken(r[1])' /\ ~Lagging(p) /\ (IsEnd(p.part) => DeliveredMessage' = p.part.msg)
  <2>1. (p.seq - ((p.seq + 1) % SeqSize)) % SeqSize = SeqSize - 1
    BY <1>3, Sequencing
  <2>2. Ahead(r[1])' = SeqSize - 1
    BY <1>5, <1>10, <2>1 DEF Ahead, Accepted
  <2>3. ASSUME IsEnd(p.part)
        PROVE  DeliveredMessage' = p.part.msg
    <3>1. delivered' = Append(Before(p.part), p.part)
      BY <1>10, <2>3 DEF Accepted
    <3>2. ~Fits(p.part.size) /\ Remaining(p.part) > 0
      BY <1>3 DEF Orderly, WellMade, p
    <3>3. delivered' # <<>> /\ delivered'[1].msg = p.part.msg
      BY <1>3, <2>3, <3>1, <3>2, GatheredWhole
    <3>4. QED
      BY <3>3 DEF DeliveredMessage
  <2>4. ASSUME ~IsEnd(p.part)
        PROVE  fragments' = Before(Follows(p.part))
    BY <1>10, <2>4 DEF Accepted
  <2>5. ~Lagging(p)
    <3>1. IsBegin(p.part) \/ Ahead(p) = 0
      BY <1>10 DEF Accepted
    <3>2. QED
      BY <3>1 DEF Lagging, Continues
  <2>6. Taken(r[1])'
    BY <1>5, <2>2, <2>3, <2>4 DEF Taken, IsEnd, Remaining, MaxPayload, Before, Follows
  <2>7. QED
    BY <2>3, <2>5, <2>6
<1>11. ASSUME Skipped(p)
       PROVE  Lagging(r[1])' /\ DeliveredMessage' = DeliveredMessage
  BY <1>1, <1>5, <1>11 DEF Skipped, Lagging, Continues, Ahead, IsBegin, DeliveredMessage
<1>12. HeadInv'
  <2>1. HeadInv' = (r # <<>> =>
           /\ Continues(r[1]) /\ ~r[1].again => Wanted(r[1])' \/ Lagging(r[1])'
           /\ r[1].again => Taken(r[1])' \/ Lagging(r[1])')
    BY <1>2 DEF HeadInv, Continues, Wanted, Lagging, Taken, Ahead, Before, DeliveredMessage, IsBegin, IsEnd, Remaining, Follows
  <2>2. QED
    BY <1>5, <1>8, <1>10, <1>11, <2>1
<1>13. HarmInv'
  <2> SUFFICES ASSUME NEW i \in 1..Len(r), Finishes(r[i]) \/ (i = Len(r) /\ sending # None),
                      r[i].part.msg \in harmed
               PROVE  r[1].part.msg = r[i].part.msg /\ Lagging(r[1])'
    BY <1>1, <1>2 DEF HarmInv, Closes, Finishes, Lagging, Continues, Ahead, IsBegin, IsEnd, Remaining, sender
  <2>1. i \in 1..Len(q) /\ q[i].part = r[i].part /\ q[i].seq = r[i].seq
    BY <1>4, <1>6
  <2>2. Finishes(q[i]) \/ (i = Len(q) /\ sending # None)
    BY <1>4, <2>1 DEF Finishes
  <2>3. p.part.msg = q[i].part.msg /\ Lagging(p)
    BY <1>2, <2>1, <2>2 DEF FragmenterInv, HarmInv, Closes, p
  <2>4. QED
    BY <1>5, <1>8, <1>10, <1>11, <2>1, <2>3
<1>14. DeliveredInv'
  <2> SUFFICES ASSUME NEW i \in 1..Len(r), r[i].part.msg = DeliveredMessage'
               PROVE  i = 1 /\ r[1].again /\ IsEnd(r[1].part) /\ Taken(r[1])'
    <3>1. DeliveredInv' = (/\ delivered' = <<>> \/ Whole(delivered')
                           /\ \A i \in 1..Len(r) : r[i].part.msg = DeliveredMessage' =>
                                i = 1 /\ r[1].again /\ IsEnd(r[1].part) /\ Taken(r[1])')
      BY <1>2 DEF DeliveredInv, Whole, Parts, Fits, MaxPayload, IsEnd, Remaining, Taken, Ahead, DeliveredMessage, Before, Follows
    <3>2. delivered' = <<>> \/ Whole(delivered')
      BY <1>9 DEF ReceiverGood
    <3>3. QED
      BY <3>1, <3>2
  <2>1. i \in 1..Len(q) /\ q[i].part = r[i].part
    BY <1>4, <1>6
  <2>2. q[i].part.msg # DeliveredMessage
    BY <1>2, <1>3, <2>1 DEF FragmenterInv, DeliveredInv, p
  <2>3. Finishes(p) /\ DeliveredMessage' = p.part.msg /\ Accepted(p)
    BY <1>8, <1>9, <1>11, <2>1, <2>2
  <2>4. IsEnd(p.part)
    BY <1>3, <2>3 DEF Finishes
  <2>5. i = 1
    <3>1. ~(1 < i)
      BY <1>3, <2>1, <2>3, NothingBehind DEF p
    <3>2. QED
      BY <3>1
  <2>6. QED
    BY <1>5, <1>10, <2>3, <2>4, <2>5
<1>15. TypeOK'
  BY <1>1, <1>4, <1>9 DEF FragmenterInv, TypeOK, ReceiverGood, sender
<1>16. (sending # None => ~Fits(sending.size) /\ Remaining(sending) > 0)'
  BY <1>1 DEF FragmenterInv, Remaining, Fits, MaxPayload, sender
<1>17. Orderly(Coming') /\ HeldInv'
  BY <1>2, <1>7, <1>9 DEF ReceiverGood
<1>18. QED
  BY <1>12, <1>13, <1>14, <1>15, <1>16, <1>17, Assembled

(***************************************************************************)
(* A new message                                                           *)
(***************************************************************************)
LEMMA LeastFree ==
  ASSUME NEW n \in Nat, NEW used, IsFiniteSet(used), Cardinality(used) < n
  PROVE  \E m \in 0..n - 1 : m \notin used /\ \A j \in 0..m - 1 : j \in used
<1> DEFINE free == (0..n - 1) \ used
<1>1. IsFiniteSet(0..n - 1) /\ Cardinality(0..n - 1) = n
  <2>1. 0 \in Int /\ n - 1 \in Int
    OBVIOUS
  <2>2. IsFiniteSet(0..n - 1) /\ Cardinality(0..n - 1) = IF 0 > n - 1 THEN 0 ELSE (n - 1) - 0 + 1
    BY <2>1, FS_Interval
  <2>3. QED
    BY <2>2
<1>2. free # {}
  <2> SUFFICES ASSUME 0..n - 1 \subseteq used
               PROVE  FALSE
    OBVIOUS
  <2>1. 0..n - 1 \in SUBSET used
    OBVIOUS
  <2>2. n <= Cardinality(used) /\ Cardinality(used) \in Nat
    BY <1>1, <2>1, FS_Subset, FS_CardinalityType
  <2>3. QED
    BY <2>2
<1>3. free \subseteq Nat
  OBVIOUS
<1> HIDE DEF free
<1>4. PICK m \in free : \A j \in free : ~(<<j, m>> \in OpToRel(<, Nat))
  BY <1>2, <1>3, NatLessThanWellFounded, WFMin
<1>5. \A j \in free : ~(j < m)
  BY <1>3, <1>4 DEF OpToRel
<1>6. m \in 0..n - 1 /\ m \notin used
  BY <1>4 DEF free
<1>7. \A j \in 0..m - 1 : j \in used
  BY <1>5, <1>6 DEF free
<1>8. QED
  BY <1>6, <1>7

LEMMA MessageIsNew ==
  ASSUME FragmenterInv, sending = None
  PROVE  NewMessage \in 0..Messages - 1 /\ NewMessage \notin InFlight /\ NewMessage # DeliveredMessage
<1> DEFINE used == InFlight \cup {DeliveredMessage}
           g == [i \in 1..NetSize + 2 |->
                   IF i <= Len(net) THEN net[i].part.msg
                   ELSE IF i = NetSize + 1 THEN fragments[1].msg ELSE DeliveredMessage]
<1>1. /\ NetSize \in Nat /\ Messages \in Nat /\ NetSize + 2 \in Nat /\ NetSize + 2 < Messages
      /\ net \in Seq(Packet) /\ fragments \in Seq(Part)
      /\ Len(net) \in Nat /\ Len(net) <= NetSize /\ Len(fragments) \in Nat
  BY FragmenterAssumption DEF FragmenterInv, TypeOK
<1>2. \A m \in used : \E i \in 1..NetSize + 2 : g[i] = m
  <2> SUFFICES ASSUME NEW m \in used
               PROVE  \E i \in 1..NetSize + 2 : g[i] = m
    OBVIOUS
  <2>1. CASE m = DeliveredMessage
    <3>1. NetSize + 2 \in 1..NetSize + 2 /\ ~(NetSize + 2 <= Len(net)) /\ NetSize + 2 # NetSize + 1
      BY <1>1
    <3>2. QED
      BY <2>1, <3>1
  <2>2. CASE m \in {p.part.msg : p \in ToSet(net)}
    <3>1. PICK i \in 1..Len(net) : net[i].part.msg = m
      BY <1>1, <2>2 DEF ToSet
    <3>2. i \in 1..NetSize + 2 /\ i <= Len(net)
      BY <1>1
    <3>3. QED
      BY <3>1, <3>2
  <2>3. CASE m \in {f.msg : f \in ToSet(fragments)}
    <3>1. PICK i \in 1..Len(fragments) : fragments[i].msg = m
      BY <1>1, <2>3 DEF ToSet
    <3>2. 1 \in 1..Len(fragments)
      BY <1>1
    <3>3. fragments[1].msg = m
      BY <3>1, <3>2 DEF FragmenterInv, HeldInv
    <3>4. NetSize + 1 \in 1..NetSize + 2 /\ ~(NetSize + 1 <= Len(net))
      BY <1>1
    <3>5. QED
      BY <3>3, <3>4
  <2>4. QED
    BY <2>1, <2>2, <2>3 DEF InFlight
<1> HIDE DEF used, g
<1>3. IsFiniteSet(used) /\ Cardinality(used) < Messages
  <2> DEFINE T == {g[i] : i \in 1..NetSize + 2}
  <2>1. g \in Surjection(1..NetSize + 2, T)
    BY DEF Surjection, g
  <2>2. IsFiniteSet(1..NetSize + 2) /\ Cardinality(1..NetSize + 2) = NetSize + 2
    <3>1. 1 \in Int /\ NetSize + 2 \in Int
      BY <1>1
    <3>2. /\ IsFiniteSet(1..NetSize + 2)
          /\ Cardinality(1..NetSize + 2) = IF 1 > NetSize + 2 THEN 0 ELSE (NetSize + 2) - 1 + 1
      BY <3>1, FS_Interval
    <3>3. QED
      BY <1>1, <3>2
  <2>3. used \in SUBSET T
    BY <1>2
  <2> HIDE DEF T
  <2>4. IsFiniteSet(T) /\ Cardinality(T) <= NetSize + 2 /\ Cardinality(T) \in Nat
    BY <2>1, <2>2, FS_Surjection, FS_CardinalityType
  <2>5. IsFiniteSet(used) /\ Cardinality(used) <= Cardinality(T) /\ Cardinality(used) \in Nat
    BY <2>3, <2>4, FS_Subset, FS_CardinalityType
  <2>6. QED
    BY <1>1, <2>4, <2>5
<1>4. \E m \in 0..Messages - 1 : m \notin used /\ \A j \in 0..m - 1 : j \in used
  BY <1>1, <1>3, LeastFree
<1>5. NewMessage = CHOOSE m \in 0..Messages - 1 : m \notin used /\ \A k \in 0..m - 1 : k \in used
  BY DEF NewMessage, used
<1>6. NewMessage \in 0..Messages - 1 /\ NewMessage \notin used
  BY <1>4, <1>5
<1>7. QED
  BY <1>6 DEF used

(***************************************************************************)
(* Sending                                                                 *)
(***************************************************************************)

(* What changes behind the first packet.                                   *)
LEMMA BehindKeeps ==
  ASSUME FragmenterInv, UNCHANGED receiver, NEW q, NEW r, q = Coming, r = Coming',
         sending' = None \/ (~Fits(sending'.size) /\ Remaining(sending') > 0),
         TypeOK', Orderly(r),
         r # <<>> => 1 \in 1..Len(r),
         r # <<>> => IF q = <<>> THEN ~Continues(r[1]) /\ ~r[1].again
                     ELSE r[1] = q[1] /\ (q[1].part.msg \in harmed => q[1].part.msg \in harmed'),
         \A i \in 1..Len(r) :
           /\ (Finishes(r[i]) \/ (i = Len(r) /\ sending' # None)) /\ r[i].part.msg \in harmed'
                => q # <<>> /\ q[1].part.msg = r[i].part.msg /\ Lagging(q[1])
           /\ r[i].part.msg = DeliveredMessage => i \in 1..Len(q) /\ q[i].part.msg = DeliveredMessage
  PROVE  FragmenterInv'
<1>1. expected' = expected /\ fragments' = fragments /\ delivered' = delivered
  BY DEF receiver
<1>2. HeadInv'
  <2>1. HeadInv' = (r # <<>> =>
           /\ Continues(r[1]) /\ ~r[1].again => Wanted(r[1])' \/ Lagging(r[1])'
           /\ r[1].again => Taken(r[1])' \/ Lagging(r[1])')
    BY DEF HeadInv, Continues, Wanted, Lagging, Taken, Ahead, Before, DeliveredMessage, IsBegin, IsEnd, Remaining, Follows
  <2>2. CASE q = <<>>
    BY <2>1, <2>2
  <2>3. ASSUME q # <<>>, r # <<>>
        PROVE  /\ Wanted(q[1]) => Wanted(r[1])'
               /\ Taken(q[1]) => Taken(r[1])'
               /\ Lagging(q[1]) => Lagging(r[1])'
    <3>1. r[1] = q[1] /\ (q[1].part.msg \in harmed => q[1].part.msg \in harmed')
      BY <2>3
    <3>2. Wanted(q[1]) => Wanted(r[1])'
      BY <1>1, <3>1 DEF Wanted, Ahead, Before
    <3>3. Taken(q[1]) => Taken(r[1])'
      BY <1>1, <3>1 DEF Taken, Ahead, Before, Follows, DeliveredMessage, IsEnd, Remaining, MaxPayload
    <3>4. Lagging(q[1]) => Lagging(r[1])'
      BY <1>1, <3>1 DEF Lagging, Ahead, Continues, IsBegin
    <3>5. QED
      BY <3>2, <3>3, <3>4
  <2>4. CASE q # <<>>
    BY <2>1, <2>3, <2>4 DEF FragmenterInv, HeadInv, Continues
  <2>5. QED
    BY <2>2, <2>4
<1>3. HarmInv'
  <2> SUFFICES ASSUME NEW i \in 1..Len(r), Finishes(r[i]) \/ (i = Len(r) /\ sending' # None),
                      r[i].part.msg \in harmed'
               PROVE  r[1].part.msg = r[i].part.msg /\ Lagging(r[1])'
    BY DEF HarmInv, Closes, Finishes, Lagging, Continues, Ahead, IsBegin, IsEnd, Remaining
  <2>1. q # <<>> /\ q[1].part.msg = r[i].part.msg /\ Lagging(q[1])
    OBVIOUS
  <2>2. r[1] = q[1]
    BY <2>1, EmptySeq
  <2>3. QED
    BY <1>1, <2>1, <2>2 DEF Lagging, Ahead, Continues, IsBegin
<1>4. DeliveredInv'
  <2>1. DeliveredInv' = (/\ delivered' = <<>> \/ Whole(delivered')
                         /\ \A i \in 1..Len(r) : r[i].part.msg = DeliveredMessage' =>
                              i = 1 /\ r[1].again /\ IsEnd(r[1].part) /\ Taken(r[1])')
    BY DEF DeliveredInv, Whole, Parts, Fits, MaxPayload, IsEnd, Remaining, Taken, Ahead, DeliveredMessage, Before, Follows
  <2>2. delivered' = <<>> \/ Whole(delivered')
    BY <1>1 DEF FragmenterInv, DeliveredInv
  <2>3. DeliveredMessage' = DeliveredMessage
    BY <1>1 DEF DeliveredMessage
  <2>4. ASSUME NEW i \in 1..Len(r), r[i].part.msg = DeliveredMessage
        PROVE  i = 1 /\ r[1].again /\ IsEnd(r[1].part) /\ Taken(r[1])'
    <3>1. i = 1 /\ q[1].again /\ IsEnd(q[1].part) /\ Taken(q[1]) /\ 1 \in 1..Len(q)
      BY <2>4 DEF FragmenterInv, DeliveredInv
    <3>2. q # <<>> /\ r # <<>>
      <4>1. 1 \in 1..Len(r)
        BY <3>1
      <4>2. QED
        BY <3>1, <4>1
    <3>3. r[1] = q[1]
      BY <3>2
    <3>4. Taken(r[1])'
      BY <1>1, <3>1, <3>3 DEF Taken, Ahead, Before, Follows, DeliveredMessage, IsEnd, Remaining
    <3>5. QED
      BY <3>1, <3>3, <3>4
  <2>5. QED
    BY <2>1, <2>2, <2>3, <2>4
<1>5. HeldInv'
  BY <1>1 DEF FragmenterInv, HeldInv
<1>6. (sending # None => ~Fits(sending.size) /\ Remaining(sending) > 0)'
  BY DEF Remaining, Fits, MaxPayload
<1>7. QED
  BY <1>2, <1>3, <1>4, <1>5, <1>6, Assembled

LEMMA OnTheWay ==
  ASSUME TypeOK
  PROVE  \A i \in 1..Len(Coming) : Coming[i].part.msg \in InFlight
<1> SUFFICES ASSUME NEW i \in 1..Len(Coming)
             PROVE  Coming[i].part.msg \in InFlight
  OBVIOUS
<1>1. CASE i \in 1..Len(net)
  <2>1. net[i] \in ToSet(net) /\ Coming[i] = net[i]
    BY <1>1, ComingShape DEF ToSet
  <2>2. QED
    BY <2>1 DEF InFlight
<1>2. CASE ~(i \in 1..Len(net))
  <2>1. Len(net) \in Nat /\ Len(Coming) \in Nat
        /\ Len(Coming) = IF sending = None THEN Len(net) ELSE Len(net) + 1
    BY ComingShape
  <2>2. sending # None /\ i = Len(Coming)
    BY <1>2, <2>1
  <2>3. Coming[i].part = sending
    BY <2>2, ComingShape DEF Made
  <2>4. QED
    BY <2>2, <2>3 DEF InFlight
<1>3. QED
  BY <1>1, <1>2

LEMMA BeginsWhole ==
  ASSUME NEW part \in Part, part.number = 0
  PROVE  Remaining(part) > 0 /\ IsBegin(part)
<1>1. part.size \in Nat \ {0} /\ MaxPayload \in Nat
  BY Payload DEF Part
<1>2. MaxPayload * 0 = 0
  BY <1>1
<1>3. QED
  BY <1>1, <1>2 DEF Remaining, IsBegin

(* A message adds its first fragment, or its packet, to what is coming.    *)
LEMMA SendComing ==
  ASSUME FragmenterInv, NEW size \in Size, Send(size)
  PROVE  LET part == [msg |-> NewMessage, size |-> size, number |-> 0]
             x == Made(part, IF Fits(size) THEN None ELSE sendSeq)
         IN /\ NewMessage \in 0..Messages - 1 /\ NewMessage \notin InFlight /\ NewMessage # DeliveredMessage
            /\ part \in Part /\ part.number = 0 /\ part.size = size /\ part.msg = NewMessage /\ part # None
            /\ x \in Packet /\ x.part = part /\ ~x.again /\ (x.seq = None <=> Fits(size))
            /\ Coming' = Append(Coming, x) /\ net' \in Seq(Packet) /\ Len(net') <= NetSize
            /\ (sending' = None \/ (sending' = part /\ ~Fits(size)))
<1> DEFINE part == [msg |-> NewMessage, size |-> size, number |-> 0]
<1>1. /\ sending = None /\ sendSeq' = sendSeq /\ UNCHANGED receiver /\ harmed' = harmed \cap InFlight
      /\ IF Fits(size) THEN Put(part, None) /\ sending' = sending ELSE sending' = part /\ net' = net
  BY DEF Send
<1>2. /\ NewMessage \in 0..Messages - 1 /\ NewMessage \notin InFlight /\ NewMessage # DeliveredMessage
  BY <1>1, MessageIsNew
<1>3. part \in Part /\ part.number = 0 /\ part.size = size /\ part.msg = NewMessage /\ part # None
  BY <1>2, FragmenterAssumption DEF Part
<1>4. TypeOK /\ Orderly(Coming)
  BY DEF FragmenterInv
<1>5. Coming = net /\ Coming \in Seq(Packet) /\ Len(Coming) \in Nat /\ sendSeq \in 0..SeqSize - 1
  BY <1>1, <1>4, ComingShape DEF TypeOK
<1> HIDE DEF part
<1> DEFINE x == Made(part, IF Fits(size) THEN None ELSE sendSeq)
<1>6. x \in Packet /\ x.part = part /\ ~x.again /\ (x.seq = None <=> Fits(size))
  <2>1. sendSeq # None
    BY <1>5, FragmenterAssumption
  <2>2. QED
    BY <1>3, <1>5, <2>1 DEF Made, Packet
<1>7. Coming' = Append(Coming, x) /\ net' \in Seq(Packet) /\ Len(net') <= NetSize
      /\ (sending' = None \/ (sending' = part /\ ~Fits(size)))
  <2>1. CASE Fits(size)
    <3>1. net' = Append(net, x) /\ Len(net) < NetSize /\ sending' = None
      BY <1>1, <2>1 DEF Put, Made
    <3>2. net' \in Seq(Packet) /\ Len(net') <= NetSize
      BY <1>5, <1>6, <3>1, Appended, FragmenterAssumption
    <3>3. Coming' = net'
      BY <1>1, <1>5, <3>1, <3>2, ComingIsQueue, QueueShape
    <3>4. QED
      BY <1>5, <3>1, <3>2, <3>3
  <2>2. CASE ~Fits(size)
    <3>1. sending' = part /\ net' = net
      BY <1>1, <2>2
    <3>2. Coming' = Append(net, Made(part, sendSeq))
      <4>1. Queue(net, part, sendSeq) = Append(net, Made(part, sendSeq))
        BY <1>3, <1>5, QueueShape
      <4>2. Coming' = Queue(net, part, sendSeq)
        BY <1>1, <3>1, ComingIsQueue
      <4>3. QED
        BY <4>1, <4>2
    <3>3. QED
      BY <1>4, <1>5, <2>2, <3>1, <3>2 DEF TypeOK
  <2>3. QED
    BY <2>1, <2>2
<1>8. QED
  BY <1>2, <1>3, <1>6, <1>7 DEF x, part

LEMMA SendKeeps ==
  ASSUME FragmenterInv, NEW size \in Size, Send(size)
  PROVE  FragmenterInv'
<1> DEFINE part == [msg |-> NewMessage, size |-> size, number |-> 0]
           x == Made(part, IF Fits(size) THEN None ELSE sendSeq)
<1>1. sendSeq' = sendSeq /\ UNCHANGED receiver /\ harmed' = harmed \cap InFlight
  BY DEF Send
<1>2. /\ NewMessage \in 0..Messages - 1 /\ NewMessage \notin InFlight /\ NewMessage # DeliveredMessage
      /\ part \in Part /\ part.number = 0 /\ part.size = size /\ part.msg = NewMessage /\ part # None
      /\ x \in Packet /\ x.part = part /\ ~x.again /\ (x.seq = None <=> Fits(size))
      /\ Coming' = Append(Coming, x) /\ net' \in Seq(Packet) /\ Len(net') <= NetSize
      /\ (sending' = None \/ (sending' = part /\ ~Fits(size)))
  BY SendComing
<1> HIDE DEF x, part
<1>3. TypeOK /\ Orderly(Coming) /\ Coming \in Seq(Packet) /\ Len(Coming) \in Nat
  BY DEF FragmenterInv, Orderly
<1>4. TypeOK'
  BY <1>1, <1>2, <1>3 DEF TypeOK, receiver
<1>5. PICK q, r : q = Coming /\ r = Coming'
  OBVIOUS
<1>6. \A i \in 1..Len(q) : q[i].part.msg \in InFlight /\ q[i].part.msg # x.part.msg
  BY <1>2, <1>3, <1>5, OnTheWay
<1>7. Remaining(part) > 0 /\ IsBegin(part)
  BY <1>2, BeginsWhole
<1>8. Orderly(r)
  <2>1. Orderly(Append(q, x))
    BY <1>2, <1>3, <1>5, <1>6, <1>7, LongerByNew
  <2>2. QED
    BY <1>2, <1>5, <2>1
<1>9. /\ Len(q) \in Nat /\ r # <<>> /\ Len(r) = Len(q) + 1 /\ 1 \in 1..Len(r)
      /\ \A i \in 1..Len(r) : IF i = Len(q) + 1 THEN r[i] = x ELSE i \in 1..Len(q) /\ r[i] = q[i]
      /\ q = <<>> <=> Len(q) = 0
  <2>1. q \in Seq(Packet) /\ r = Append(q, x) /\ Len(q) \in Nat
    BY <1>2, <1>3, <1>5
  <2>2. QED
    BY <1>2, <2>1, Appended, EmptySeq
<1>10. IF q = <<>> THEN ~Continues(r[1]) /\ ~r[1].again
       ELSE r[1] = q[1] /\ (q[1].part.msg \in harmed => q[1].part.msg \in harmed')
  <2>1. CASE q = <<>>
    BY <1>2, <1>7, <1>9, <2>1 DEF Continues
  <2>2. CASE q # <<>>
    <3>1. 1 \in 1..Len(q) /\ 1 # Len(q) + 1
      BY <1>9, <2>2
    <3>2. QED
      BY <1>1, <1>6, <1>9, <2>2, <3>1
  <2>3. QED
    BY <2>1, <2>2
<1>11. ASSUME NEW i \in 1..Len(r)
       PROVE  /\ (Finishes(r[i]) \/ (i = Len(r) /\ sending' # None)) /\ r[i].part.msg \in harmed'
                   => q # <<>> /\ q[1].part.msg = r[i].part.msg /\ Lagging(q[1])
              /\ r[i].part.msg = DeliveredMessage => i \in 1..Len(q) /\ q[i].part.msg = DeliveredMessage
  <2>1. CASE i = Len(q) + 1
    <3>1. r[i].part.msg = NewMessage
      BY <1>2, <1>9, <2>1
    <3>2. r[i].part.msg \notin harmed' /\ r[i].part.msg # DeliveredMessage
      BY <1>1, <1>2, <3>1
    <3>3. QED
      BY <3>2
  <2>2. CASE i # Len(q) + 1
    <3>1. i \in 1..Len(q) /\ r[i] = q[i] /\ i # Len(r) /\ q # <<>>
      BY <1>9, <2>2
    <3>2. Finishes(q[i]) /\ q[i].part.msg \in harmed => q[1].part.msg = q[i].part.msg /\ Lagging(q[1])
      BY <1>5, <3>1 DEF FragmenterInv, HarmInv, Closes
    <3>3. harmed' \subseteq harmed
      BY <1>1
    <3>4. QED
      BY <3>1, <3>2, <3>3
  <2>3. QED
    BY <2>1, <2>2
<1>12. sending' = None \/ (~Fits(sending'.size) /\ Remaining(sending') > 0)
  BY <1>2, <1>7
<1>13. QED
  BY <1>1, <1>4, <1>5, <1>8, <1>9, <1>10, <1>11, <1>12, BehindKeeps

(* A fragment goes out: what is coming stays, but for the next fragment.   *)
LEMMA CreateComing ==
  ASSUME FragmenterInv, CreateFragment
  PROVE  LET s == Follows(sending)
             x == Made(s, sendSeq')
         IN /\ Coming # <<>> /\ Coming = net' /\ Coming[Len(Coming)] = Made(sending, sendSeq)
            /\ s \in Part /\ s.msg = sending.msg /\ s.size = sending.size /\ s # None
            /\ sendSeq \in 0..SeqSize - 1 /\ sendSeq' \in 0..SeqSize - 1
            /\ x \in Packet /\ x.part = s /\ x.seq = sendSeq' /\ ~x.again /\ x.seq # None
            /\ IF Remaining(s) > 0 THEN sending' = s /\ Coming' = Append(Coming, x)
               ELSE sending' = None /\ Coming' = Coming
<1> DEFINE s == Follows(sending)
           x == Made(s, sendSeq')
<1>1. /\ sending # None /\ net' = Append(net, Made(sending, sendSeq))
      /\ sendSeq' = (sendSeq + 1) % SeqSize /\ sending' = Rest(sending)
  BY DEF CreateFragment, Put, TakeNumber, Made
<1>2. /\ net \in Seq(Packet) /\ Coming \in Seq(Packet) /\ Coming # <<>> /\ sending \in Part
      /\ Coming = net' /\ Coming[Len(Coming)] = Made(sending, sendSeq) /\ sendSeq \in 0..SeqSize - 1
  BY <1>1, ComingShape DEF FragmenterInv, TypeOK
<1>3. sendSeq' \in 0..SeqSize - 1
  BY <1>1, <1>2, Sequencing
<1>4. s \in Part /\ s.msg = sending.msg /\ s.size = sending.size /\ s # None
  BY <1>2, NextFragment, FragmenterAssumption
<1>5. sending' = IF Remaining(s) > 0 THEN s ELSE None
  BY <1>1 DEF Rest
<1> HIDE DEF s
<1>6. x \in Packet /\ x.part = s /\ x.seq = sendSeq' /\ ~x.again /\ x.seq # None
  BY <1>3, <1>4, FragmenterAssumption DEF Made, Packet
<1>7. Coming' = Queue(Coming, sending', sendSeq')
  BY <1>2, ComingIsQueue
<1>8. Queue(Coming, s, sendSeq') = Append(Coming, x) /\ Queue(Coming, None, sendSeq') = Coming
  <2>1. PICK q, k : q = Coming /\ k = sendSeq'
    OBVIOUS
  <2>2. q \in Seq(Packet) /\ k \in 0..SeqSize - 1
    BY <1>2, <1>3, <2>1
  <2>3. Queue(q, s, k) = Append(q, Made(s, k))
    BY <1>4, <2>2, QueueShape
  <2>4. Queue(q, None, k) = q
    BY <2>2, QueueShape
  <2>5. QED
    BY <2>1, <2>3, <2>4
<1>9. QED
  BY <1>2, <1>3, <1>4, <1>5, <1>6, <1>7, <1>8 DEF s

LEMMA CreateKeeps ==
  ASSUME FragmenterInv, CreateFragment
  PROVE  FragmenterInv'
<1>1. /\ sending # None /\ Len(net) < NetSize /\ net' = Append(net, Made(sending, sendSeq))
      /\ sendSeq' = (sendSeq + 1) % SeqSize /\ sending' = Rest(sending)
      /\ UNCHANGED receiver /\ harmed' = harmed
  BY DEF CreateFragment, Put, TakeNumber, Made
<1>2. TypeOK /\ Orderly(Coming) /\ sendSeq \in 0..SeqSize - 1
  BY DEF FragmenterInv, TypeOK
<1>3. PICK q, r : q = Coming /\ r = Coming'
  OBVIOUS
<1>4. /\ net \in Seq(Packet) /\ q \in Seq(Packet) /\ Len(q) \in Nat /\ q # <<>> /\ sending \in Part
      /\ q = net' /\ q[Len(q)] = Made(sending, sendSeq) /\ Len(q) = Len(net) + 1 /\ Orderly(q)
  BY <1>1, <1>2, <1>3, ComingShape
<1>5. 1 \in 1..Len(q) /\ Len(q) \in 1..Len(q) /\ Len(net') <= NetSize
  <2>1. Len(net) \in Nat /\ NetSize \in Nat
    BY <1>4, FragmenterAssumption
  <2>2. QED
    BY <1>1, <1>4, <2>1
<1>6. /\ q[Len(q)].part = sending /\ q[Len(q)].seq = sendSeq /\ ~q[Len(q)].again /\ sendSeq # None
      /\ q[Len(q)].seq # None
  BY <1>2, <1>4, FragmenterAssumption DEF Made
<1>7. sendSeq' \in 0..SeqSize - 1
  BY CreateComing
<1>8. CASE Remaining(Follows(sending)) > 0
  <2> DEFINE s == Follows(sending)
             x == Made(s, sendSeq')
  <2>1. s \in Part /\ s.msg = sending.msg /\ s.size = sending.size /\ s # None
    BY CreateComing
  <2>2. sending' = s
    BY <1>8, CreateComing
  <2>3. x \in Packet /\ x.part = s /\ x.seq = sendSeq' /\ ~x.again /\ x.seq # None
    BY CreateComing
  <2>4. r = Append(q, x)
    BY <1>3, <1>8, CreateComing
  <2> HIDE DEF s
  <2> HIDE DEF x
  <2>5. Orderly(r)
    <3>1. x.part = Follows(q[Len(q)].part) /\ x.seq = (q[Len(q)].seq + 1) % SeqSize
      BY <1>1, <1>6, <2>3 DEF s
    <3>2. Remaining(x.part) > 0
      BY <1>8, <2>3 DEF s
    <3>3. QED
      BY <1>4, <1>6, <2>3, <2>4, <3>1, <3>2, LongerByNext
  <2>6. /\ r # <<>> /\ Len(r) = Len(q) + 1 /\ 1 \in 1..Len(r)
        /\ \A i \in 1..Len(r) : IF i = Len(q) + 1 THEN r[i] = x ELSE i \in 1..Len(q) /\ r[i] = q[i]
    BY <1>4, <2>3, <2>4, Appended
  <2>7. r[1] = q[1]
    BY <1>4, <1>5, <2>6
  <2>8. ASSUME NEW i \in 1..Len(r)
        PROVE  /\ (Finishes(r[i]) \/ (i = Len(r) /\ sending' # None)) /\ r[i].part.msg \in harmed'
                    => q # <<>> /\ q[1].part.msg = r[i].part.msg /\ Lagging(q[1])
               /\ r[i].part.msg = DeliveredMessage => i \in 1..Len(q) /\ q[i].part.msg = DeliveredMessage
    <3>1. CASE i = Len(q) + 1
      <4>1. r[i].part.msg = q[Len(q)].part.msg
        BY <1>6, <2>1, <2>3, <2>6, <3>1
      <4>2. q[Len(q)].part.msg \in harmed => q[1].part.msg = q[Len(q)].part.msg /\ Lagging(q[1])
        BY <1>1, <1>3, <1>5 DEF FragmenterInv, HarmInv, Closes
      <4>3. q[Len(q)].part.msg # DeliveredMessage
        <5> SUFFICES ASSUME q[Len(q)].part.msg = DeliveredMessage
                     PROVE  FALSE
          OBVIOUS
        <5>1. Len(q) = 1 /\ q[1].again
          BY <1>3, <1>5 DEF FragmenterInv, DeliveredInv
        <5>2. QED
          BY <1>6, <5>1
      <4>4. QED
        BY <1>1, <1>4, <4>1, <4>2, <4>3
    <3>2. CASE i # Len(q) + 1
      <4>1. i \in 1..Len(q) /\ r[i] = q[i] /\ i # Len(r)
        BY <2>6, <3>2
      <4>2. Finishes(q[i]) /\ q[i].part.msg \in harmed => q[1].part.msg = q[i].part.msg /\ Lagging(q[1])
        BY <1>3, <4>1 DEF FragmenterInv, HarmInv, Closes
      <4>3. QED
        BY <1>1, <1>4, <4>1, <4>2
    <3>3. QED
      BY <3>1, <3>2
  <2>9. sending' # None /\ ~Fits(sending'.size) /\ Remaining(sending') > 0
    <3>1. ~Fits(sending.size)
      BY <1>1 DEF FragmenterInv
    <3>2. QED
      BY <1>8, <2>1, <2>2, <3>1 DEF s
  <2>10. TypeOK'
    BY <1>1, <1>2, <1>4, <1>5, <1>7, <2>1, <2>2 DEF TypeOK, receiver
  <2>11. QED
    BY <1>1, <1>3, <1>4, <2>5, <2>6, <2>7, <2>8, <2>9, <2>10, BehindKeeps
<1>9. CASE ~(Remaining(Follows(sending)) > 0)
  <2>1. sending' = None
    BY <1>9, CreateComing
  <2>2. r = q
    BY <1>3, <1>9, CreateComing
  <2>3. ASSUME NEW i \in 1..Len(r)
        PROVE  /\ (Finishes(r[i]) \/ (i = Len(r) /\ sending' # None)) /\ r[i].part.msg \in harmed'
                    => q # <<>> /\ q[1].part.msg = r[i].part.msg /\ Lagging(q[1])
               /\ r[i].part.msg = DeliveredMessage => i \in 1..Len(q) /\ q[i].part.msg = DeliveredMessage
    BY <1>1, <1>3, <1>4, <2>1, <2>2 DEF FragmenterInv, HarmInv, Closes
  <2>4. TypeOK'
    BY <1>1, <1>2, <1>4, <1>5, <1>7, <2>1 DEF TypeOK, receiver
  <2>5. QED
    BY <1>1, <1>3, <1>4, <1>5, <2>1, <2>2, <2>3, <2>4, BehindKeeps
<1>10. QED
  BY <1>8, <1>9

LEMMA FailKeeps ==
  ASSUME FragmenterInv, SendFails
  PROVE  FragmenterInv'
<1>1. /\ sending # None /\ net' = net /\ sendSeq' = (sendSeq + 1) % SeqSize /\ sending' = None
      /\ UNCHANGED receiver /\ harmed' = harmed \cup {sending.msg}
  BY DEF SendFails, TakeNumber
<1>2. TypeOK /\ Orderly(Coming) /\ sendSeq \in 0..SeqSize - 1
  BY DEF FragmenterInv, TypeOK
<1>3. PICK q, r : q = Coming /\ r = Coming'
  OBVIOUS
<1>4. sendSeq' \in 0..SeqSize - 1
  BY <1>1, <1>2, Sequencing
<1>5. /\ net \in Seq(Packet) /\ Len(net) \in Nat /\ q \in Seq(Packet) /\ Len(q) = Len(net) + 1
      /\ sending \in Part /\ sending.msg \in 0..Messages - 1 /\ q[Len(q)].part = sending /\ Orderly(q)
      /\ \A i \in 1..Len(net) : i \in 1..Len(q) /\ q[i] = net[i]
  <2>1. sending \in Part /\ q[Len(q)] = Made(sending, sendSeq)
    BY <1>1, <1>2, <1>3, ComingShape
  <2>2. sending.msg \in 0..Messages - 1 /\ q[Len(q)].part = sending
    BY <2>1 DEF Made, Part
  <2>3. QED
    BY <1>1, <1>2, <1>3, <2>1, <2>2, ComingShape
<1>6. r = net
  <2>1. Queue(net, None, sendSeq') = net
    BY <1>4, <1>5, QueueShape
  <2>2. QED
    BY <1>1, <1>3, <2>1, ComingIsQueue
<1>7. Orderly(r)
  <2>1. \A i \in 1..Len(q) : q[i].again => i = 1 /\ q[i].seq # None
    BY <1>5 DEF Orderly, WellMade
  <2>2. QED
    BY <1>5, <1>6, <2>1, PartOf
<1>8. r # <<>> => 1 \in 1..Len(r) /\ q # <<>> /\ r[1] = q[1]
  <2>1. q # <<>>
    BY <1>5, EmptySeq
  <2>2. QED
    BY <1>5, <1>6, <2>1, EmptySeq
<1>9. ASSUME NEW i \in 1..Len(r)
      PROVE  /\ (Finishes(r[i]) \/ (i = Len(r) /\ sending' # None)) /\ r[i].part.msg \in harmed'
                  => q # <<>> /\ q[1].part.msg = r[i].part.msg /\ Lagging(q[1])
             /\ r[i].part.msg = DeliveredMessage => i \in 1..Len(q) /\ q[i].part.msg = DeliveredMessage
  <2>1. i \in 1..Len(q) /\ r[i] = q[i] /\ i < Len(q) /\ Len(q) \in 1..Len(q) /\ q # <<>>
    <3>1. i \in 1..Len(q) /\ r[i] = q[i] /\ i < Len(q) /\ Len(q) \in 1..Len(q)
      BY <1>5, <1>6
    <3>2. QED
      BY <1>5, <3>1, EmptySeq
  <2>2. Finishes(q[i]) => q[i].part.msg # sending.msg
    BY <1>5, <2>1, NothingBehind
  <2>3. Finishes(q[i]) /\ q[i].part.msg \in harmed => q[1].part.msg = q[i].part.msg /\ Lagging(q[1])
    BY <1>3, <2>1 DEF FragmenterInv, HarmInv, Closes
  <2>4. QED
    BY <1>1, <2>1, <2>2, <2>3
<1>10. TypeOK'
  BY <1>1, <1>2, <1>4, <1>5 DEF TypeOK, receiver
<1>11. QED
  <2>1. r # <<>> => IF q = <<>> THEN ~Continues(r[1]) /\ ~r[1].again
                    ELSE r[1] = q[1] /\ (q[1].part.msg \in harmed => q[1].part.msg \in harmed')
    BY <1>1, <1>8
  <2>2. QED
    BY <1>1, <1>3, <1>7, <1>8, <1>9, <1>10, <2>1, BehindKeeps

(***************************************************************************)
(* The invariant holds                                                     *)
(***************************************************************************)
LEMMA InitHolds == Init => FragmenterInv
<1> SUFFICES ASSUME Init
             PROVE  FragmenterInv
  OBVIOUS
<1>1. /\ sending = None /\ sendSeq = 0 /\ net = <<>> /\ fragments = <<>>
      /\ expected = 0 /\ delivered = <<>> /\ harmed = {}
  BY DEF Init
<1>2. TypeOK
  <2>1. <<>> \in Seq(Packet) /\ <<>> \in Seq(Part) /\ Len(net) <= NetSize /\ 0 \in 0..SeqSize - 1
    BY <1>1, FragmenterAssumption
  <2>2. QED
    BY <1>1, <2>1 DEF TypeOK
<1>3. Coming = <<>>
  BY <1>1, <1>2, ComingShape
<1>4. Len(<<>>) = 0 /\ <<>> \in Seq(Packet)
  OBVIOUS
<1>5. Orderly(Coming)
  BY <1>3, <1>4 DEF Orderly, WellMade, Runs, Consecutive
<1>6. HeadInv /\ HarmInv /\ DeliveredInv /\ HeldInv
  BY <1>1, <1>3, <1>4 DEF HeadInv, HarmInv, DeliveredInv, HeldInv
<1>7. QED
  BY <1>1, <1>2, <1>5, <1>6 DEF FragmenterInv

LEMMA StepKeeps ==
  ASSUME FragmenterInv, ShortMessages, InOrder, [Next]_vars
  PROVE  FragmenterInv'
<1>1. CASE \E size \in Size : Send(size)
  BY <1>1, SendKeeps
<1>2. CASE CreateFragment
  BY <1>2, CreateKeeps
<1>3. CASE SendFails
  BY <1>3, FailKeeps
<1>4. CASE Receive
  BY <1>4, ReceiveKeeps
<1>5. CASE ReceiveTwice
  BY <1>5, TwiceKeeps
<1>6. CASE Lose
  BY <1>6, LoseKeeps
<1>7. CASE ReceiveCut
  BY <1>7, CutKeeps
<1>8. CASE UNCHANGED vars
  <2>1. /\ sending' = sending /\ sendSeq' = sendSeq /\ net' = net /\ fragments' = fragments
        /\ expected' = expected /\ delivered' = delivered /\ harmed' = harmed
    BY <1>8 DEF vars, sender, receiver
  <2>2. Coming' = Coming
    BY <2>1 DEF Coming
  <2>3. TypeOK' /\ (sending # None => ~Fits(sending.size) /\ Remaining(sending) > 0)' /\ HeldInv'
    BY <2>1 DEF FragmenterInv, TypeOK, HeldInv, Fits, Remaining, MaxPayload
  <2>4. Orderly(Coming')
    BY <2>2 DEF FragmenterInv
  <2>5. HeadInv'
    BY <2>1, <2>2 DEF FragmenterInv, HeadInv, Continues, Wanted, Lagging, Taken, Ahead, Before,
                      DeliveredMessage, IsBegin, IsEnd, Remaining, MaxPayload, Follows
  <2>6. HarmInv'
    BY <2>1, <2>2 DEF FragmenterInv, HarmInv, Closes, Finishes, Lagging, Continues, Ahead, IsBegin,
                      IsEnd, Remaining, MaxPayload
  <2>7. DeliveredInv'
    BY <2>1, <2>2 DEF FragmenterInv, DeliveredInv, Whole, Parts, Fits, MaxPayload, IsEnd, Remaining,
                      Taken, Ahead, DeliveredMessage, Before, Follows
  <2>8. QED
    BY <2>3, <2>4, <2>5, <2>6, <2>7, Assembled
<1>9. QED
  BY <1>1, <1>2, <1>3, <1>4, <1>5, <1>6, <1>7, <1>8 DEF Next

(* What comes next is new, goes on with what the receiver holds, repeats   *)
(* what it took last or is the rest of a message that lost a fragment      *)
(* (_BEFS_ReceiveAndReassemble), in every behaviour of packets that keep   *)
(* their order.                                                            *)
THEOREM FragmenterInvariant ==
  ASSUME ShortMessages, InOrder
  PROVE  Spec => []FragmenterInv
<1>1. Init => FragmenterInv
  BY InitHolds
<1>2. FragmenterInv /\ [Next]_vars => FragmenterInv'
  BY StepKeeps
<1>3. QED
  BY <1>1, <1>2, PTL DEF Spec

(* The parts, packets and numbers of the fragmenter stay what their types  *)
(* say, the number to send and the one to receive below SeqSize.           *)
THEOREM FragmenterTypeCorrect ==
  ASSUME ShortMessages, InOrder
  PROVE  Spec => []TypeOK
<1>1. FragmenterInv => TypeOK
  BY DEF FragmenterInv
<1>2. QED
  BY <1>1, FragmenterInvariant, PTL

(***************************************************************************)
(* Every step is a step of the link, or none                               *)
(***************************************************************************)
Carries(q, m) == \E i \in 1..Len(q) : q[i].part.msg = m

Precedes(q, a, b) ==
  \E i, j \in 1..Len(q) : i < j /\ q[i].part.msg = a /\ q[j].part.msg = b

Flying(q, h, d) == {p.part.msg : p \in ToSet(q)} \ (h \cup {d})

Ordering(q, f) ==
  {pair \in f \X f :
     pair[1] # pair[2] /\ \E i, j \in DOMAIN q :
       i < j /\ q[i].part.msg = pair[1] /\ q[j].part.msg = pair[2]}

LEMMA FlightIs ==
  /\ Flight = Flying(Coming, harmed, DeliveredMessage)
  /\ Flight' = Flying(Coming', harmed', DeliveredMessage')
  /\ Order = Ordering(Coming, Flight)
  /\ Order' = Ordering(Coming', Flight')
BY DEF Flight, Flying, Order, Ordering

LEMMA FlyingShape ==
  ASSUME NEW q \in Seq(Packet), NEW h, NEW d
  PROVE  \A m : m \in Flying(q, h, d) <=> Carries(q, m) /\ m \notin h /\ m # d
BY DEF Flying, Carries, ToSet

LEMMA OrderingShape ==
  ASSUME NEW q \in Seq(Packet), NEW f
  PROVE  \A a, b : <<a, b>> \in Ordering(q, f) <=> a \in f /\ b \in f /\ a # b /\ Precedes(q, a, b)
BY DEF Ordering, Precedes

LEMMA OrderingMembers ==
  ASSUME NEW q \in Seq(Packet), NEW f
  PROVE  \A x : x \in Ordering(q, f) <=> x \in f \X f /\ x[1] # x[2] /\ Precedes(q, x[1], x[2])
<1>1. DOMAIN q = 1..Len(q)
  OBVIOUS
<1>2. QED
  BY <1>1, Zenon DEF Ordering, Precedes

LEMMA OrderingSame ==
  ASSUME NEW q \in Seq(Packet), NEW r \in Seq(Packet), NEW f, NEW g, g \subseteq f,
         \A a, b \in g : a # b => (Precedes(r, a, b) <=> Precedes(q, a, b))
  PROVE  Ordering(r, g) = Ordering(q, f) \cap (g \X g)
<1>1. /\ \A x : x \in Ordering(r, g) <=> x \in g \X g /\ x[1] # x[2] /\ Precedes(r, x[1], x[2])
      /\ \A x : x \in Ordering(q, f) <=> x \in f \X f /\ x[1] # x[2] /\ Precedes(q, x[1], x[2])
  BY OrderingMembers
<1>2. \A x \in g \X g : x \in f \X f /\ x[1] \in g /\ x[2] \in g
  OBVIOUS
<1> SUFFICES ASSUME NEW x
             PROVE  x \in Ordering(r, g) <=> x \in Ordering(q, f) /\ x \in g \X g
  OBVIOUS
<1>3. CASE x \in g \X g
  BY <1>1, <1>2, <1>3
<1>4. CASE x \notin g \X g
  BY <1>1, <1>4
<1>5. QED
  BY <1>3, <1>4

LEMMA DeliveredIs ==
  /\ FragmenterInv => Delivered = DeliveredMessage
  /\ FragmenterInv' => Delivered' = DeliveredMessage'
BY DEF FragmenterInv, DeliveredInv, Delivered

(* Faults take messages and what is left keeps its order.                  *)
LEMMA LinkLoses ==
  ASSUME FragmenterInv, FragmenterInv', NEW q, NEW r, q = Coming, r = Coming',
         DeliveredMessage' = DeliveredMessage, harmed \subseteq harmed',
         \A m : Carries(r, m) => Carries(q, m),
         \A a, b : a # b /\ Carries(r, a) /\ Carries(r, b) /\ a \notin harmed' /\ b \notin harmed' =>
                     (Precedes(r, a, b) <=> Precedes(q, a, b))
  PROVE  Link!Next
<1>1. q \in Seq(Packet) /\ r \in Seq(Packet)
  BY DEF FragmenterInv, Orderly
<1>2. /\ \A m : m \in Flight <=> Carries(q, m) /\ m \notin harmed /\ m # DeliveredMessage
      /\ \A m : m \in Flight' <=> Carries(r, m) /\ m \notin harmed' /\ m # DeliveredMessage'
  BY <1>1, FlightIs, FlyingShape
<1>3. Flight' \subseteq Flight
  BY <1>2
<1>4. Order' = Order \cap (Flight' \X Flight')
  <2>1. \A a, b \in Flight' : a # b => (Precedes(r, a, b) <=> Precedes(q, a, b))
    BY <1>2
  <2>2. Ordering(r, Flight') = Ordering(q, Flight) \cap (Flight' \X Flight')
    BY <1>1, <1>3, <2>1, OrderingSame
  <2>3. QED
    BY <2>2, FlightIs
<1>5. Delivered' = Delivered
  BY DeliveredIs
<1>6. Link!Lose
  BY <1>3, <1>4, <1>5 DEF Link!Lose, Link!Remain
<1>7. QED
  BY <1>6 DEF Link!Next

(* A message is delivered: what was sent before it is behind the receiver. *)
LEMMA LinkDelivers ==
  ASSUME FragmenterInv, FragmenterInv', NEW q, NEW r, q = Coming, r = Coming',
         1 \in 1..Len(q), DeliveredMessage' = q[1].part.msg, DeliveredMessage' # DeliveredMessage,
         q[1].part.msg \notin harmed, harmed' = harmed,
         \A m : m # q[1].part.msg => (Carries(r, m) <=> Carries(q, m)),
         \A a, b : a # b /\ Carries(r, a) /\ Carries(r, b) => (Precedes(r, a, b) <=> Precedes(q, a, b))
  PROVE  Link!Next
<1> DEFINE m == q[1].part.msg
<1>1. q \in Seq(Packet) /\ r \in Seq(Packet)
  BY DEF FragmenterInv, Orderly
<1>2. /\ \A k : k \in Flight <=> Carries(q, k) /\ k \notin harmed /\ k # DeliveredMessage
      /\ \A k : k \in Flight' <=> Carries(r, k) /\ k \notin harmed /\ k # m
  BY <1>1, FlightIs, FlyingShape
<1>3. m \in 0..Messages - 1 /\ Carries(q, m)
  BY <1>1, PacketOf DEF Carries
<1>4. m \in Flight
  BY <1>2, <1>3
<1>5. ASSUME NEW k, Carries(q, k), k # m
      PROVE  Precedes(q, m, k) /\ k # DeliveredMessage
  <2>1. PICK j \in 1..Len(q) : q[j].part.msg = k
    BY <1>5 DEF Carries
  <2>2. j # 1 /\ 1 < j
    BY <1>5, <2>1
  <2>3. k # DeliveredMessage
    BY <2>1, <2>2 DEF FragmenterInv, DeliveredInv
  <2>4. Precedes(q, m, k)
    BY <2>1, <2>2 DEF Precedes
  <2>5. QED
    BY <2>3, <2>4
<1> HIDE DEF m
<1>6. Flight' = {k \in Flight : <<m, k>> \in Order}
  <2>1. \A k : <<m, k>> \in Order <=> m \in Flight /\ k \in Flight /\ m # k /\ Precedes(q, m, k)
    BY <1>1, FlightIs, OrderingShape
  <2>2. \A k : k \in Flight' => k \in Flight /\ <<m, k>> \in Order
    BY <1>2, <1>4, <1>5, <2>1 DEF m
  <2>3. \A k : k \in Flight /\ <<m, k>> \in Order => k \in Flight'
    BY <1>2, <2>1 DEF m
  <2>4. QED
    BY <2>2, <2>3
<1>7. Order' = Order \cap (Flight' \X Flight')
  <2>1. \A a, b \in Flight' : a # b => (Precedes(r, a, b) <=> Precedes(q, a, b))
    BY <1>2
  <2>2. Flight' \subseteq Flight
    BY <1>6
  <2>3. Ordering(r, Flight') = Ordering(q, Flight) \cap (Flight' \X Flight')
    BY <1>1, <2>1, <2>2, OrderingSame
  <2>4. QED
    BY <2>3, FlightIs
<1>8. Delivered' = m
  BY DeliveredIs DEF m
<1>9. Link!Deliver(m)
  BY <1>4, <1>6, <1>7, <1>8 DEF Link!Deliver, Link!Remain
<1>10. QED
  BY <1>3, <1>9 DEF Link!Next

(* What comes behind the first packet has the order it had.                *)
LEMMA TailOrder ==
  ASSUME NEW q, Orderly(q), q # <<>>, NEW r, r = Tail(q)
  PROVE  /\ \A m : Carries(r, m) => Carries(q, m)
         /\ \A m : m # q[1].part.msg /\ Carries(q, m) => Carries(r, m)
         /\ \A a, b : a # b /\ Carries(r, a) /\ Carries(r, b) => (Precedes(r, a, b) <=> Precedes(q, a, b))
<1>1. q \in Seq(Packet) /\ Len(q) \in Nat /\ Len(r) = Len(q) - 1
      /\ \A i \in 1..Len(r) : i + 1 \in 1..Len(q) /\ r[i] = q[i + 1]
  <2>1. q \in Seq(Packet) /\ Len(q) \in Nat
    BY DEF Orderly
  <2>2. QED
    BY <2>1, Shorter
<1>2. \A j \in 1..Len(q) : j # 1 => j - 1 \in 1..Len(r) /\ r[j - 1] = q[j]
  <2> SUFFICES ASSUME NEW j \in 1..Len(q), j # 1
               PROVE  j - 1 \in 1..Len(r) /\ r[j - 1] = q[j]
    OBVIOUS
  <2>1. j - 1 \in 1..Len(r) /\ (j - 1) + 1 = j
    BY <1>1
  <2>2. QED
    BY <1>1, <2>1
<1>3. \A m : Carries(r, m) => Carries(q, m)
  BY <1>1 DEF Carries
<1>4. \A m : m # q[1].part.msg /\ Carries(q, m) => Carries(r, m)
  BY <1>2 DEF Carries
<1>5. ASSUME NEW a, NEW b, Precedes(r, a, b)
      PROVE  Precedes(q, a, b)
  <2>1. PICK i, j \in 1..Len(r) : i < j /\ r[i].part.msg = a /\ r[j].part.msg = b
    BY <1>5 DEF Precedes
  <2>2. i + 1 \in 1..Len(q) /\ j + 1 \in 1..Len(q) /\ i + 1 < j + 1
    BY <1>1, <2>1
  <2>3. q[i + 1].part.msg = a /\ q[j + 1].part.msg = b
    BY <1>1, <2>1
  <2>4. QED
    BY <2>2, <2>3 DEF Precedes
<1>6. ASSUME NEW a, NEW b, a # b, Carries(r, a), Precedes(q, a, b)
      PROVE  Precedes(r, a, b)
  <2>1. PICK i, j \in 1..Len(q) : i < j /\ q[i].part.msg = a /\ q[j].part.msg = b
    BY <1>6 DEF Precedes
  <2>2. PICK k \in 1..Len(r) : r[k].part.msg = a
    BY <1>6 DEF Carries
  <2>3. j # 1 /\ j - 1 \in 1..Len(r) /\ r[j - 1].part.msg = b
    <3>1. j # 1
      BY <2>1
    <3>2. QED
      BY <1>2, <2>1, <3>1
  <2>4. CASE i # 1
    <3>1. i - 1 \in 1..Len(r) /\ r[i - 1].part.msg = a /\ i - 1 < j - 1
      BY <1>2, <2>1, <2>4
    <3>2. QED
      BY <2>3, <3>1 DEF Precedes
  <2>5. CASE i = 1
    <3>1. k + 1 \in 1..Len(q) /\ q[k + 1].part.msg = a /\ 1 < k + 1 /\ 1 \in 1..Len(q)
      BY <1>1, <2>1, <2>2, <2>5
    <3>2. \A h \in 1..k + 1 : q[h].part.msg = a
      BY <2>1, <2>5, <3>1 DEF Orderly, Runs
    <3>3. ~(j \in 1..k + 1)
      BY <1>6, <2>1, <3>2
    <3>4. k < j - 1
      BY <2>2, <3>3
    <3>5. QED
      BY <2>2, <2>3, <3>4 DEF Precedes
  <2>6. QED
    BY <2>4, <2>5
<1>7. QED
  BY <1>3, <1>4, <1>5, <1>6

(* Nor does it change when the parts stay, a fragment follows the last one *)
(* or the last one goes.                                                   *)
LEMMA SameOrder ==
  ASSUME NEW q, NEW r, Len(q) \in Nat, Len(r) = Len(q), \A i \in 1..Len(q) : r[i].part = q[i].part
  PROVE  /\ \A m : Carries(r, m) <=> Carries(q, m)
         /\ \A a, b : Precedes(r, a, b) <=> Precedes(q, a, b)
BY DEF Carries, Precedes

LEMMA LongerOrder ==
  ASSUME NEW q \in Seq(Packet), NEW r, Len(r) = Len(q) + 1, \A i \in 1..Len(q) : r[i].part = q[i].part
  PROVE  /\ \A m : Carries(r, m) <=> Carries(q, m) \/ m = r[Len(q) + 1].part.msg
         /\ \A a, b : Precedes(q, a, b) => Precedes(r, a, b)
         /\ \A a, b : Precedes(r, a, b) =>
              Precedes(q, a, b) \/ (b = r[Len(q) + 1].part.msg /\ Carries(q, a))
         /\ \A a : Carries(q, a) => Precedes(r, a, r[Len(q) + 1].part.msg)
<1>1. Len(q) \in Nat
  OBVIOUS
<1>2. /\ \A i \in 1..Len(r) : i \in 1..Len(q) \/ i = Len(q) + 1
      /\ \A i \in 1..Len(q) : i \in 1..Len(r) /\ i < Len(q) + 1
      /\ Len(q) + 1 \in 1..Len(r)
  BY <1>1
<1>3. \A m : Carries(r, m) <=> Carries(q, m) \/ m = r[Len(q) + 1].part.msg
  BY <1>2 DEF Carries
<1>4. \A a, b : Precedes(q, a, b) => Precedes(r, a, b)
  BY <1>2 DEF Precedes
<1>5. ASSUME NEW a, NEW b, Precedes(r, a, b)
      PROVE  Precedes(q, a, b) \/ (b = r[Len(q) + 1].part.msg /\ Carries(q, a))
  <2>1. PICK i, j \in 1..Len(r) : i < j /\ r[i].part.msg = a /\ r[j].part.msg = b
    BY <1>5 DEF Precedes
  <2>2. i \in 1..Len(q)
    BY <1>1, <2>1
  <2>3. CASE j \in 1..Len(q)
    BY <2>1, <2>2, <2>3 DEF Precedes
  <2>4. CASE j = Len(q) + 1
    BY <2>1, <2>2, <2>4 DEF Carries
  <2>5. QED
    BY <1>2, <2>3, <2>4
<1>6. \A a : Carries(q, a) => Precedes(r, a, r[Len(q) + 1].part.msg)
  BY <1>2 DEF Carries, Precedes
<1>7. QED
  BY <1>3, <1>4, <1>5, <1>6

LEMMA DropIsLoss ==
  ASSUME FragmenterInv, FragmenterInv', net # <<>>, net' = Tail(net), UNCHANGED sender,
         DeliveredMessage' = DeliveredMessage, harmed \subseteq harmed'
  PROVE  Link!Next
<1>1. PICK q, r : q = Coming /\ r = Coming'
  OBVIOUS
<1>2. r = Tail(q) /\ Orderly(q) /\ q # <<>>
  BY <1>1, ComingDropped, FirstPacket DEF FragmenterInv
<1>3. /\ \A m : Carries(r, m) => Carries(q, m)
      /\ \A a, b : a # b /\ Carries(r, a) /\ Carries(r, b) => (Precedes(r, a, b) <=> Precedes(q, a, b))
  BY <1>2, TailOrder
<1>4. QED
  BY <1>1, <1>3, LinkLoses

(* What is handed up is the first message that comes, and no packet of it  *)
(* was lost.                                                               *)
LEMMA HandedUp ==
  ASSUME FragmenterInv, Coming # <<>>, ReceiveFragment(Coming[1], TRUE),
         DeliveredMessage' # DeliveredMessage
  PROVE  DeliveredMessage' = Coming[1].part.msg /\ Coming[1].part.msg \notin harmed
<1>1. Standalone(Coming[1]) \/ Accepted(Coming[1]) \/ Repeated(Coming[1]) \/ Skipped(Coming[1])
  BY Received
<1>2. Finishes(Coming[1]) /\ DeliveredMessage' = Coming[1].part.msg
  BY <1>1, ReceiverKept
<1>3. Standalone(Coming[1]) \/ Accepted(Coming[1])
  <2>1. delivered' # delivered
    BY DEF DeliveredMessage
  <2>2. QED
    BY <1>1, <2>1 DEF Repeated, Skipped
<1>4. ~Lagging(Coming[1])
  <2>1. Coming[1].seq = None \/ IsBegin(Coming[1].part) \/ Ahead(Coming[1]) = 0
    BY <1>3 DEF Standalone, Accepted
  <2>2. QED
    BY <2>1 DEF Lagging, Continues
<1>5. 1 \in 1..Len(Coming)
  BY EmptySeq DEF FragmenterInv, Orderly
<1>6. QED
  BY <1>2, <1>4, <1>5 DEF FragmenterInv, HarmInv, Closes

LEMMA ReceiveIsLink ==
  ASSUME FragmenterInv, FragmenterInv', InOrder, Receive
  PROVE  Link!Next
<1>1. net # <<>> /\ net' = Tail(net)
  BY ReceivesFirst
<1>2. UNCHANGED sender /\ harmed' = harmed
  BY DEF Receive
<1>3. CASE DeliveredMessage' = DeliveredMessage
  BY <1>1, <1>2, <1>3, DropIsLoss
<1>4. CASE DeliveredMessage' # DeliveredMessage
  <2>1. PICK q, r : q = Coming /\ r = Coming'
    OBVIOUS
  <2>2. r = Tail(q) /\ Orderly(q) /\ q # <<>> /\ 1 \in 1..Len(q)
    BY <1>1, <1>2, <2>1, ComingDropped, FirstPacket DEF FragmenterInv
  <2>3. DeliveredMessage' = q[1].part.msg /\ q[1].part.msg \notin harmed
    <3>1. ~PaddedDropped
      BY <1>4 DEF PaddedDropped, DeliveredMessage
    <3>2. ReceiveFragment(Coming[1], TRUE)
      BY <3>1, ReceivesPadded
    <3>3. QED
      BY <1>4, <2>1, <2>2, <3>2, HandedUp
  <2>4. /\ \A m : m # q[1].part.msg => (Carries(r, m) <=> Carries(q, m))
        /\ \A a, b : a # b /\ Carries(r, a) /\ Carries(r, b) => (Precedes(r, a, b) <=> Precedes(q, a, b))
    BY <2>2, TailOrder
  <2>5. QED
    BY <1>2, <1>4, <2>1, <2>2, <2>3, <2>4, LinkDelivers
<1>5. QED
  BY <1>3, <1>4

LEMMA TwiceIsLink ==
  ASSUME FragmenterInv, FragmenterInv', ReceiveTwice
  PROVE  Link!Next
<1>1. /\ net # <<>> /\ Head(net).seq # None /\ ReceiveFragment(Head(net), TRUE)
      /\ net' = [net EXCEPT ![1].again = TRUE] /\ UNCHANGED sender /\ harmed' = harmed
  BY DEF ReceiveTwice
<1>2. PICK q, r : q = Coming /\ r = Coming'
  OBVIOUS
<1>3. /\ q # <<>> /\ ReceiveFragment(q[1], TRUE) /\ 1 \in 1..Len(q) /\ Orderly(q) /\ q \in Seq(Packet)
      /\ Len(q) \in Nat /\ q[1] \in Packet
  <2>1. q # <<>> /\ ReceiveFragment(q[1], TRUE) /\ 1 \in 1..Len(q)
    BY <1>1, <1>2, FirstPacket
  <2>2. Orderly(q)
    BY <1>2 DEF FragmenterInv
  <2>3. q \in Seq(Packet)
    BY <2>2 DEF Orderly
  <2>4. Len(q) \in Nat /\ q[1] \in Packet
    BY <2>1, <2>3, ElementOfSeq
  <2>5. QED
    BY <2>1, <2>2, <2>3, <2>4
<1>4. Len(r) = Len(q) /\ r[1] = [q[1] EXCEPT !.again = TRUE] /\ \A i \in 1..Len(q) : i # 1 => r[i] = q[i]
  BY <1>1, <1>2, ComingMarked DEF FragmenterInv
<1>5. r[1].part = q[1].part
  BY <1>3, <1>4 DEF Packet
<1>6. /\ \A m : Carries(r, m) <=> Carries(q, m)
      /\ \A a, b : Precedes(r, a, b) <=> Precedes(q, a, b)
  <2>1. \A i \in 1..Len(q) : r[i].part = q[i].part
    BY <1>4, <1>5
  <2>2. QED
    BY <1>3, <1>4, <2>1, SameOrder
<1>7. CASE DeliveredMessage' = DeliveredMessage
  BY <1>1, <1>2, <1>6, <1>7, LinkLoses
<1>8. CASE DeliveredMessage' # DeliveredMessage
  <2>1. DeliveredMessage' = q[1].part.msg /\ q[1].part.msg \notin harmed
    BY <1>2, <1>3, <1>8, HandedUp
  <2>2. QED
    BY <1>1, <1>2, <1>3, <1>6, <1>8, <2>1, LinkDelivers
<1>9. QED
  BY <1>7, <1>8

LEMMA SendIsLink ==
  ASSUME FragmenterInv, FragmenterInv', NEW size \in Size, Send(size)
  PROVE  Link!Next
<1> DEFINE part == [msg |-> NewMessage, size |-> size, number |-> 0]
           x == Made(part, IF Fits(size) THEN None ELSE sendSeq)
           m == NewMessage
<1>1. UNCHANGED receiver /\ harmed' = harmed \cap InFlight
  BY DEF Send
<1>2. /\ m \in 0..Messages - 1 /\ m \notin InFlight /\ m # DeliveredMessage
      /\ x \in Packet /\ x.part.msg = m /\ Coming' = Append(Coming, x)
  BY SendComing
<1> HIDE DEF x, part, m
<1>3. PICK q, r : q = Coming /\ r = Coming'
  OBVIOUS
<1>4. q \in Seq(Packet) /\ r \in Seq(Packet) /\ Len(r) = Len(q) + 1 /\ r[Len(q) + 1] = x
      /\ \A i \in 1..Len(q) : r[i].part = q[i].part
  <2>1. q \in Seq(Packet) /\ r = Append(q, x)
    BY <1>2, <1>3 DEF FragmenterInv, Orderly
  <2>2. QED
    BY <1>2, <2>1
<1>5. DeliveredMessage' = DeliveredMessage
  BY <1>1 DEF receiver, DeliveredMessage
<1>6. /\ \A k : k \in Flight <=> Carries(q, k) /\ k \notin harmed /\ k # DeliveredMessage
      /\ \A k : k \in Flight' <=> Carries(r, k) /\ k \notin harmed' /\ k # DeliveredMessage
  BY <1>3, <1>4, <1>5, FlightIs, FlyingShape
<1>7. /\ \A k : Carries(r, k) <=> Carries(q, k) \/ k = m
      /\ \A a, b : Precedes(q, a, b) => Precedes(r, a, b)
      /\ \A a, b : Precedes(r, a, b) => Precedes(q, a, b) \/ (b = m /\ Carries(q, a))
      /\ \A a : Carries(q, a) => Precedes(r, a, m)
  BY <1>2, <1>4, LongerOrder
<1>8. \A k : Carries(q, k) => k \in InFlight /\ k # m
  BY <1>2, <1>3, OnTheWay DEF Carries, FragmenterInv
<1>9. Flight' = Flight \cup {m} /\ m \notin Flight
  BY <1>1, <1>2, <1>6, <1>7, <1>8
<1>10. \A a, b : Precedes(q, a, b) => Carries(q, a) /\ Carries(q, b)
  BY DEF Precedes, Carries
<1>11. Order' = Order \cup (Flight \X {m})
  <2>1. /\ \A y : y \in Order <=> y \in Flight \X Flight /\ y[1] # y[2] /\ Precedes(q, y[1], y[2])
        /\ \A y : y \in Order' <=> y \in Flight' \X Flight' /\ y[1] # y[2] /\ Precedes(r, y[1], y[2])
    BY <1>3, <1>4, FlightIs, OrderingMembers
  <2>2. ASSUME NEW y, y \in Order'
        PROVE  y \in Order \/ y \in Flight \X {m}
    <3>1. y \in Flight' \X Flight' /\ y[1] # y[2] /\ Precedes(r, y[1], y[2])
      BY <2>1, <2>2
    <3>2. y[1] \in Flight' /\ y[2] \in Flight' /\ y = <<y[1], y[2]>>
      BY <3>1
    <3>3. CASE Precedes(q, y[1], y[2])
      <4>1. y[1] \in Flight /\ y[2] \in Flight
        BY <1>8, <1>9, <1>10, <3>2, <3>3
      <4>2. y \in Flight \X Flight
        BY <3>2, <4>1
      <4>3. QED
        BY <2>1, <3>1, <3>3, <4>2
    <3>4. CASE y[2] = m /\ Carries(q, y[1])
      <4>1. y[1] \in Flight
        BY <1>8, <1>9, <3>2, <3>4
      <4>2. QED
        BY <3>2, <3>4, <4>1
    <3>5. QED
      BY <1>7, <3>1, <3>3, <3>4
  <2>3. ASSUME NEW y, y \in Order
        PROVE  y \in Order'
    <3>1. y \in Flight \X Flight /\ y[1] # y[2] /\ Precedes(q, y[1], y[2])
      BY <2>1, <2>3
    <3>2. y \in Flight' \X Flight'
      BY <1>9, <3>1
    <3>3. QED
      BY <1>7, <2>1, <3>1, <3>2
  <2>4. ASSUME NEW y, y \in Flight \X {m}
        PROVE  y \in Order'
    <3>1. y[1] \in Flight /\ y[2] = m /\ y \in Flight' \X Flight'
      BY <1>9, <2>4
    <3>2. Carries(q, y[1]) /\ y[1] # y[2]
      BY <1>6, <1>9, <3>1
    <3>3. QED
      BY <1>7, <2>1, <3>1, <3>2
  <2>5. QED
    BY <2>2, <2>3, <2>4
<1>12. Delivered' = Delivered
  BY <1>5, DeliveredIs
<1>13. Link!Send(m)
  BY <1>9, <1>11, <1>12 DEF Link!Send
<1>14. QED
  BY <1>2, <1>13 DEF Link!Next

LEMMA CreateIsLink ==
  ASSUME FragmenterInv, FragmenterInv', CreateFragment
  PROVE  Link!Next
<1>1. UNCHANGED receiver /\ harmed' = harmed
  BY DEF CreateFragment
<1>2. PICK q, r : q = Coming /\ r = Coming'
  OBVIOUS
<1>3. q \in Seq(Packet) /\ Len(q) \in Nat /\ q # <<>> /\ q[Len(q)].part = sending /\ Orderly(q)
  <2>1. q \in Seq(Packet) /\ Orderly(q)
    BY <1>2 DEF FragmenterInv, Orderly
  <2>2. q # <<>> /\ q[Len(q)] = Made(sending, sendSeq)
    BY <1>2, CreateComing
  <2>3. QED
    BY <2>1, <2>2 DEF Made
<1>4. DeliveredMessage' = DeliveredMessage
  BY <1>1 DEF receiver, DeliveredMessage
<1>5. CASE Remaining(Follows(sending)) > 0
  <2> DEFINE x == Made(Follows(sending), sendSeq')
  <2>1. x \in Packet /\ x.part.msg = sending.msg /\ r = Append(q, x)
    BY <1>2, <1>5, CreateComing
  <2> HIDE DEF x
  <2>2. /\ Len(r) = Len(q) + 1 /\ r[Len(q) + 1].part.msg = sending.msg
        /\ \A i \in 1..Len(q) : r[i].part = q[i].part
    BY <1>3, <2>1
  <2>3. /\ \A k : Carries(r, k) <=> Carries(q, k) \/ k = sending.msg
        /\ \A a, b : Precedes(q, a, b) => Precedes(r, a, b)
        /\ \A a, b : Precedes(r, a, b) => Precedes(q, a, b) \/ (b = sending.msg /\ Carries(q, a))
    BY <1>3, <2>2, LongerOrder
  <2>4. Len(q) \in 1..Len(q) /\ q[Len(q)].part.msg = sending.msg
    BY <1>3, EmptySeq
  <2>5. \A m : Carries(r, m) => Carries(q, m)
    BY <2>3, <2>4 DEF Carries
  <2>6. ASSUME NEW a, NEW b, a # b, Carries(q, a), b = sending.msg
        PROVE  Precedes(q, a, b)
    <3>1. PICK i \in 1..Len(q) : q[i].part.msg = a
      BY <2>6 DEF Carries
    <3>2. i < Len(q)
      BY <1>3, <2>4, <2>6, <3>1
    <3>3. QED
      BY <2>4, <2>6, <3>1, <3>2 DEF Precedes
  <2>7. \A a, b : a # b => (Precedes(r, a, b) <=> Precedes(q, a, b))
    BY <2>3, <2>6
  <2>8. QED
    BY <1>1, <1>2, <1>4, <2>5, <2>7, LinkLoses
<1>6. CASE ~(Remaining(Follows(sending)) > 0)
  <2>1. r = q
    BY <1>2, <1>6, CreateComing
  <2>2. QED
    BY <1>1, <1>2, <1>4, <2>1, LinkLoses
<1>7. QED
  BY <1>5, <1>6

LEMMA FailIsLink ==
  ASSUME FragmenterInv, FragmenterInv', SendFails
  PROVE  Link!Next
<1>1. /\ sending # None /\ net' = net /\ sending' = None
      /\ UNCHANGED receiver /\ harmed' = harmed \cup {sending.msg}
  BY DEF SendFails
<1>2. PICK q, r : q = Coming /\ r = Coming'
  OBVIOUS
<1>3. TypeOK /\ TypeOK' /\ r \in Seq(Packet) /\ Len(r) \in Nat
  BY <1>2 DEF FragmenterInv, Orderly
<1>4. r = net
  <2>1. net \in Seq(Packet) /\ sendSeq' \in 0..SeqSize - 1
    BY <1>3 DEF TypeOK
  <2>2. Queue(net, None, sendSeq') = net
    BY <2>1, QueueShape
  <2>3. QED
    BY <1>1, <1>2, <2>2, ComingIsQueue
<1>5. Len(q) = Len(r) + 1 /\ q[Len(r) + 1].part = sending
      /\ \A i \in 1..Len(r) : q[i].part = r[i].part
  <2>1. Len(q) = Len(net) + 1 /\ q[Len(q)] = Made(sending, sendSeq) /\ \A i \in 1..Len(net) : q[i] = net[i]
    BY <1>1, <1>2, <1>3, ComingShape
  <2>2. QED
    BY <1>4, <2>1 DEF Made
<1>6. /\ \A m : Carries(r, m) => Carries(q, m)
      /\ \A a, b : Precedes(r, a, b) => Precedes(q, a, b)
      /\ \A a, b : Precedes(q, a, b) => Precedes(r, a, b) \/ b = sending.msg
  BY <1>3, <1>5, LongerOrder
<1>7. DeliveredMessage' = DeliveredMessage
  BY <1>1 DEF receiver, DeliveredMessage
<1>8. QED
  BY <1>1, <1>2, <1>6, <1>7, LinkLoses

LEMMA StepIsLink ==
  ASSUME FragmenterInv, FragmenterInv', InOrder, [Next]_vars
  PROVE  [Link!Next]_(Link!vars)
<1>1. CASE \E size \in Size : Send(size)
  BY <1>1, SendIsLink
<1>2. CASE CreateFragment
  BY <1>2, CreateIsLink
<1>3. CASE SendFails
  BY <1>3, FailIsLink
<1>4. CASE Receive
  BY <1>4, ReceiveIsLink
<1>5. CASE ReceiveTwice
  BY <1>5, TwiceIsLink
<1>6. CASE Lose
  <2>1. /\ net # <<>> /\ net' = Tail(net) /\ UNCHANGED sender /\ harmed \subseteq harmed'
        /\ DeliveredMessage' = DeliveredMessage
    BY <1>6 DEF Lose, Harmed, receiver, DeliveredMessage
  <2>2. QED
    BY <2>1, DropIsLoss
<1>7. CASE ReceiveCut
  <2>1. /\ net # <<>> /\ net' = Tail(net) /\ UNCHANGED sender /\ harmed \subseteq harmed'
        /\ Head(net).seq # None /\ MayFail(Head(net).seq) /\ ReceiveFragment(Head(net), FALSE)
    BY <1>7 DEF ReceiveCut, Harmed
  <2>2. ClearFragmenterData
    <3>1. Coming[1].seq # None /\ Ahead(Coming[1]) < MaxGap /\ ReceiveFragment(Coming[1], FALSE)
      BY <2>1, FirstPacket DEF MayFail, Ahead
    <3>2. QED
      BY <2>1, <3>1, CutClears
  <2>3. DeliveredMessage' = DeliveredMessage
    BY <2>2 DEF ClearFragmenterData, DeliveredMessage
  <2>4. QED
    BY <2>1, <2>3, DropIsLoss
<1>8. CASE UNCHANGED vars
  <2>1. Flight' = Flight
    BY <1>8 DEF vars, sender, receiver, Flight, Coming, DeliveredMessage
  <2>2. Order' = Order
    BY <1>8, <2>1 DEF vars, sender, receiver, Order, Coming
  <2>3. Delivered' = Delivered
    BY <1>8, DeliveredIs DEF vars, receiver, DeliveredMessage
  <2>4. QED
    BY <2>1, <2>2, <2>3 DEF Link!vars
<1>9. QED
  BY <1>1, <1>2, <1>3, <1>4, <1>5, <1>6, <1>7, <1>8 DEF Next

(* What is handed up is one message with all its fragments in their order, *)
(* messages come in the order of sending and at most once, and a message   *)
(* that lost a packet never comes: what the fragmenter and the network     *)
(* between its ends do is what MessageLink allows, for every size of       *)
(* packets and messages and every number of sequence numbers.              *)
THEOREM MessagesWholeAndInOrder ==
  ASSUME ShortMessages, InOrder
  PROVE  Spec => ImplementsMessageLink
<1>1. Init => Link!Init
  <2> SUFFICES ASSUME Init
               PROVE  Link!Init
    OBVIOUS
  <2>1. FragmenterInv /\ delivered = <<>> /\ net = <<>> /\ sending = None
    BY InitHolds DEF Init
  <2>2. Delivered = None
    BY <2>1 DEF Delivered, DeliveredMessage
  <2>3. PICK q : q = Coming
    OBVIOUS
  <2>4. q = <<>> /\ q \in Seq(Packet)
    BY <2>1, <2>3, ComingShape DEF FragmenterInv
  <2>5. \A m : ~Carries(q, m)
    BY <2>4 DEF Carries
  <2>6. Flight = {}
    BY <2>3, <2>4, <2>5, FlightIs, FlyingShape
  <2>7. Order = {}
    BY <2>6 DEF Order
  <2>8. QED
    BY <2>2, <2>6, <2>7 DEF Link!Init
<1>2. FragmenterInv /\ FragmenterInv' /\ [Next]_vars => [Link!Next]_(Link!vars)
  BY StepIsLink
<1>3. Spec => []FragmenterInv
  BY FragmenterInvariant
<1>4. QED
  BY <1>1, <1>2, <1>3, PTL DEF Spec, ImplementsMessageLink, Link!Spec
=============================================================================
