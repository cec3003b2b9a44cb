------------------- MODULE AthenaTransportLinkModuleProofs --------------------
(***************************************************************************)
(* What is proved of the links' modules.                                   *)
(*                                                                         *)
(* TCP (AthenaStreamLink): the types for any sockets, and that what is     *)
(* handed up is whole and in order when the sockets make the thread wait,  *)
(* wherever writes and reads cut the stream.                               *)
(*                                                                         *)
(* UDP and Ethernet (AthenaDatagramLinks): the types, and that the peers   *)
(* of a listener are kept apart, each in its order, while memory that the  *)
(* table still has is not used again.                                      *)
(*                                                                         *)
(* The definitions of the two have different names, so that a theorem      *)
(* states the property that a run of its module checks.                    *)
(***************************************************************************)
EXTENDS AthenaStreamLink, AthenaDatagramLinks, FiniteSetTheorems, SequenceTheorems, TLAPS

(***************************************************************************)
(* The two ends and the sizes                                              *)
(***************************************************************************)
LEMMA TwoEnds ==
  ASSUME NEW e \in End
  PROVE  /\ Other(e) \in End /\ Other(e) # e /\ Other(Other(e)) = e
         /\ \A f \in End : f = e \/ f = Other(e)
<1>1. IsFiniteSet(End) /\ Cardinality(End) = 2
  BY StreamAssumption
<1>2. PICK g : g \in Bijection(1..2, End)
  BY <1>1, FS_CardinalityType DEF ExistsBijection
<1>3. /\ g[1] \in End /\ g[2] \in End /\ g[1] # g[2]
      /\ \A f \in End : f = g[1] \/ f = g[2]
  <2>1. g \in [1..2 -> End] /\ (\A a, b \in 1..2 : g[a] = g[b] => a = b) /\ \A f \in End : \E a \in 1..2 : g[a] = f
    BY <1>2 DEF Bijection, Injection, Surjection, IsInjective
  <2>2. 1 \in 1..2 /\ 2 \in 1..2 /\ \A a \in 1..2 : a = 1 \/ a = 2
    OBVIOUS
  <2>3. QED
    BY <2>1, <2>2
<1>4. \A x \in End : Other(x) \in End /\ Other(x) # x
  <2> SUFFICES ASSUME NEW x \in End
               PROVE  \E f \in End : f # x
    BY DEF Other
  <2>1. QED
    BY <1>3
<1>5. QED
  BY <1>3, <1>4

LEMMA Sizes ==
  /\ Header \in Nat \ {0} /\ Messages \in Nat /\ Messages > Window + 1 /\ Window \in Nat \ {0}
  /\ Max(Size) \in Nat
  /\ \A s \in Size : s \in Nat /\ s > Header /\ s <= Max(Size)
<1>1. \E x \in Size : \A y \in Size : x >= y
  BY StreamAssumption
<1>2. Max(Size) \in Size /\ \A y \in Size : Max(Size) >= y
  BY <1>1 DEF Max
<1>3. QED
  BY <1>2, StreamAssumption

(***************************************************************************)
(* Types                                                                   *)
(***************************************************************************)
Reading(p, g, n) ==
  /\ p = "header" => Len(g) < Header
  /\ p = "body" => Len(g) >= Header /\ Len(g) + n \in Size

TypeInv == TypeOK /\ \A e \in End : Reading(pc[e], got[e], need[e])

LEMMA Piece ==
  ASSUME NEW s \in Seq(Unit), NEW m \in Nat \ {0}, NEW n \in Nat, n <= Len(s)
  PROVE  /\ SubSeq(s, m, n) \in Seq(Unit) /\ Len(SubSeq(s, m, n)) = IF m <= n THEN n - m + 1 ELSE 0
         /\ \A i \in 1..n - m + 1 : SubSeq(s, m, n)[i] = s[m + i - 1]
<1>1. \A i \in m..n : s[i] \in Unit
  BY ElementOfSeq
<1>2. QED
  BY <1>1, SubSeqProperties

LEMMA UnitsOf ==
  ASSUME NEW m \in 0..Messages - 1, NEW size \in Size
  PROVE  /\ Units(m, size) \in Seq(Unit) /\ Len(Units(m, size)) = size
         /\ \A i \in 1..size : Units(m, size)[i] = [msg |-> m, size |-> size, place |-> i]
<1>1. size \in Nat
  BY Sizes
<1>2. \A i \in 1..size : [msg |-> m, size |-> size, place |-> i] \in Unit
  BY DEF Unit
<1>3. Units(m, size) \in [1..size -> Unit]
  BY <1>2 DEF Units
<1>4. QED
  BY <1>1, <1>3 DEF Units

LEMMA StatedIn ==
  ASSUME NEW units
  PROVE  Stated(units) \subseteq Size \cup {0}
<1>1. CASE \E m \in 0..Messages - 1, s \in Size : units = SubSeq(Units(m, s), 1, Header)
  <2>1. PICK m \in 0..Messages - 1, s \in Size : units = SubSeq(Units(m, s), 1, Header)
    BY <1>1
  <2>2. Header \in Nat /\ s \in Nat /\ 1 <= Header /\ Header <= s /\ 1 \in 1..s
    BY Sizes
  <2>3. Units(m, s) \in Seq(Unit) /\ Len(Units(m, s)) = s /\ Units(m, s)[1].size = s
    <3>1. Units(m, s) \in Seq(Unit) /\ Len(Units(m, s)) = s
      BY UnitsOf
    <3>2. Units(m, s)[1] = [msg |-> m, size |-> s, place |-> 1]
      BY <2>2, UnitsOf
    <3>3. QED
      BY <3>1, <3>2
  <2>4. units[1].size = s
    <3>1. 1 \in 1..Header - 1 + 1 /\ 1 + 1 - 1 = 1 /\ 1 \in Nat \ {0}
      BY <2>2
    <3>2. units[1] = Units(m, s)[1]
      BY <2>1, <2>2, <2>3, <3>1, Piece
    <3>3. QED
      BY <2>3, <3>2
  <2>5. Stated(units) = {s}
    BY <1>1, <2>4 DEF Stated
  <2>6. QED
    BY <2>5
<1>2. CASE ~\E m \in 0..Messages - 1, s \in Size : units = SubSeq(Units(m, s), 1, Header)
  BY <1>2 DEF Stated
<1>3. QED
  BY <1>1, <1>2

LEMMA Typed ==
  ASSUME TypeOK, NEW e \in End
  PROVE  /\ out[e] \in Seq(Unit) /\ got[e] \in Seq(Unit) /\ stream[e] \in Seq(Unit) /\ given[e] \in Seq(Unit)
         /\ Len(out[e]) \in Nat /\ Len(got[e]) \in Nat /\ Len(stream[e]) \in Nat
         /\ need[e] \in 0..Max(Size) - Header /\ need[e] \in Nat /\ sent[e] \in 0..Messages - 1
         /\ Room[e] \in Nat /\ Len(stream[e]) <= Room[e] /\ Left(e) \in Nat /\ Left(e) = Room[e] - Len(stream[e])
<1>1. /\ out[e] \in Seq(Unit) /\ got[e] \in Seq(Unit) /\ stream[e] \in Seq(Unit) /\ given[e] \in Seq(Unit)
      /\ need[e] \in 0..Max(Size) - Header /\ sent[e] \in 0..Messages - 1 /\ Len(stream[e]) <= Room[e]
  BY DEF TypeOK
<1>2. Room[e] \in Nat /\ Header \in Nat /\ Max(Size) \in Nat
  BY StreamAssumption, Sizes
<1>3. Len(out[e]) \in Nat /\ Len(got[e]) \in Nat /\ Len(stream[e]) \in Nat
  BY <1>1
<1>4. QED
  BY <1>1, <1>2, <1>3 DEF Left

LEMMA SendTypes ==
  ASSUME TypeInv, NEW e \in End, NEW size \in Size, Send(e, size)
  PROVE  TypeInv'
<1>1. /\ pc' = [pc EXCEPT ![e] = "write"] /\ out' = [out EXCEPT ![e] = Units(sent[e], size)]
      /\ sent' = [sent EXCEPT ![e] = (@ + 1) % Messages] /\ UNCHANGED <<got, need, stream, given, error>>
  BY DEF Send
<1>2. Units(sent[e], size) \in Seq(Unit) /\ sent[e] \in Nat
  BY UnitsOf, Typed DEF TypeInv
<1>3. (sent[e] + 1) % Messages \in 0..Messages - 1
  BY <1>2, Sizes
<1>4. TypeOK'
  BY <1>1, <1>2, <1>3 DEF TypeInv, TypeOK
<1>5. \A f \in End : Reading(pc'[f], got'[f], need'[f])
  BY <1>1 DEF TypeInv, TypeOK, Reading
<1>6. QED
  BY <1>4, <1>5 DEF TypeInv

LEMMA WriteTypes ==
  ASSUME TypeInv, NEW e \in End, Write(e)
  PROVE  TypeInv'
<1>1. PICK n : /\ n = Least(Left(e), Len(out[e]))
               /\ stream' = [stream EXCEPT ![e] = @ \o SubSeq(out[e], 1, n)]
               /\ out' = [out EXCEPT ![e] = SubSeq(out[e], n + 1, Len(out[e]))]
               /\ pc' = [pc EXCEPT ![e] = IF out'[e] = <<>> THEN "idle" ELSE "write"]
               /\ UNCHANGED <<got, need, given, sent, error>>
  BY DEF Write, Remainder
<1>2. /\ n \in Nat /\ n <= Len(out[e]) /\ n <= Left(e) /\ n + 1 \in Nat \ {0}
      /\ Left(e) = Room[e] - Len(stream[e]) /\ Room[e] \in Nat
  BY <1>1, Typed DEF Least, TypeInv
<1>3. /\ out[e] \in Seq(Unit) /\ stream[e] \in Seq(Unit) /\ Len(out[e]) \in Nat /\ Len(stream[e]) \in Nat
  BY Typed DEF TypeInv
<1>4. SubSeq(out[e], 1, n) \in Seq(Unit) /\ Len(SubSeq(out[e], 1, n)) = n
  BY <1>2, <1>3, Piece
<1>5. SubSeq(out[e], n + 1, Len(out[e])) \in Seq(Unit)
  BY <1>2, <1>3, Piece
<1>6. /\ stream[e] \o SubSeq(out[e], 1, n) \in Seq(Unit)
      /\ Len(stream[e] \o SubSeq(out[e], 1, n)) <= Room[e]
  <2>1. /\ stream[e] \o SubSeq(out[e], 1, n) \in Seq(Unit)
        /\ Len(stream[e] \o SubSeq(out[e], 1, n)) = Len(stream[e]) + n
    BY <1>3, <1>4, ConcatProperties
  <2>2. Len(stream[e]) \in Nat /\ Len(stream[e]) + n <= Room[e]
    BY <1>2, <1>3
  <2>3. QED
    BY <2>1, <2>2
<1>7. TypeOK'
  BY <1>1, <1>5, <1>6 DEF TypeInv, TypeOK
<1>8. \A f \in End : Reading(pc'[f], got'[f], need'[f])
  BY <1>1 DEF TypeInv, TypeOK, Reading
<1>9. QED
  BY <1>7, <1>8 DEF TypeInv

LEMMA WriteFailsTypes ==
  ASSUME TypeInv, NEW e \in End, WriteFails(e)
  PROVE  TypeInv'
<1>1. /\ error' \in {error, error \cup {e}} /\ out' = [out EXCEPT ![e] = <<>>]
      /\ pc' = [pc EXCEPT ![e] = "idle"] /\ UNCHANGED <<got, need, stream, given, sent>>
  BY DEF WriteFails
<1>2. <<>> \in Seq(Unit)
  BY EmptySeq
<1>3. TypeOK'
  BY <1>1, <1>2 DEF TypeInv, TypeOK
<1>4. \A f \in End : Reading(pc'[f], got'[f], need'[f])
  BY <1>1 DEF TypeInv, TypeOK, Reading
<1>5. QED
  BY <1>3, <1>4 DEF TypeInv

LEMMA BeginReadTypes ==
  ASSUME TypeInv, NEW e \in End, BeginRead(e)
  PROVE  TypeInv'
<1>1. /\ pc' = [pc EXCEPT ![e] = "header"] /\ got' = [got EXCEPT ![e] = <<>>]
      /\ UNCHANGED <<out, need, stream, given, sent, error>>
  BY DEF BeginRead
<1>2. <<>> \in Seq(Unit) /\ Len(<<>>) = 0 /\ 0 < Header
  BY EmptySeq, Sizes
<1>3. TypeOK'
  BY <1>1, <1>2 DEF TypeInv, TypeOK
<1>4. \A f \in End : Reading(pc'[f], got'[f], need'[f])
  BY <1>1, <1>2 DEF TypeInv, TypeOK, Reading
<1>5. QED
  BY <1>3, <1>4 DEF TypeInv

(* What an end takes off the stream.                                       *)
LEMMA TakeTypes ==
  ASSUME TypeInv, NEW e \in End, NEW n \in Nat, n <= Len(Input(e))
  PROVE  /\ SubSeq(Input(e), 1, n) \in Seq(Unit) /\ Len(SubSeq(Input(e), 1, n)) = n
         /\ got[e] \o SubSeq(Input(e), 1, n) \in Seq(Unit)
         /\ Len(got[e] \o SubSeq(Input(e), 1, n)) = Len(got[e]) + n
         /\ LET s == [stream EXCEPT ![Other(e)] = SubSeq(@, n + 1, Len(@))]
            IN s \in [End -> Seq(Unit)] /\ \A f \in End : Len(s[f]) <= Room[f]
<1> DEFINE o == Other(e)
           s == [stream EXCEPT ![o] = SubSeq(@, n + 1, Len(@))]
<1>1. o \in End
  BY TwoEnds
<1>2. /\ stream[o] \in Seq(Unit) /\ Len(stream[o]) \in Nat /\ Len(stream[o]) <= Room[o] /\ Room[o] \in Nat
      /\ got[e] \in Seq(Unit) /\ Len(got[e]) \in Nat
  BY <1>1, Typed DEF TypeInv
<1>3. Input(e) = stream[o]
  BY DEF Input
<1>4. SubSeq(Input(e), 1, n) \in Seq(Unit) /\ Len(SubSeq(Input(e), 1, n)) = n
  BY <1>2, <1>3, Piece
<1>5. n + 1 \in Nat \ {0}
  OBVIOUS
<1>6. /\ SubSeq(stream[o], n + 1, Len(stream[o])) \in Seq(Unit)
      /\ Len(SubSeq(stream[o], n + 1, Len(stream[o])))
           = IF n + 1 <= Len(stream[o]) THEN Len(stream[o]) - (n + 1) + 1 ELSE 0
  BY <1>2, <1>5, Piece
<1>7. Len(SubSeq(stream[o], n + 1, Len(stream[o]))) <= Room[o]
  BY <1>2, <1>6
<1>8. s \in [End -> Seq(Unit)] /\ \A f \in End : Len(s[f]) <= Room[f]
  BY <1>1, <1>6, <1>7 DEF TypeInv, TypeOK
<1>9. QED
  BY <1>2, <1>4, <1>8, ConcatProperties

LEMMA ReadHeaderTypes ==
  ASSUME TypeInv, NEW e \in End, ReadHeader(e)
  PROVE  TypeInv'
<1> DEFINE o == Other(e)
           h == HeaderMissing(e)
<1>1. /\ o \in End /\ stream[o] \in Seq(Unit) /\ Input(e) = stream[o]
      /\ Len(Input(e)) \in Nat /\ Len(got[e]) \in Nat /\ Header \in Nat \ {0} /\ got[e] \in Seq(Unit)
  BY TwoEnds, Typed, Sizes DEF TypeInv, Input
<1>2. pc[e] = "header" /\ Len(got[e]) < Header /\ UNCHANGED <<out, given, sent, error>>
  BY DEF ReadHeader, TypeInv, Reading
<1>3. h \in Nat /\ h > 0 /\ Len(got[e]) + h = Header
  BY <1>1, <1>2 DEF HeaderMissing
<1>4. CASE Len(Input(e)) < h /\ Take(e, Len(Input(e))) /\ UNCHANGED <<pc, need>>
  <2> DEFINE n == Len(Input(e))
  <2>1. n \in Nat /\ n <= Len(Input(e)) /\ Len(got[e]) + n < Header
    <3>1. n \in Nat /\ n < h /\ h \in Nat /\ Len(got[e]) \in Nat /\ Len(got[e]) + h = Header
      BY <1>1, <1>3, <1>4
    <3> HIDE DEF h, n
    <3>2. Len(got[e]) + n < Header
      BY <3>1
    <3>3. n = Len(Input(e))
      BY DEF n
    <3>4. QED
      BY <3>1, <3>2, <3>3
  <2>2. /\ got' = [got EXCEPT ![e] = @ \o SubSeq(Input(e), 1, n)]
        /\ stream' = [stream EXCEPT ![o] = SubSeq(@, n + 1, Len(@))]
    BY <1>4 DEF Take
  <2> HIDE DEF n
  <2>3. /\ got[e] \o SubSeq(Input(e), 1, n) \in Seq(Unit)
        /\ Len(got[e] \o SubSeq(Input(e), 1, n)) = Len(got[e]) + n
        /\ stream' \in [End -> Seq(Unit)] /\ \A f \in End : Len(stream'[f]) <= Room[f]
    BY <2>1, <2>2, TakeTypes
  <2>4. TypeOK'
    BY <1>2, <1>4, <2>2, <2>3 DEF TypeInv, TypeOK
  <2>5. \A f \in End : Reading(pc'[f], got'[f], need'[f])
    BY <1>2, <1>4, <2>1, <2>2, <2>3 DEF TypeInv, TypeOK, Reading
  <2>6. QED
    BY <2>4, <2>5 DEF TypeInv
<1>5. ASSUME NEW size \in Stated(got[e] \o SubSeq(Input(e), 1, h)), h <= Len(Input(e)),
             IF size = 0 THEN Flush(e) ELSE BeginBody(e, size)
      PROVE  TypeInv'
  <2>1. CASE size = 0
    <3>1. /\ stream' = [stream EXCEPT ![o] = <<>>] /\ got' = [got EXCEPT ![e] = <<>>]
          /\ pc' = [pc EXCEPT ![e] = "idle"] /\ UNCHANGED need
      BY <1>5, <2>1 DEF Flush
    <3>2. <<>> \in Seq(Unit) /\ Len(<<>>) = 0 /\ Len(<<>>) <= Room[o]
      BY <1>1, EmptySeq, Typed DEF TypeInv
    <3>3. TypeOK'
      BY <1>1, <1>2, <3>1, <3>2 DEF TypeInv, TypeOK
    <3>4. \A f \in End : Reading(pc'[f], got'[f], need'[f])
      BY <3>1 DEF TypeInv, TypeOK, Reading
    <3>5. QED
      BY <3>3, <3>4 DEF TypeInv
  <2>2. CASE size # 0
    <3>1. size \in Size
      BY <1>5, <2>2, StatedIn
    <3>2. size - Header \in 0..Max(Size) - Header /\ size - Header \in Nat /\ Header + (size - Header) = size
      BY <3>1, Sizes
    <3>3. /\ got' = [got EXCEPT ![e] = @ \o SubSeq(Input(e), 1, h)]
          /\ stream' = [stream EXCEPT ![o] = SubSeq(@, h + 1, Len(@))]
          /\ pc' = [pc EXCEPT ![e] = "body"] /\ need' = [need EXCEPT ![e] = size - Header]
      BY <1>5, <2>2 DEF BeginBody, Take, BodySize
    <3> HIDE DEF h
    <3>4. /\ got[e] \o SubSeq(Input(e), 1, h) \in Seq(Unit)
          /\ Len(got[e] \o SubSeq(Input(e), 1, h)) = Header
          /\ stream' \in [End -> Seq(Unit)] /\ \A f \in End : Len(stream'[f]) <= Room[f]
      BY <1>3, <1>5, <3>3, TakeTypes
    <3>5. TypeOK'
      BY <1>2, <3>2, <3>3, <3>4 DEF TypeInv, TypeOK
    <3>6. \A f \in End : Reading(pc'[f], got'[f], need'[f])
      <4>1. /\ pc'[e] = "body" /\ need'[e] = size - Header
            /\ Len(got'[e]) = Header /\ Header >= Header
        BY <1>1, <3>3, <3>4 DEF TypeInv, TypeOK
      <4>2. Reading(pc'[e], got'[e], need'[e])
        BY <3>1, <3>2, <4>1 DEF Reading
      <4>3. \A f \in End : f # e => pc'[f] = pc[f] /\ got'[f] = got[f] /\ need'[f] = need[f]
        BY <3>3 DEF TypeInv, TypeOK
      <4>4. QED
        BY <4>2, <4>3 DEF TypeInv
    <3>7. QED
      BY <3>5, <3>6 DEF TypeInv
  <2>3. QED
    BY <2>1, <2>2
<1>6. QED
  BY <1>1, <1>3, <1>4, <1>5 DEF ReadHeader

LEMMA ReadBodyTypes ==
  ASSUME TypeInv, NEW e \in End, ReadBody(e)
  PROVE  TypeInv'
<1> DEFINE o == Other(e)
<1>1. /\ o \in End /\ stream[o] \in Seq(Unit) /\ Input(e) = stream[o] /\ need[e] \in Nat
      /\ Len(Input(e)) \in Nat /\ Len(got[e]) \in Nat /\ Header \in Nat \ {0} /\ got[e] \in Seq(Unit)
  BY TwoEnds, Typed, Sizes DEF TypeInv, Input
<1>2. PICK n : n = Wanted(e)
  OBVIOUS
<1>3. n \in Nat /\ n <= need[e] /\ n <= Len(Input(e))
  BY <1>1, <1>2 DEF Wanted, Least
<1>4. /\ pc[e] = "body" /\ n > 0 /\ UNCHANGED <<out, sent, error>>
      /\ need' = [need EXCEPT ![e] = IF n < @ THEN @ - n ELSE 0]
      /\ IF n < need[e]
          THEN Take(e, n) /\ UNCHANGED <<pc, given>>
          ELSE /\ given' = [given EXCEPT ![o] = got[e] \o SubSeq(Input(e), 1, n)]
               /\ stream' = [stream EXCEPT ![o] = SubSeq(@, n + 1, Len(@))]
               /\ got' = [got EXCEPT ![e] = <<>>]
               /\ pc' = [pc EXCEPT ![e] = "idle"]
  BY <1>2 DEF ReadBody
<1>5. Len(got[e]) >= Header /\ Len(got[e]) + need[e] \in Size /\ need[e] \in 0..Max(Size) - Header
  BY <1>4, Typed DEF TypeInv, Reading
<1>6. need' \in [End -> 0..Max(Size) - Header]
  <2>1. (IF n < need[e] THEN need[e] - n ELSE 0) \in 0..Max(Size) - Header
    BY <1>1, <1>3, <1>5, Sizes
  <2>2. QED
    BY <1>4, <2>1 DEF TypeInv, TypeOK
<1>7. /\ got[e] \o SubSeq(Input(e), 1, n) \in Seq(Unit)
      /\ Len(got[e] \o SubSeq(Input(e), 1, n)) = Len(got[e]) + n
      /\ stream' = [stream EXCEPT ![o] = SubSeq(@, n + 1, Len(@))]
      /\ stream' \in [End -> Seq(Unit)] /\ \A f \in End : Len(stream'[f]) <= Room[f]
  <2>1. stream' = [stream EXCEPT ![o] = SubSeq(@, n + 1, Len(@))]
    BY <1>4 DEF Take
  <2>2. QED
    BY <1>3, <2>1, TakeTypes
<1>8. CASE n < need[e]
  <2>1. got' = [got EXCEPT ![e] = @ \o SubSeq(Input(e), 1, n)] /\ UNCHANGED <<pc, given>>
    BY <1>4, <1>8 DEF Take
  <2>2. TypeOK'
    BY <1>4, <1>6, <1>7, <2>1 DEF TypeInv, TypeOK
  <2>3. /\ need' = [need EXCEPT ![e] = need[e] - n]
        /\ (Len(got[e]) + n) + (need[e] - n) = Len(got[e]) + need[e]
        /\ Len(got[e]) + n >= Header
    <3>1. need' = [need EXCEPT ![e] = need[e] - n]
      BY <1>4, <1>8
    <3>2. Len(got[e]) \in Nat /\ n \in Nat /\ need[e] \in Nat /\ Len(got[e]) >= Header /\ Header \in Nat
      BY <1>1, <1>3, <1>5
    <3>3. QED
      BY <3>1, <3>2
  <2>4. \A f \in End : Reading(pc'[f], got'[f], need'[f])
    BY <1>4, <1>5, <1>7, <2>1, <2>3 DEF TypeInv, TypeOK, Reading
  <2>5. QED
    BY <2>2, <2>4 DEF TypeInv
<1>9. CASE ~(n < need[e])
  <2>1. <<>> \in Seq(Unit)
    BY EmptySeq
  <2>2. TypeOK'
    <3>1. /\ pc' \in [End -> {"idle", "write", "header", "body", "closed"}]
          /\ got' \in [End -> Seq(Unit)] /\ need' = [need EXCEPT ![e] = 0]
      BY <1>4, <1>9, <2>1, ZenonT(30) DEF TypeInv, TypeOK
    <3>2. given' \in [End -> Seq(Unit)]
      BY <1>1, <1>4, <1>7, <1>9, ZenonT(30) DEF TypeInv, TypeOK
    <3>3. UNCHANGED <<out, sent, error>> /\ TypeOK
      BY <1>4 DEF TypeInv
    <3>4. QED
      BY <1>6, <1>7, <3>1, <3>2, <3>3 DEF TypeOK
  <2>3. \A f \in End : Reading(pc'[f], got'[f], need'[f])
    BY <1>4, <1>9 DEF TypeInv, TypeOK, Reading
  <2>4. QED
    BY <2>2, <2>3 DEF TypeInv
<1>10. QED
  BY <1>8, <1>9

LEMMA ReadNothingTypes ==
  ASSUME TypeInv, NEW e \in End, ReadNothing(e)
  PROVE  TypeInv'
<1>1. /\ got[e] \in Seq(Unit) /\ Len(got[e]) \in Nat /\ need[e] \in 0..Max(Size) - Header /\ need[e] \in Nat
      /\ Header \in Nat \ {0} /\ Max(Size) \in Nat
  BY Typed, Sizes DEF TypeInv
<1>2. /\ pc[e] \in {"header", "body"} /\ error' \in {error, error \cup {e}} /\ UNCHANGED <<out, stream, given, sent>>
  BY DEF ReadNothing
<1>3. CASE GiveUp(e)
  <2>1. /\ pc' = [pc EXCEPT ![e] = "idle"] /\ got' = [got EXCEPT ![e] = <<>>] /\ need' = [need EXCEPT ![e] = 0]
    BY <1>3 DEF GiveUp
  <2>2. <<>> \in Seq(Unit) /\ 0 \in 0..Max(Size) - Header
    BY <1>1, EmptySeq
  <2>3. TypeOK'
    BY <1>2, <2>1, <2>2 DEF TypeInv, TypeOK
  <2>4. \A f \in End : Reading(pc'[f], got'[f], need'[f])
    BY <2>1 DEF TypeInv, TypeOK, Reading
  <2>5. QED
    BY <2>3, <2>4 DEF TypeInv
<1>4. CASE ~(Ended(e) \/ Len(got[e]) <= Header)
  <2>1. /\ got' = [got EXCEPT ![e] = SubSeq(got[e], 1, Len(got[e]) - 1)]
        /\ need' = [need EXCEPT ![e] = need[e] + 1] /\ UNCHANGED pc
    BY <1>4 DEF ReadNothing, Front
  <2>2. pc[e] = "body" /\ Len(got[e]) + need[e] \in Size
    BY <1>1, <1>2, <1>4 DEF TypeInv, Reading
  <2>3. /\ Len(got[e]) - 1 \in Nat /\ Len(got[e]) - 1 >= Header /\ Len(got[e]) - 1 <= Len(got[e])
        /\ (Len(got[e]) - 1) + (need[e] + 1) = Len(got[e]) + need[e]
        /\ need[e] + 1 \in 0..Max(Size) - Header
    <3>1. Len(got[e]) \in Nat /\ need[e] \in Nat /\ Header \in Nat /\ Max(Size) \in Nat /\ Header < Len(got[e])
      BY <1>1, <1>4
    <3>2. Len(got[e]) + need[e] <= Max(Size)
      BY <2>2, Sizes
    <3>3. QED
      BY ONLY <3>1, <3>2, SMTT(20)
  <2>4. /\ SubSeq(got[e], 1, Len(got[e]) - 1) \in Seq(Unit)
        /\ Len(SubSeq(got[e], 1, Len(got[e]) - 1)) = Len(got[e]) - 1
    <3>1. /\ SubSeq(got[e], 1, Len(got[e]) - 1) \in Seq(Unit)
          /\ Len(SubSeq(got[e], 1, Len(got[e]) - 1))
               = IF 1 <= Len(got[e]) - 1 THEN (Len(got[e]) - 1) - 1 + 1 ELSE 0
      BY <1>1, <2>3, Piece
    <3>2. QED
      BY <1>1, <2>3, <3>1
  <2>5. TypeOK'
    BY <1>2, <2>1, <2>3, <2>4 DEF TypeInv, TypeOK
  <2>6. \A f \in End : Reading(pc'[f], got'[f], need'[f])
    BY <2>1, <2>2, <2>3, <2>4 DEF TypeInv, TypeOK, Reading
  <2>7. QED
    BY <2>5, <2>6 DEF TypeInv
<1>5. QED
  BY <1>3, <1>4 DEF ReadNothing

LEMMA CloseTypes ==
  ASSUME TypeInv, NEW e \in End, Close(e)
  PROVE  TypeInv'
<1>1. /\ pc' = [pc EXCEPT ![e] = "closed"] /\ error' = error \ {e} /\ UNCHANGED <<out, got, need, given, sent>>
  BY DEF Close
<1>2. PICK reset : stream' = [f \in End |-> IF f = e /\ ~reset THEN stream[e] ELSE <<>>]
  BY DEF Close
<1>3. <<>> \in Seq(Unit) /\ Len(<<>>) = 0 /\ \A f \in End : 0 <= Room[f]
  BY EmptySeq, Typed DEF TypeInv
<1>4. TypeOK'
  BY <1>1, <1>2, <1>3 DEF TypeInv, TypeOK
<1>5. \A f \in End : Reading(pc'[f], got'[f], need'[f])
  BY <1>1 DEF TypeInv, TypeOK, Reading
<1>6. QED
  BY <1>4, <1>5 DEF TypeInv

LEMMA TypesInit == Init => TypeInv
<1> SUFFICES ASSUME Init
             PROVE  TypeInv
  OBVIOUS
<1>1. <<>> \in Seq(Unit) /\ Len(<<>>) = 0 /\ 0 \in 0..Max(Size) - Header /\ 0 \in 0..Messages - 1
  BY EmptySeq, Sizes, StreamAssumption
<1>2. \A e \in End : 0 <= Room[e]
  BY StreamAssumption
<1>3. TypeOK
  BY <1>1, <1>2 DEF Init, TypeOK
<1>4. \A e \in End : Reading(pc[e], got[e], need[e])
  BY DEF Init, Reading
<1>5. QED
  BY <1>3, <1>4 DEF TypeInv

LEMMA TypesKept ==
  ASSUME TypeInv, [Next]_vars
  PROVE  TypeInv'
<1>1. CASE UNCHANGED vars
  BY <1>1 DEF vars, TypeInv, TypeOK
<1>2. ASSUME NEW e \in End, Receive(e)
      PROVE  TypeInv'
  BY <1>2, ReadHeaderTypes, ReadBodyTypes, ReadNothingTypes DEF Receive
<1>3. ASSUME NEW e \in End, CloseMarked(e) \/ (e \notin error /\ Close(e))
      PROVE  TypeInv'
  BY <1>3, CloseTypes DEF CloseMarked
<1>4. QED
  BY <1>1, <1>2, <1>3, SendTypes, WriteTypes, WriteFailsTypes, BeginReadTypes DEF Next

(* The types, for any sockets: the counters of a read stay within the      *)
(* message, also where a result of -1 is added to what was read            *)
(* (_TCPReceive, _writeLink).                                              *)
THEOREM StreamTypeCorrect == Spec => []TypeOK
<1>1. TypeInv => TypeOK
  BY DEF TypeInv
<1>2. TypeInv /\ [Next]_vars => TypeInv'
  BY TypesKept
<1>3. QED
  BY <1>1, <1>2, TypesInit, PTL DEF Spec

(***************************************************************************)
(* Frames.  The age of a message is how many its end has begun since: one  *)
(* for the newest.                                                         *)
(***************************************************************************)
Age(s, m) == (s - m) % Messages

(* What is on the way consists of messages, each from its first unit on,   *)
(* of which the older come first.                                          *)
Ordered(q, s) ==
  /\ \A i \in 1..Len(q) :
       /\ q[i].place <= q[i].size
       /\ Age(s, q[i].msg) \in 1..Window
       /\ q[i].place <= i /\ q[i - q[i].place + 1].msg = q[i].msg
  /\ \A i, j \in 1..Len(q) : i < j =>
       \/ Age(s, q[j].msg) < Age(s, q[i].msg)
       \/ /\ q[j].msg = q[i].msg /\ q[j].size = q[i].size
          /\ q[j].place = q[i].place + (j - i)

(* The last of them is there up to its last unit.                          *)
Complete(q) ==
  \A i \in 1..Len(q) :
    LET last == i + (q[i].size - q[i].place)
    IN last <= Len(q) /\ q[last].msg = q[i].msg

(* No message between two others is missing.                               *)
Gapless(q, s) ==
  \A i \in 1..Len(q) : \A a \in 1..Age(s, q[i].msg) : \E j \in 1..Len(q) : Age(s, q[j].msg) = a

(* An end that reads has the beginning of one message.                     *)
Beginning(g) ==
  \A i \in 1..Len(g) : Len(g) < g[i].size /\ g[i] = [msg |-> g[1].msg, size |-> g[1].size, place |-> i]

ReadInv(p, g, n) ==
  /\ p \notin {"header", "body"} => g = <<>>
  /\ p = "header" => Len(g) < Header
  /\ p = "body" => Len(g) >= Header /\ n > 0 /\ g[1].size = Len(g) + n
  /\ Beginning(g)

Line(e) == got[Other(e)] \o stream[e] \o out[e]

LineInv(e) ==
  /\ pc[e] # "write" => out[e] = <<>>
  /\ Open(Other(e)) =>
       /\ Ordered(Line(e), sent[e])
       /\ Open(e) \/ stream[e] # <<>> => Complete(Line(e))
       /\ Open(e) => Gapless(Line(e), sent[e])

StreamInv ==
  TypeInv /\ \A e \in End : ReadInv(pc[e], got[e], need[e]) /\ LineInv(e)

(***************************************************************************)
(* Ages and frames                                                         *)
(***************************************************************************)
LEMMA Residue ==
  ASSUME NEW n \in Nat \ {0}, NEW a \in 0..n - 1, NEW b \in 0..n - 1
  PROVE  (a - b) % n = IF a < b THEN a - b + n ELSE a - b
  OBVIOUS

LEMMA NextNumber ==
  ASSUME NEW n \in Nat \ {0}, NEW a \in 0..n - 1
  PROVE  (a + 1) % n = IF a = n - 1 THEN 0 ELSE a + 1
  OBVIOUS

LEMMA Ages ==
  ASSUME NEW s \in 0..Messages - 1, NEW m \in 0..Messages - 1
  PROVE  /\ Age(s, m) = IF s < m THEN s - m + Messages ELSE s - m
         /\ Age(s, m) \in 0..Messages - 1 /\ Age(s, m) \in Nat
         /\ Age(s, s) = 0
         /\ (s + 1) % Messages \in 0..Messages - 1
         /\ Age((s + 1) % Messages, s) = 1
         /\ Age(s, m) <= Window => Age((s + 1) % Messages, m) = Age(s, m) + 1
<1> DEFINE t == (s + 1) % Messages
<1>1. Messages \in Nat \ {0} /\ Window \in Nat /\ Messages > Window + 1 /\ Messages > 1
  BY Sizes
<1>2. Age(s, m) = IF s < m THEN s - m + Messages ELSE s - m
  BY <1>1, Residue DEF Age
<1>3. t = IF s = Messages - 1 THEN 0 ELSE s + 1
  BY <1>1, NextNumber
<1> HIDE DEF t
<1>4. t \in 0..Messages - 1
  BY <1>1, <1>3
<1>5. Age(t, m) = IF t < m THEN t - m + Messages ELSE t - m
  BY <1>1, <1>4, Residue DEF Age
<1>6. Age(t, s) = IF t < s THEN t - s + Messages ELSE t - s
  BY <1>1, <1>4, Residue DEF Age
<1>7. Age(t, s) = 1
  BY <1>1, <1>3, <1>6
<1>8. Age(s, m) <= Window => Age(t, m) = Age(s, m) + 1
  BY <1>1, <1>2, <1>3, <1>5
<1>9. Age(s, s) = 0
  BY <1>1, Residue DEF Age
<1>10. QED
  BY <1>1, <1>2, <1>4, <1>7, <1>8, <1>9 DEF t

LEMMA SameAge ==
  ASSUME NEW s \in 0..Messages - 1, NEW a \in 0..Messages - 1, NEW b \in 0..Messages - 1,
         Age(s, a) = Age(s, b)
  PROVE  a = b
<1>1. Messages \in Nat
  BY Sizes
<1>2. /\ Age(s, a) = IF s < a THEN s - a + Messages ELSE s - a
      /\ Age(s, b) = IF s < b THEN s - b + Messages ELSE s - b
  BY Ages
<1>3. PICK x, y : x = Age(s, a) /\ y = Age(s, b)
  OBVIOUS
<1>4. /\ x = IF s < a THEN s - a + Messages ELSE s - a
      /\ y = IF s < b THEN s - b + Messages ELSE s - b
      /\ x = y
  BY <1>2, <1>3
<1>5. QED
  BY <1>1, <1>4

LEMMA UnitOf ==
  ASSUME NEW q \in Seq(Unit), NEW i \in 1..Len(q)
  PROVE  /\ q[i] \in Unit /\ q[i].msg \in 0..Messages - 1 /\ q[i].size \in Size
         /\ q[i].size \in Nat /\ q[i].place \in Nat \ {0}
         /\ q[i] = [msg |-> q[i].msg, size |-> q[i].size, place |-> q[i].place]
<1>1. q[i] \in Unit
  BY ElementOfSeq
<1>2. QED
  BY <1>1, Sizes DEF Unit

(* What comes first is a whole message.                                    *)
LEMMA FirstMessage ==
  ASSUME NEW q \in Seq(Unit), q # <<>>, NEW s \in 0..Messages - 1, Ordered(q, s), Complete(q)
  PROVE  /\ 1 \in 1..Len(q) /\ q[1].place = 1 /\ q[1].size \in 1..Len(q)
         /\ \A i \in 1..q[1].size : q[i] = [msg |-> q[1].msg, size |-> q[1].size, place |-> i]
         /\ \A i \in 1..Len(q) : i > q[1].size => Age(s, q[i].msg) < Age(s, q[1].msg)
<1>1. Len(q) \in Nat \ {0} /\ 1 \in 1..Len(q)
  BY EmptySeq
<1>2. q[1].size \in Nat /\ q[1].place \in Nat \ {0} /\ q[1].size > 0
  <2>1. q[1].size \in Size /\ q[1].place \in Nat \ {0}
    BY <1>1, UnitOf
  <2>2. QED
    BY <2>1, Sizes
<1>3. q[1].place <= 1 /\ q[1].place = 1
  BY <1>1, <1>2 DEF Ordered
<1>4. q[1].size <= Len(q) /\ q[q[1].size].msg = q[1].msg
  <2>1. LET last == 1 + (q[1].size - q[1].place)
        IN last <= Len(q) /\ q[last].msg = q[1].msg
    BY <1>1 DEF Complete
  <2>2. 1 + (q[1].size - q[1].place) = q[1].size
    BY <1>2, <1>3
  <2>3. QED
    BY <2>1, <2>2
<1>5. q[1].size \in 1..Len(q)
  BY <1>1, <1>2, <1>4
<1>6. ASSUME NEW i \in 1..q[1].size
      PROVE  q[i] = [msg |-> q[1].msg, size |-> q[1].size, place |-> i]
  <2>1. i \in 1..Len(q) /\ i \in Nat
    BY <1>1, <1>5
  <2>2. CASE i = 1
    BY <1>1, <1>3, <2>2, UnitOf
  <2>3. CASE i # 1
    <3>1. 1 < i
      BY <2>1, <2>3
    <3>2. \/ Age(s, q[i].msg) < Age(s, q[1].msg)
          \/ q[i].msg = q[1].msg /\ q[i].size = q[1].size /\ q[i].place = q[1].place + (i - 1)
      BY <1>1, <2>1, <3>1 DEF Ordered
    <3>3. ~(Age(s, q[i].msg) < Age(s, q[1].msg))
      <4>1. Age(s, q[i].msg) \in Nat /\ Age(s, q[1].msg) \in Nat
        BY <1>1, <2>1, UnitOf, Ages
      <4>2. CASE i = q[1].size
        BY <1>4, <4>1, <4>2
      <4>3. CASE i < q[1].size
        <5>1. \/ Age(s, q[q[1].size].msg) < Age(s, q[i].msg)
              \/ q[q[1].size].msg = q[i].msg
          BY <1>5, <2>1, <4>3 DEF Ordered
        <5>2. QED
          BY <1>4, <4>1, <5>1
      <4>4. QED
        BY <1>2, <2>1, <4>2, <4>3
    <3>4. q[i].msg = q[1].msg /\ q[i].size = q[1].size /\ q[i].place = i
      BY <1>3, <2>1, <3>2, <3>3
    <3>5. QED
      BY <2>1, <3>4, UnitOf
  <2>4. QED
    BY <2>2, <2>3
<1>7. ASSUME NEW i \in 1..Len(q), i > q[1].size
      PROVE  Age(s, q[i].msg) < Age(s, q[1].msg)
  <2>1. 1 < i /\ i \in Nat
    BY <1>2, <1>7
  <2>2. \/ Age(s, q[i].msg) < Age(s, q[1].msg)
        \/ q[i].msg = q[1].msg /\ q[i].size = q[1].size /\ q[i].place = q[1].place + (i - 1)
    BY <1>1, <2>1 DEF Ordered
  <2>3. q[i].place <= q[i].size
    BY DEF Ordered
  <2>4. QED
    BY <1>2, <1>3, <1>7, <2>1, <2>2, <2>3
<1>8. QED
  BY <1>1, <1>3, <1>5, <1>6, <1>7

LEMMA AgeOf ==
  ASSUME NEW q \in Seq(Unit), NEW s \in 0..Messages - 1, NEW i \in 1..Len(q)
  PROVE  /\ Age(s, q[i].msg) \in Nat
         /\ \A j \in 1..Len(q) : Age(s, q[j].msg) = Age(s, q[i].msg) => q[j].msg = q[i].msg
<1>1. q[i].msg \in 0..Messages - 1
  BY UnitOf
<1>2. \A j \in 1..Len(q) : q[j].msg \in 0..Messages - 1
  BY UnitOf
<1>3. QED
  BY <1>1, <1>2, Ages, SameAge

(* Without the first message.                                              *)
LEMMA WithoutFirst ==
  ASSUME NEW q \in Seq(Unit), q # <<>>, NEW s \in 0..Messages - 1, Ordered(q, s), Complete(q)
  PROVE  LET r == SubSeq(q, q[1].size + 1, Len(q))
         IN /\ r \in Seq(Unit) /\ Len(r) = Len(q) - q[1].size
            /\ \A i \in 1..Len(r) : i + q[1].size \in 1..Len(q) /\ r[i] = q[i + q[1].size]
            /\ Ordered(r, s) /\ Complete(r)
            /\ Gapless(q, s) => Gapless(r, s)
<1>0. PICK n : n = q[1].size
  OBVIOUS
<1> DEFINE r == SubSeq(q, n + 1, Len(q))
<1>1. Len(q) \in Nat /\ n \in 1..Len(q) /\ n \in Nat /\ n + 1 \in Nat \ {0}
  <2>1. Len(q) \in Nat /\ n \in 1..Len(q)
    BY <1>0, FirstMessage, EmptySeq
  <2>2. QED
    BY <2>1
<1>2. r \in Seq(Unit) /\ Len(r) = Len(q) - n /\ \A i \in 1..Len(r) : i + n \in 1..Len(q) /\ r[i] = q[i + n]
  <2>1. /\ r \in Seq(Unit) /\ Len(r) = IF n + 1 <= Len(q) THEN Len(q) - (n + 1) + 1 ELSE 0
        /\ \A i \in 1..Len(q) - (n + 1) + 1 : r[i] = q[(n + 1) + i - 1]
    <3>1. Len(q) <= Len(q)
      BY <1>1
    <3>2. QED
      BY <1>1, <3>1, Piece
  <2> HIDE DEF r
  <2>2. Len(r) = Len(q) - n
    BY <1>1, <2>1
  <2>3. \A i \in 1..Len(r) : i + n \in 1..Len(q) /\ i \in 1..Len(q) - (n + 1) + 1 /\ (n + 1) + i - 1 = i + n
    BY <1>1, <2>2
  <2>4. QED
    BY <2>1, <2>2, <2>3
<1>3. /\ \A i \in 1..n : q[i].msg = q[1].msg
      /\ \A i \in 1..Len(q) : i > n => Age(s, q[i].msg) < Age(s, q[1].msg)
  <2>1. \A i \in 1..Len(q) : i > n => Age(s, q[i].msg) < Age(s, q[1].msg)
    BY <1>0, FirstMessage
  <2>2. ASSUME NEW i \in 1..n
        PROVE  q[i].msg = q[1].msg
    <3>1. q[i] = [msg |-> q[1].msg, size |-> q[1].size, place |-> i]
      BY <1>0, FirstMessage
    <3>2. QED
      BY <3>1
  <2>3. QED
    BY <2>1, <2>2
<1>4. 1 \in 1..Len(q)
  BY <1>1
<1> HIDE DEF r
<1>5. \A i \in 1..Len(r) : Age(s, q[i + n].msg) < Age(s, q[1].msg)
  BY <1>1, <1>2, <1>3
<1>6. ASSUME NEW i \in 1..Len(r)
      PROVE  /\ r[i].place <= r[i].size /\ Age(s, r[i].msg) \in 1..Window
             /\ r[i].place <= i /\ r[i - r[i].place + 1].msg = r[i].msg
  <2>1. r[i] = q[i + n] /\ i + n \in 1..Len(q) /\ i \in Nat
    BY <1>2
  <2>a. PICK p : p = q[i + n].place
    OBVIOUS
  <2>b. p \in Nat \ {0}
    BY <2>1, <2>a, UnitOf
  <2>2. PICK k : k = (i + n) - p + 1
    OBVIOUS
  <2>3. /\ p <= q[i + n].size /\ Age(s, q[i + n].msg) \in 1..Window
        /\ p <= i + n /\ q[k].msg = q[i + n].msg
    BY <2>1, <2>a, <2>2 DEF Ordered
  <2>4. k \in 1..Len(q)
    BY <1>1, <2>1, <2>b, <2>2, <2>3
  <2>5. k > n
    <3>1. Age(s, q[i + n].msg) < Age(s, q[1].msg) /\ Age(s, q[1].msg) \in Nat
      BY <1>4, <1>5, AgeOf
    <3>2. Age(s, q[k].msg) # Age(s, q[1].msg)
      BY <2>1, <2>3, <3>1, AgeOf
    <3>3. k \notin 1..n
      BY <1>3, <3>2
    <3>4. QED
      BY <1>1, <2>4, <3>3
  <2>6. p <= i /\ i - p + 1 \in 1..Len(r) /\ (i - p + 1) + n = k
    BY <1>1, <1>2, <2>1, <2>b, <2>2, <2>5
  <2>7. r[i - p + 1] = q[k]
    BY <1>2, <2>6
  <2>8. QED
    BY <2>1, <2>a, <2>3, <2>6, <2>7
<1>7. ASSUME NEW i \in 1..Len(r), NEW j \in 1..Len(r), i < j
      PROVE  \/ Age(s, r[j].msg) < Age(s, r[i].msg)
             \/ r[j].msg = r[i].msg /\ r[j].size = r[i].size /\ r[j].place = r[i].place + (j - i)
  <2>1. /\ r[i] = q[i + n] /\ i + n \in 1..Len(q) /\ r[j] = q[j + n] /\ j + n \in 1..Len(q)
        /\ i + n < j + n /\ (j + n) - (i + n) = j - i
    BY <1>1, <1>2, <1>7
  <2>2. \/ Age(s, q[j + n].msg) < Age(s, q[i + n].msg)
        \/ /\ q[j + n].msg = q[i + n].msg /\ q[j + n].size = q[i + n].size
           /\ q[j + n].place = q[i + n].place + ((j + n) - (i + n))
    BY <2>1 DEF Ordered
  <2>3. QED
    BY <2>1, <2>2
<1>8. Ordered(r, s)
  BY <1>6, <1>7 DEF Ordered
<1>9. Complete(r)
  <2> SUFFICES ASSUME NEW i \in 1..Len(r)
               PROVE  /\ i + (r[i].size - r[i].place) <= Len(r)
                      /\ r[i + (r[i].size - r[i].place)].msg = r[i].msg
    BY DEF Complete
  <2>1. r[i] = q[i + n] /\ i + n \in 1..Len(q) /\ i \in Nat
    BY <1>2
  <2>a. PICK d : d = q[i + n].size - q[i + n].place
    OBVIOUS
  <2>b. d \in Nat
    <3>1. /\ q[i + n].size \in Nat /\ q[i + n].place \in Nat
          /\ q[i + n].place <= q[i + n].size
      BY <2>1, UnitOf DEF Ordered
    <3>2. QED
      BY <2>a, <3>1
  <2>2. PICK k : k = (i + n) + d
    OBVIOUS
  <2>3. k <= Len(q) /\ q[k].msg = q[i + n].msg
    BY <2>1, <2>a, <2>2 DEF Complete
  <2>4. PICK h : h = i + d
    OBVIOUS
  <2>5. h + n = k /\ h \in 1..Len(r)
    BY <1>1, <1>2, <2>1, <2>b, <2>2, <2>3, <2>4
  <2>6. r[h] = q[k]
    BY <1>2, <2>5
  <2>7. h <= Len(r)
    BY <1>1, <1>2, <2>5
  <2>8. QED
    BY <2>1, <2>a, <2>3, <2>4, <2>6, <2>7
<1>10. ASSUME Gapless(q, s)
       PROVE  Gapless(r, s)
  <2> SUFFICES ASSUME NEW i \in 1..Len(r), NEW a \in 1..Age(s, r[i].msg)
               PROVE  \E j \in 1..Len(r) : Age(s, r[j].msg) = a
    BY DEF Gapless
  <2>1. r[i] = q[i + n] /\ i + n \in 1..Len(q)
    BY <1>2
  <2>2. PICK k \in 1..Len(q) : Age(s, q[k].msg) = a
    BY <1>10, <2>1 DEF Gapless
  <2>3. a < Age(s, q[1].msg)
    <3>1. Age(s, q[i + n].msg) < Age(s, q[1].msg) /\ Age(s, q[1].msg) \in Nat /\ Age(s, q[i + n].msg) \in Nat
      BY <1>4, <1>5, <2>1, AgeOf
    <3>2. a \in Nat /\ a <= Age(s, q[i + n].msg)
      BY <2>1, <3>1
    <3>3. QED
      BY <3>1, <3>2
  <2>4. k \notin 1..n
    <3>1. Age(s, q[1].msg) \in Nat /\ a \in Nat
      BY <1>4, <2>2, AgeOf
    <3>2. Age(s, q[k].msg) # Age(s, q[1].msg)
      BY <2>2, <2>3, <3>1
    <3>3. QED
      BY <1>3, <3>2
  <2>5. k - n \in 1..Len(r) /\ (k - n) + n = k
    BY <1>1, <1>2, <2>4
  <2>6. r[k - n] = q[k]
    BY <1>2, <2>5
  <2>7. QED
    BY <2>2, <2>5, <2>6
<1>11. QED
  BY <1>0, <1>2, <1>8, <1>9, <1>10 DEF r

(* With a new message behind it.                                           *)
LEMMA WithNew ==
  ASSUME NEW q \in Seq(Unit), NEW s \in 0..Messages - 1, NEW size \in Size,
         Ordered(q, s), Complete(q), Gapless(q, s),
         \A i \in 1..Len(q) : Age(s, q[i].msg) < Window
  PROVE  LET r == q \o Units(s, size)
             t == (s + 1) % Messages
         IN /\ r \in Seq(Unit) /\ Len(r) = Len(q) + size /\ Len(q) \in Nat /\ t \in 0..Messages - 1
            /\ \A i \in 1..Len(r) :
                 IF i <= Len(q)
                   THEN /\ i \in 1..Len(q) /\ r[i] = q[i] /\ Age(t, r[i].msg) = Age(s, q[i].msg) + 1
                        /\ Age(s, q[i].msg) \in 1..Window
                   ELSE /\ i - Len(q) \in 1..size /\ r[i] = [msg |-> s, size |-> size, place |-> i - Len(q)]
                        /\ Age(t, r[i].msg) = 1
            /\ Ordered(r, t) /\ Complete(r) /\ Gapless(r, t)
<1> DEFINE u == Units(s, size)
           r == q \o u
           t == (s + 1) % Messages
           n == Len(q)
<1>1. u \in Seq(Unit) /\ Len(u) = size /\ \A i \in 1..size : u[i] = [msg |-> s, size |-> size, place |-> i]
  BY UnitsOf
<1>2. n \in Nat /\ size \in Nat /\ size > 0 /\ t \in 0..Messages - 1 /\ Window \in Nat \ {0}
  <2>1. n \in Nat
    OBVIOUS
  <2>2. t \in 0..Messages - 1
    BY Ages
  <2>3. size \in Nat /\ size > 0 /\ Window \in Nat \ {0}
    BY Sizes
  <2>4. QED
    BY <2>1, <2>2, <2>3
<1> HIDE DEF u, t
<1>3. r \in Seq(Unit) /\ Len(r) = n + size /\ \A i \in 1..n + size : r[i] = IF i <= n THEN q[i] ELSE u[i - n]
  BY <1>1, ConcatProperties
<1>4. Age(t, s) = 1
  BY Ages DEF t
<1> HIDE DEF r
<1>5. ASSUME NEW i \in 1..Len(r), i <= n
      PROVE  /\ i \in 1..n /\ r[i] = q[i] /\ Age(t, r[i].msg) = Age(s, q[i].msg) + 1
             /\ Age(s, q[i].msg) \in 1..Window /\ Age(t, r[i].msg) \in 1..Window
  <2>1. i \in 1..n /\ r[i] = q[i]
    BY <1>2, <1>3, <1>5
  <2>2. q[i].msg \in 0..Messages - 1
    BY <2>1, UnitOf
  <2>3. Age(s, q[i].msg) \in 1..Window /\ Age(s, q[i].msg) < Window
    BY <2>1 DEF Ordered
  <2>4. Age(s, q[i].msg) <= Window
    BY <1>2, <2>3
  <2>5. Age(t, q[i].msg) = Age(s, q[i].msg) + 1
    BY <2>2, <2>4, Ages DEF t
  <2>6. QED
    BY <1>2, <2>1, <2>3, <2>5
<1>6. ASSUME NEW i \in 1..Len(r), ~(i <= n)
      PROVE  /\ i - n \in 1..size /\ r[i] = [msg |-> s, size |-> size, place |-> i - n]
             /\ r[i].msg = s /\ r[i].size = size /\ r[i].place = i - n /\ Age(t, r[i].msg) = 1
  <2>1. i \in 1..n + size /\ i - n \in 1..size
    BY <1>2, <1>3, <1>6
  <2>2. r[i] = u[i - n] /\ u[i - n] = [msg |-> s, size |-> size, place |-> i - n]
    BY <1>1, <1>3, <1>6, <2>1
  <2>3. QED
    BY <1>4, <2>1, <2>2
<1>7. ASSUME NEW i \in 1..Len(r)
      PROVE  /\ r[i].place <= r[i].size /\ Age(t, r[i].msg) \in 1..Window
             /\ r[i].place <= i /\ r[i - r[i].place + 1].msg = r[i].msg
  <2>1. CASE i <= n
    <3>1. r[i] = q[i] /\ i \in 1..n /\ Age(t, r[i].msg) \in 1..Window
      BY <1>5, <2>1
    <3>2. q[i].place \in Nat \ {0}
      BY <3>1, UnitOf
    <3>3. PICK k : k = i - q[i].place + 1
      OBVIOUS
    <3>4. q[i].place <= q[i].size /\ q[i].place <= i /\ q[k].msg = q[i].msg
      BY <3>1, <3>3 DEF Ordered
    <3>5. k \in 1..Len(r) /\ k <= n
      <4>1. PICK p : p = q[i].place
        OBVIOUS
      <4>2. p \in Nat \ {0} /\ k = i - p + 1 /\ p <= i
        BY <3>2, <3>3, <3>4, <4>1
      <4>3. QED
        BY <1>2, <1>3, <3>1, <4>2
    <3>6. r[k] = q[k]
      BY <1>5, <3>5
    <3>7. QED
      BY <3>1, <3>3, <3>4, <3>6
  <2>2. CASE ~(i <= n)
    <3>1. i - n \in 1..size /\ r[i].msg = s /\ r[i].size = size /\ r[i].place = i - n /\ Age(t, r[i].msg) = 1
      BY <1>6, <2>2
    <3>2. PICK k : k = i - r[i].place + 1
      OBVIOUS
    <3>3. k = n + 1 /\ k \in 1..Len(r) /\ ~(k <= n)
      BY <1>2, <1>3, <3>1, <3>2
    <3>4. r[k].msg = s
      BY <1>6, <3>3
    <3>5. i - n <= size /\ i - n <= i /\ 1 \in 1..Window
      BY <1>2, <3>1
    <3>6. QED
      BY <3>1, <3>2, <3>4, <3>5
  <2>3. QED
    BY <2>1, <2>2
<1>8. ASSUME NEW i \in 1..Len(r), NEW j \in 1..Len(r), i < j
      PROVE  \/ Age(t, r[j].msg) < Age(t, r[i].msg)
             \/ r[j].msg = r[i].msg /\ r[j].size = r[i].size /\ r[j].place = r[i].place + (j - i)
  <2>1. CASE j <= n
    <3>1. i <= n
      BY <1>2, <1>8, <2>1
    <3>2. /\ r[i] = q[i] /\ i \in 1..n /\ Age(t, r[i].msg) = Age(s, q[i].msg) + 1
          /\ r[j] = q[j] /\ j \in 1..n /\ Age(t, r[j].msg) = Age(s, q[j].msg) + 1
      BY <1>5, <2>1, <3>1
    <3>3. \/ Age(s, q[j].msg) < Age(s, q[i].msg)
          \/ q[j].msg = q[i].msg /\ q[j].size = q[i].size /\ q[j].place = q[i].place + (j - i)
      BY <1>8, <3>2 DEF Ordered
    <3>4. Age(s, q[i].msg) \in Nat /\ Age(s, q[j].msg) \in Nat
      BY <3>2, AgeOf
    <3>5. QED
      BY <3>2, <3>3, <3>4
  <2>2. CASE ~(j <= n) /\ i <= n
    <3>1. /\ Age(t, r[j].msg) = 1 /\ Age(t, r[i].msg) = Age(s, q[i].msg) + 1 /\ Age(s, q[i].msg) \in 1..Window
      BY <1>5, <1>6, <2>2
    <3>2. QED
      BY <1>2, <3>1
  <2>3. CASE ~(j <= n) /\ ~(i <= n)
    <3>1. /\ r[i].msg = s /\ r[i].size = size /\ r[i].place = i - n
          /\ r[j].msg = s /\ r[j].size = size /\ r[j].place = j - n
      BY <1>6, <2>3
    <3>2. j - n = (i - n) + (j - i)
      BY <1>2, <1>3
    <3>3. QED
      BY <3>1, <3>2
  <2>4. QED
    BY <2>1, <2>2, <2>3
<1>9. Ordered(r, t)
  BY <1>7, <1>8 DEF Ordered
<1>10. Complete(r)
  <2> SUFFICES ASSUME NEW i \in 1..Len(r)
               PROVE  /\ i + (r[i].size - r[i].place) <= Len(r)
                      /\ r[i + (r[i].size - r[i].place)].msg = r[i].msg
    BY DEF Complete
  <2>1. CASE i <= n
    <3>1. r[i] = q[i] /\ i \in 1..n
      BY <1>5, <2>1
    <3>2. q[i].place \in Nat \ {0} /\ q[i].size \in Nat /\ q[i].place <= q[i].size
      BY <3>1, UnitOf DEF Ordered
    <3>3. PICK k : k = i + (q[i].size - q[i].place)
      OBVIOUS
    <3>4. k <= n /\ q[k].msg = q[i].msg
      BY <3>1, <3>3 DEF Complete
    <3>5. k \in 1..Len(r) /\ k <= Len(r)
      BY <1>2, <1>3, <3>1, <3>2, <3>3, <3>4, SMTT(20)
    <3>6. r[k] = q[k]
      BY <1>5, <3>4, <3>5
    <3>7. QED
      BY <3>1, <3>3, <3>4, <3>5, <3>6
  <2>2. CASE ~(i <= n)
    <3>1. i - n \in 1..size /\ r[i].msg = s /\ r[i].size = size /\ r[i].place = i - n
      BY <1>6, <2>2
    <3>2. PICK k : k = i + (r[i].size - r[i].place)
      OBVIOUS
    <3>3. k = n + size /\ k \in 1..Len(r) /\ ~(k <= n) /\ k <= Len(r)
      BY <1>2, <1>3, <3>1, <3>2
    <3>4. r[k].msg = s
      BY <1>6, <3>3
    <3>5. QED
      BY <3>1, <3>2, <3>3, <3>4
  <2>3. QED
    BY <2>1, <2>2
<1>11. Gapless(r, t)
  <2> SUFFICES ASSUME NEW i \in 1..Len(r), NEW a \in 1..Age(t, r[i].msg)
               PROVE  \E j \in 1..Len(r) : Age(t, r[j].msg) = a
    BY DEF Gapless
  <2>1. CASE a = 1
    <3>1. n + 1 \in 1..Len(r) /\ ~(n + 1 <= n)
      BY <1>2, <1>3
    <3>2. QED
      BY <1>6, <2>1, <3>1
  <2>2. CASE a # 1
    <3>1. Age(t, r[i].msg) \in Nat
      BY <1>2, <1>3, AgeOf
    <3>2. i <= n
      <4>1. Age(t, r[i].msg) # 1
        <5>1. a <= Age(t, r[i].msg) /\ a \in Nat \ {0}
          BY <3>1
        <5>2. QED
          BY <2>2, <3>1, <5>1
      <4>2. QED
        BY <1>6, <4>1
    <3>3. /\ i \in 1..n /\ r[i] = q[i] /\ Age(t, r[i].msg) = Age(s, q[i].msg) + 1
          /\ Age(s, q[i].msg) \in 1..Window
      BY <1>5, <3>2
    <3>4. a - 1 \in 1..Age(s, q[i].msg) /\ (a - 1) + 1 = a
      BY <1>2, <2>2, <3>3
    <3>5. PICK j \in 1..n : Age(s, q[j].msg) = a - 1
      BY <3>3, <3>4 DEF Gapless
    <3>6. j \in 1..Len(r) /\ j <= n
      BY <1>2, <1>3
    <3>7. QED
      BY <1>5, <3>4, <3>5, <3>6
  <2>3. QED
    BY <2>1, <2>2
<1>12. QED
  BY <1>2, <1>3, <1>5, <1>6, <1>9, <1>10, <1>11 DEF r, u, t

(* The messages of a sequence of units                                     *)
LEMMA NumbersOf ==
  ASSUME NEW q \in Seq(Unit)
  PROVE  /\ Numbers(q) = {q[i].msg : i \in 1..Len(q)}
         /\ IsFiniteSet(Numbers(q))
<1>1. DOMAIN q = 1..Len(q) /\ Len(q) \in Nat
  OBVIOUS
<1>2. Numbers(q) = {q[i].msg : i \in 1..Len(q)}
  BY <1>1 DEF Numbers, ToSet
<1>3. Numbers(q) \subseteq 0..Messages - 1
  <2>1. \A i \in 1..Len(q) : q[i].msg \in 0..Messages - 1
    BY UnitOf
  <2>2. QED
    BY <1>2, <2>1
<1>4. IsFiniteSet(0..Messages - 1)
  BY FS_Interval, Sizes
<1>5. QED
  BY <1>2, <1>3, <1>4, FS_Subset

LEMMA NumbersTogether ==
  ASSUME NEW a \in Seq(Unit), NEW b \in Seq(Unit)
  PROVE  Numbers(a \o b) = Numbers(a) \cup Numbers(b)
<1>1. a \o b \in Seq(Unit) /\ Len(a) \in Nat /\ Len(b) \in Nat /\ Len(a \o b) = Len(a) + Len(b)
  BY ConcatProperties
<1>2. \A i \in 1..Len(a) + Len(b) : (a \o b)[i] = IF i <= Len(a) THEN a[i] ELSE b[i - Len(a)]
  BY ConcatProperties
<1>3. \A i \in 1..Len(a) : i \in 1..Len(a) + Len(b) /\ (a \o b)[i] = a[i]
  BY <1>1, <1>2
<1>4. \A i \in 1..Len(b) : i + Len(a) \in 1..Len(a) + Len(b) /\ (a \o b)[i + Len(a)] = b[i]
  <2> SUFFICES ASSUME NEW i \in 1..Len(b)
               PROVE  i + Len(a) \in 1..Len(a) + Len(b) /\ (a \o b)[i + Len(a)] = b[i]
    OBVIOUS
  <2>1. i + Len(a) \in 1..Len(a) + Len(b) /\ ~(i + Len(a) <= Len(a)) /\ (i + Len(a)) - Len(a) = i
    BY <1>1
  <2>2. QED
    BY <1>2, <2>1
<1>5. \A i \in 1..Len(a) + Len(b) :
        \/ i \in 1..Len(a) /\ (a \o b)[i] = a[i]
        \/ i - Len(a) \in 1..Len(b) /\ (a \o b)[i] = b[i - Len(a)]
  BY <1>1, <1>2
<1>6. /\ Numbers(a \o b) = {(a \o b)[i].msg : i \in 1..Len(a) + Len(b)}
      /\ Numbers(a) = {a[i].msg : i \in 1..Len(a)} /\ Numbers(b) = {b[i].msg : i \in 1..Len(b)}
  BY <1>1, NumbersOf
<1>7. Numbers(a \o b) \subseteq Numbers(a) \cup Numbers(b)
  BY <1>5, <1>6
<1>8. Numbers(a) \subseteq Numbers(a \o b)
  BY <1>3, <1>6
<1>9. Numbers(b) \subseteq Numbers(a \o b)
  BY <1>4, <1>6
<1>10. QED
  BY <1>7, <1>8, <1>9

(* When no message is missing, the oldest is as old as there are messages. *)
LEMMA OldestCounts ==
  ASSUME NEW q \in Seq(Unit), NEW s \in 0..Messages - 1, Gapless(q, s), NEW i \in 1..Len(q)
  PROVE  Cardinality(Numbers(q)) \in Nat /\ Age(s, q[i].msg) <= Cardinality(Numbers(q))
<1>1. PICK k : k = Age(s, q[i].msg)
  OBVIOUS
<1>2. k \in Nat
  BY <1>1, AgeOf
<1> DEFINE f == [a \in 1..k |-> CHOOSE m \in Numbers(q) : Age(s, m) = a]
<1>3. Numbers(q) = {q[j].msg : j \in 1..Len(q)} /\ IsFiniteSet(Numbers(q))
  BY NumbersOf
<1>4. \A a \in 1..k : f[a] \in Numbers(q) /\ Age(s, f[a]) = a
  <2> SUFFICES ASSUME NEW a \in 1..k
               PROVE  \E m \in Numbers(q) : Age(s, m) = a
    OBVIOUS
  <2>1. PICK j \in 1..Len(q) : Age(s, q[j].msg) = a
    BY <1>1 DEF Gapless
  <2>2. QED
    BY <1>3, <2>1
<1>5. f \in [1..k -> Numbers(q)]
  BY <1>4
<1> HIDE DEF f
<1>6. DOMAIN f = 1..k
  BY <1>5
<1>7. f \in Injection(1..k, Numbers(q))
  BY <1>4, <1>5, <1>6 DEF Injection, IsInjective
<1>8. Cardinality(1..k) <= Cardinality(Numbers(q))
  BY <1>3, <1>7, FS_Injection
<1>9. Cardinality(1..k) = k
  BY <1>2, FS_Interval
<1>10. Cardinality(Numbers(q)) \in Nat
  BY <1>3, FS_CardinalityType
<1>11. QED
  BY <1>1, <1>8, <1>9, <1>10

(***************************************************************************)
(* Lines: what was read, what is in the sockets and what is still to be    *)
(* written of one direction                                                *)
(***************************************************************************)
LEMMA LineOf ==
  ASSUME NEW g \in Seq(Unit), NEW i \in Seq(Unit), NEW o \in Seq(Unit)
  PROVE  /\ g \o i \o o \in Seq(Unit) /\ Len(g \o i \o o) = Len(g) + Len(i) + Len(o)
         /\ Len(g) \in Nat /\ Len(i) \in Nat /\ Len(o) \in Nat
         /\ \A k \in 1..Len(g) : k \in 1..Len(g \o i \o o) /\ (g \o i \o o)[k] = g[k]
         /\ \A k \in 1..Len(i) : k + Len(g) \in 1..Len(g \o i \o o) /\ (g \o i \o o)[k + Len(g)] = i[k]
         /\ \A k \in 1..Len(o) : /\ k + (Len(g) + Len(i)) \in 1..Len(g \o i \o o)
                                 /\ (g \o i \o o)[k + (Len(g) + Len(i))] = o[k]
<1>1. PICK a, b, c : a = Len(g) /\ b = Len(i) /\ c = Len(o)
  OBVIOUS
<1>2. a \in Nat /\ b \in Nat /\ c \in Nat
  BY <1>1
<1>3. PICK x : x = g \o i
  OBVIOUS
<1>4. x \in Seq(Unit) /\ Len(x) = a + b /\ \A k \in 1..a + b : x[k] = IF k <= a THEN g[k] ELSE i[k - a]
  BY <1>1, <1>3, ConcatProperties
<1>5. PICK y : y = x \o o
  OBVIOUS
<1>6. /\ y \in Seq(Unit) /\ Len(y) = (a + b) + c
      /\ \A k \in 1..(a + b) + c : y[k] = IF k <= a + b THEN x[k] ELSE o[k - (a + b)]
  <2>1. x \in Seq(Unit)
    BY <1>4
  <2>2. /\ x \o o \in Seq(Unit) /\ Len(x \o o) = Len(x) + Len(o)
        /\ \A k \in 1..Len(x) + Len(o) : (x \o o)[k] = IF k <= Len(x) THEN x[k] ELSE o[k - Len(x)]
    BY <2>1, ConcatProperties
  <2>3. QED
    BY <1>1, <1>4, <1>5, <2>2
<1>7. \A k \in 1..a : k \in 1..Len(y) /\ y[k] = g[k]
  BY <1>2, <1>4, <1>6
<1>8. ASSUME NEW k \in 1..b
      PROVE  k + a \in 1..Len(y) /\ y[k + a] = i[k]
  <2>1. k + a \in 1..a + b /\ k + a \in 1..(a + b) + c /\ ~(k + a <= a) /\ (k + a) - a = k /\ k + a <= a + b
    BY <1>2
  <2>2. QED
    BY <1>4, <1>6, <2>1
<1>9. ASSUME NEW k \in 1..c
      PROVE  k + (a + b) \in 1..Len(y) /\ y[k + (a + b)] = o[k]
  <2>1. k + (a + b) \in 1..(a + b) + c /\ ~(k + (a + b) <= a + b) /\ (k + (a + b)) - (a + b) = k
    BY <1>2
  <2>2. QED
    BY <1>6, <2>1
<1>10. QED
  BY <1>1, <1>2, <1>3, <1>5, <1>6, <1>7, <1>8, <1>9

LEMMA Cut ==
  ASSUME NEW s \in Seq(Unit), NEW n \in Nat, n <= Len(s)
  PROVE  /\ SubSeq(s, 1, n) \in Seq(Unit) /\ Len(SubSeq(s, 1, n)) = n
         /\ \A i \in 1..n : i \in 1..Len(s) /\ SubSeq(s, 1, n)[i] = s[i]
         /\ SubSeq(s, n + 1, Len(s)) \in Seq(Unit) /\ Len(SubSeq(s, n + 1, Len(s))) = Len(s) - n
         /\ \A i \in 1..Len(s) - n : i + n \in 1..Len(s) /\ SubSeq(s, n + 1, Len(s))[i] = s[i + n]
         /\ SubSeq(s, 1, n) \o SubSeq(s, n + 1, Len(s)) = s
<1>1. Len(s) \in Nat /\ Len(s) <= Len(s) /\ n + 1 \in Nat \ {0} /\ 1 \in Nat \ {0}
  OBVIOUS
<1>2. /\ SubSeq(s, 1, n) \in Seq(Unit) /\ Len(SubSeq(s, 1, n)) = IF 1 <= n THEN n - 1 + 1 ELSE 0
      /\ \A i \in 1..n - 1 + 1 : SubSeq(s, 1, n)[i] = s[1 + i - 1]
  BY <1>1, Piece
<1>3. PICK t : t = SubSeq(s, n + 1, Len(s))
  OBVIOUS
<1>4. /\ t \in Seq(Unit) /\ Len(t) = IF n + 1 <= Len(s) THEN Len(s) - (n + 1) + 1 ELSE 0
      /\ \A i \in 1..Len(s) - (n + 1) + 1 : t[i] = s[(n + 1) + i - 1]
  BY <1>1, <1>3, Piece
<1>5. Len(SubSeq(s, 1, n)) = n /\ Len(t) = Len(s) - n
  BY <1>1, <1>2, <1>4
<1>6. \A i \in 1..n : i \in 1..Len(s) /\ i \in 1..n - 1 + 1 /\ 1 + i - 1 = i
  BY <1>1
<1>7. \A i \in 1..Len(s) - n : i + n \in 1..Len(s) /\ i \in 1..Len(s) - (n + 1) + 1 /\ (n + 1) + i - 1 = i + n
  BY <1>1
<1>8. \A i \in 1..n : i \in 1..Len(s) /\ SubSeq(s, 1, n)[i] = s[i]
  BY <1>2, <1>6
<1>9. \A i \in 1..Len(s) - n : i + n \in 1..Len(s) /\ t[i] = s[i + n]
  BY <1>4, <1>7
<1>10. SubSeq(s, 1, n) \o t = s
  <2>1. PICK a : a = SubSeq(s, 1, n)
    OBVIOUS
  <2>2. a \o t \in Seq(Unit) /\ Len(a \o t) = Len(s) /\ \A i \in 1..Len(s) : (a \o t)[i] = IF i <= n THEN a[i] ELSE t[i - n]
    <3>1. a \in Seq(Unit) /\ t \in Seq(Unit) /\ Len(a) = n /\ Len(t) = Len(s) - n
      BY <1>2, <1>4, <1>5, <2>1
    <3>2. n + (Len(s) - n) = Len(s)
      BY <1>1
    <3>3. /\ a \o t \in Seq(Unit) /\ Len(a \o t) = Len(a) + Len(t)
          /\ \A i \in 1..Len(a) + Len(t) : (a \o t)[i] = IF i <= Len(a) THEN a[i] ELSE t[i - Len(a)]
      BY <3>1, ConcatProperties
    <3>4. QED
      BY <3>1, <3>2, <3>3
  <2>3. \A i \in 1..Len(s) : (a \o t)[i] = s[i]
    <3> SUFFICES ASSUME NEW i \in 1..Len(s)
                 PROVE  (a \o t)[i] = s[i]
      OBVIOUS
    <3>1. CASE i <= n
      <4>1. i \in 1..n
        BY <3>1
      <4>2. QED
        BY <1>8, <2>1, <2>2, <3>1, <4>1
    <3>2. CASE ~(i <= n)
      <4>1. i - n \in 1..Len(s) - n /\ (i - n) + n = i
        BY <1>1, <3>2
      <4>2. QED
        BY <1>9, <2>2, <3>2, <4>1
    <3>3. QED
      BY <3>1, <3>2
  <2>4. QED
    BY <2>1, <2>2, <2>3, SeqEqual
<1>11. QED
  BY <1>2, <1>3, <1>4, <1>5, <1>8, <1>9, <1>10

LEMMA Together ==
  \A a, b, c \in Seq(Unit) : (a \o b) \o c = a \o (b \o c) /\ a \o b \in Seq(Unit)
<1> SUFFICES ASSUME NEW a \in Seq(Unit), NEW b \in Seq(Unit), NEW c \in Seq(Unit)
             PROVE  (a \o b) \o c = a \o (b \o c) /\ a \o b \in Seq(Unit)
  OBVIOUS
<1>1. QED
  BY ConcatAssociative, ConcatProperties

(* Units that are read or written only move along the line.                *)
LEMMA Moved ==
  ASSUME NEW g \in Seq(Unit), NEW i \in Seq(Unit), NEW o \in Seq(Unit), NEW n \in Nat
  PROVE  /\ n <= Len(i) => (g \o SubSeq(i, 1, n)) \o SubSeq(i, n + 1, Len(i)) \o o = g \o i \o o
         /\ n <= Len(o) => g \o (i \o SubSeq(o, 1, n)) \o SubSeq(o, n + 1, Len(o)) = g \o i \o o
<1>1. ASSUME n <= Len(i)
      PROVE  (g \o SubSeq(i, 1, n)) \o SubSeq(i, n + 1, Len(i)) \o o = g \o i \o o
  <2>1. PICK a, b : a = SubSeq(i, 1, n) /\ b = SubSeq(i, n + 1, Len(i))
    OBVIOUS
  <2>2. a \in Seq(Unit) /\ b \in Seq(Unit) /\ a \o b = i
    BY <1>1, <2>1, Cut
  <2>3. (g \o a) \o b = g \o (a \o b)
    <3>1. g \in Seq(Unit) /\ a \in Seq(Unit) /\ b \in Seq(Unit)
      BY <2>2
    <3>2. QED
      BY <3>1, Together, SMTT(20)
  <2>4. QED
    BY <2>1, <2>2, <2>3
<1>2. ASSUME n <= Len(o)
      PROVE  g \o (i \o SubSeq(o, 1, n)) \o SubSeq(o, n + 1, Len(o)) = g \o i \o o
  <2>1. PICK a, b : a = SubSeq(o, 1, n) /\ b = SubSeq(o, n + 1, Len(o))
    OBVIOUS
  <2>2. a \in Seq(Unit) /\ b \in Seq(Unit) /\ a \o b = o /\ g \o i \in Seq(Unit)
    BY <1>2, <2>1, Cut, Together
  <2>3. g \o (i \o a) = (g \o i) \o a
    <3>1. a \in Seq(Unit)
      BY <2>2
    <3>2. QED
      BY <3>1, Together, SMTT(20)
  <2>4. ((g \o i) \o a) \o b = (g \o i) \o (a \o b)
    <3>1. a \in Seq(Unit) /\ b \in Seq(Unit) /\ g \o i \in Seq(Unit)
      BY <2>2
    <3>2. QED
      BY ONLY <3>1, Together, SMTT(20)
  <2>5. QED
    BY <2>1, <2>2, <2>3, <2>4
<1>3. QED
  BY <1>1, <1>2

LEMMA Halves ==
  ASSUME NEW a \in Seq(Unit), NEW b \in Seq(Unit)
  PROVE  /\ a \o b \in Seq(Unit) /\ Len(a \o b) = Len(a) + Len(b) /\ Len(a) \in Nat /\ Len(b) \in Nat
         /\ SubSeq(a \o b, 1, Len(a)) = a
         /\ SubSeq(a \o b, Len(a) + 1, Len(a \o b)) = b
<1>1. PICK q, m, n : q = a \o b /\ m = Len(a) /\ n = Len(b)
  OBVIOUS
<1>2. /\ a \o b \in Seq(Unit) /\ Len(a \o b) = Len(a) + Len(b)
      /\ \A i \in 1..Len(a) + Len(b) : (a \o b)[i] = IF i <= Len(a) THEN a[i] ELSE b[i - Len(a)]
  BY ConcatProperties
<1>3. /\ q \in Seq(Unit) /\ Len(q) = m + n /\ m \in Nat /\ n \in Nat /\ m <= m + n
      /\ \A i \in 1..m + n : q[i] = IF i <= m THEN a[i] ELSE b[i - m]
  BY <1>1, <1>2
<1>4. /\ SubSeq(q, 1, m) \in Seq(Unit) /\ Len(SubSeq(q, 1, m)) = m
      /\ \A i \in 1..m : i \in 1..Len(q) /\ SubSeq(q, 1, m)[i] = q[i]
      /\ SubSeq(q, m + 1, Len(q)) \in Seq(Unit) /\ Len(SubSeq(q, m + 1, Len(q))) = Len(q) - m
      /\ \A i \in 1..Len(q) - m : i + m \in 1..Len(q) /\ SubSeq(q, m + 1, Len(q))[i] = q[i + m]
  <2>1. m <= Len(q)
    BY <1>3
  <2>2. QED
    BY <1>3, <2>1, Cut
<1>5. SubSeq(q, 1, m) = a
  <2>1. \A i \in 1..m : SubSeq(q, 1, m)[i] = a[i]
    BY <1>3, <1>4
  <2>2. QED
    BY <1>1, <1>4, <2>1, SeqEqual
<1>6. PICK r : r = SubSeq(q, m + 1, Len(q))
  OBVIOUS
<1>7. r = b
  <2>1. r \in Seq(Unit) /\ Len(r) = n /\ \A i \in 1..n : i + m \in 1..m + n /\ r[i] = q[i + m]
    <3>1. Len(q) - m = n
      BY <1>3
    <3>2. QED
      BY <1>3, <1>4, <1>6, <3>1
  <2>2. \A i \in 1..n : ~(i + m <= m) /\ (i + m) - m = i
    BY <1>3
  <2>3. \A i \in 1..n : r[i] = b[i]
    BY <1>3, <2>1, <2>2
  <2>4. QED
    BY <1>1, <2>1, <2>3, SeqEqual
<1>8. QED
  BY <1>1, <1>2, <1>3, <1>5, <1>6, <1>7

(* What was read of the first message.                                     *)
LEMMA ReadOfFirst ==
  ASSUME NEW q \in Seq(Unit), q # <<>>, NEW s \in 0..Messages - 1, Ordered(q, s), Complete(q),
         NEW g \in Seq(Unit), Len(g) <= q[1].size, \A i \in 1..Len(g) : g[i] = q[i]
  PROVE  /\ q[1].msg \in 0..Messages - 1 /\ q[1].size \in Size
         /\ Len(g) # 0 => g[1].size = q[1].size
         /\ Len(g) < q[1].size => Beginning(g)
         /\ g = SubSeq(Units(q[1].msg, q[1].size), 1, Len(g))
<1>1. PICK m, n : m = q[1].msg /\ n = q[1].size
  OBVIOUS
<1>2. /\ 1 \in 1..Len(q) /\ n \in 1..Len(q)
      /\ \A i \in 1..n : q[i] = [msg |-> m, size |-> n, place |-> i]
  BY <1>1, FirstMessage
<1>3. m \in 0..Messages - 1 /\ n \in Size /\ n \in Nat
  BY <1>1, <1>2, UnitOf
<1>4. Len(g) \in Nat /\ Len(g) <= n
  BY <1>1
<1>5. \A i \in 1..Len(g) : i \in 1..n
  BY <1>3, <1>4
<1>6. \A i \in 1..Len(g) : g[i] = [msg |-> m, size |-> n, place |-> i]
  BY <1>2, <1>5
<1>7. Len(g) # 0 => 1 \in 1..Len(g)
  BY <1>4
<1>8. Len(g) # 0 => g[1].size = n /\ g[1].msg = m
  <2> SUFFICES ASSUME Len(g) # 0
               PROVE  g[1].size = n /\ g[1].msg = m
    OBVIOUS
  <2>1. g[1] = [msg |-> m, size |-> n, place |-> 1]
    BY <1>6, <1>7
  <2>2. QED
    BY <2>1
<1>9. Len(g) < n => Beginning(g)
  <2> SUFFICES ASSUME Len(g) < n, NEW i \in 1..Len(g)
               PROVE  Len(g) < g[i].size /\ g[i] = [msg |-> g[1].msg, size |-> g[1].size, place |-> i]
    BY DEF Beginning
  <2>1. g[i] = [msg |-> m, size |-> n, place |-> i]
    BY <1>6
  <2>2. Len(g) # 0
    BY <1>4
  <2>3. QED
    BY <1>8, <2>1, <2>2
<1>10. g = SubSeq(Units(m, n), 1, Len(g))
  <2>1. /\ Units(m, n) \in Seq(Unit) /\ Len(Units(m, n)) = n
        /\ \A i \in 1..n : Units(m, n)[i] = [msg |-> m, size |-> n, place |-> i]
    BY <1>3, UnitsOf
  <2>2. PICK h : h = SubSeq(Units(m, n), 1, Len(g))
    OBVIOUS
  <2>3. h \in Seq(Unit) /\ Len(h) = Len(g) /\ \A i \in 1..Len(g) : h[i] = Units(m, n)[i]
    BY <1>4, <2>1, <2>2, Cut
  <2>4. \A i \in 1..Len(g) : h[i] = g[i]
    BY <1>5, <1>6, <2>1, <2>3
  <2>5. QED
    BY <2>2, <2>3, <2>4, SeqEqual
<1>11. QED
  BY <1>1, <1>3, <1>8, <1>9, <1>10

(* The beginning of a line.                                                *)
LEMMA OrderedStart ==
  ASSUME NEW q \in Seq(Unit), NEW s \in 0..Messages - 1, Ordered(q, s),
         NEW g \in Seq(Unit), \A i \in 1..Len(g) : i \in 1..Len(q) /\ g[i] = q[i]
  PROVE  Ordered(g, s)
<1>1. ASSUME NEW i \in 1..Len(g)
      PROVE  /\ g[i].place <= g[i].size /\ Age(s, g[i].msg) \in 1..Window
             /\ g[i].place <= i /\ g[i - g[i].place + 1].msg = g[i].msg
  <2>1. i \in 1..Len(q) /\ g[i] = q[i] /\ Len(g) \in Nat
    OBVIOUS
  <2>2. PICK p : p = q[i].place
    OBVIOUS
  <2>3. p \in Nat \ {0}
    BY <2>1, <2>2, UnitOf
  <2>4. /\ p <= q[i].size /\ Age(s, q[i].msg) \in 1..Window
        /\ p <= i /\ q[i - p + 1].msg = q[i].msg
    BY <2>1, <2>2 DEF Ordered
  <2>5. i - p + 1 \in 1..Len(g)
    <3>1. PICK n : n = Len(g) /\ n \in Nat /\ i \in 1..n
      BY <2>1
    <3>2. n \in Nat /\ i \in 1..n /\ p \in Nat \ {0} /\ p <= i
      BY <2>3, <2>4, <3>1
    <3>3. i - p + 1 \in 1..n
      BY ONLY <3>2
    <3>4. QED
      BY <3>1, <3>3
  <2>6. g[i - p + 1] = q[i - p + 1]
    BY <2>5
  <2>7. QED
    BY <2>1, <2>2, <2>4, <2>6
<1>2. ASSUME NEW i \in 1..Len(g), NEW j \in 1..Len(g), i < j
      PROVE  \/ Age(s, g[j].msg) < Age(s, g[i].msg)
             \/ g[j].msg = g[i].msg /\ g[j].size = g[i].size /\ g[j].place = g[i].place + (j - i)
  <2>1. i \in 1..Len(q) /\ g[i] = q[i] /\ j \in 1..Len(q) /\ g[j] = q[j]
    OBVIOUS
  <2>2. \/ Age(s, q[j].msg) < Age(s, q[i].msg)
        \/ q[j].msg = q[i].msg /\ q[j].size = q[i].size /\ q[j].place = q[i].place + (j - i)
    BY <1>2, <2>1 DEF Ordered
  <2>3. QED
    BY <2>1, <2>2
<1>3. QED
  BY <1>1, <1>2 DEF Ordered

(***************************************************************************)
(* What a step does to a line                                              *)
(***************************************************************************)
(* Nothing, or an end is closed.                                           *)
Steady(d) ==
  /\ Line(d)' = Line(d) /\ sent'[d] = sent[d] /\ given'[d] = given[d]
  /\ Open(Other(d))' => Open(Other(d))
  /\ Open(d)' => Open(d)
  /\ stream'[d] # <<>> => stream[d] # <<>> \/ Open(d)

(* Nobody reads it any more.                                               *)
Gone(d) == ~Open(Other(d))' /\ given'[d] = given[d]

(* Nobody writes it any more, and what was not read is lost.               *)
Dropped(d) ==
  /\ Open(Other(d)) /\ ~Open(d)' /\ stream'[d] = <<>>
  /\ sent'[d] = sent[d] /\ given'[d] = given[d]
  /\ Line(d)' \in Seq(Unit)
  /\ \A i \in 1..Len(Line(d)') : i \in 1..Len(Line(d)) /\ Line(d)'[i] = Line(d)[i]

(* The first message is handed up.                                         *)
Handed(d) ==
  /\ Open(Other(d)) /\ Open(Other(d))' /\ (Open(d)' => Open(d))
  /\ Line(d) # <<>> /\ Complete(Line(d))
  /\ Line(d)' = SubSeq(Line(d), Line(d)[1].size + 1, Len(Line(d)))
  /\ sent'[d] = sent[d]
  /\ given'[d] = Units(Line(d)[1].msg, Line(d)[1].size)

(* A message begins.                                                       *)
Begun(d) ==
  /\ Open(d) /\ Open(Other(d)) /\ Open(Other(d))'
  /\ \E size \in Size : Line(d)' = Line(d) \o Units(sent[d], size)
  /\ \A i \in 1..Len(Line(d)) : Age(sent[d], Line(d)[i].msg) < Window
  /\ sent'[d] = (sent[d] + 1) % Messages /\ given'[d] = given[d]

Effect(d) == Steady(d) \/ Gone(d) \/ Dropped(d) \/ Handed(d) \/ Begun(d)

Written(d) == pc[d] # "write" => out[d] = <<>>

LEMMA TypedLine ==
  ASSUME TypeInv, NEW d \in End
  PROVE  /\ Other(d) \in End /\ Other(Other(d)) = d
         /\ got[Other(d)] \in Seq(Unit) /\ stream[d] \in Seq(Unit) /\ out[d] \in Seq(Unit)
         /\ Line(d) \in Seq(Unit) /\ sent[d] \in 0..Messages - 1
<1>1. Other(d) \in End /\ Other(Other(d)) = d
  BY TwoEnds
<1>2. got[Other(d)] \in Seq(Unit) /\ stream[d] \in Seq(Unit) /\ out[d] \in Seq(Unit) /\ sent[d] \in 0..Messages - 1
  BY <1>1, Typed DEF TypeInv
<1>3. Line(d) \in Seq(Unit)
  BY <1>2, LineOf DEF Line
<1>4. QED
  BY <1>1, <1>2, <1>3

LEMMA NoUnits ==
  ASSUME NEW s
  PROVE  /\ <<>> \in Seq(Unit) /\ Len(<<>>) = 0
         /\ Ordered(<<>>, s) /\ Complete(<<>>) /\ Gapless(<<>>, s) /\ Beginning(<<>>) /\ Numbers(<<>>) = {}
<1>1. <<>> \in Seq(Unit) /\ Len(<<>>) = 0 /\ 1..0 = {}
  BY EmptySeq
<1>2. Numbers(<<>>) = {<<>>[i].msg : i \in 1..Len(<<>>)}
  BY <1>1, NumbersOf
<1>3. Numbers(<<>>) = {}
  BY <1>1, <1>2
<1>4. QED
  BY <1>1, <1>3 DEF Ordered, Complete, Gapless, Beginning

LEMMA EffectKeeps ==
  ASSUME StreamInv, TypeInv', NEW d \in End, Effect(d), Written(d)'
  PROVE  LineInv(d)'
<1> DEFINE q == Line(d)
           s == sent[d]
<1>1. /\ q \in Seq(Unit) /\ s \in 0..Messages - 1 /\ LineInv(d)
  BY TypedLine DEF StreamInv
<1>2. CASE Steady(d)
  BY <1>1, <1>2 DEF Steady, LineInv, Written
<1>3. CASE Gone(d)
  BY <1>3 DEF Gone, LineInv, Written
<1>4. CASE Dropped(d)
  <2>1. Ordered(q, s)
    BY <1>1, <1>4 DEF Dropped, LineInv
  <2>2. /\ Line(d)' \in Seq(Unit) /\ sent'[d] = s
        /\ \A i \in 1..Len(Line(d)') : i \in 1..Len(q) /\ Line(d)'[i] = q[i]
    BY <1>4 DEF Dropped
  <2>3. Ordered(Line(d)', s)
    BY <1>1, <2>1, <2>2, OrderedStart
  <2>4. QED
    BY <1>4, <2>2, <2>3 DEF Dropped, LineInv, Written
<1>5. CASE Handed(d)
  <2>1. /\ Ordered(q, s) /\ Complete(q) /\ q # <<>> /\ (Open(d)' => Gapless(q, s))
        /\ Line(d)' = SubSeq(q, q[1].size + 1, Len(q)) /\ sent'[d] = s
    BY <1>1, <1>5 DEF Handed, LineInv
  <2>2. /\ Ordered(Line(d)', s) /\ Complete(Line(d)')
        /\ Gapless(q, s) => Gapless(Line(d)', s)
    BY <1>1, <2>1, WithoutFirst
  <2>3. QED
    BY <2>1, <2>2 DEF LineInv, Written
<1>6. CASE Begun(d)
  <2>1. PICK size \in Size : Line(d)' = q \o Units(s, size)
    BY <1>6 DEF Begun
  <2>2. /\ Ordered(q, s) /\ Complete(q) /\ Gapless(q, s)
        /\ sent'[d] = (s + 1) % Messages
        /\ \A i \in 1..Len(q) : Age(s, q[i].msg) < Window
    BY <1>1, <1>6 DEF Begun, LineInv
  <2>3. /\ Ordered(Line(d)', sent'[d]) /\ Complete(Line(d)') /\ Gapless(Line(d)', sent'[d])
    BY <1>1, <2>1, <2>2, WithNew
  <2>4. QED
    BY <2>3 DEF LineInv, Written
<1>7. QED
  BY <1>2, <1>3, <1>4, <1>5, <1>6 DEF Effect

(***************************************************************************)
(* The steps                                                               *)
(***************************************************************************)
Reader(d) == ReadInv(pc[d], got[d], need[d])

Follows == \A d \in End : Effect(d) /\ Written(d)' /\ Reader(d)'

LEMMA Untouched ==
  ASSUME NEW d \in End,
         got'[Other(d)] = got[Other(d)], stream'[d] = stream[d], out'[d] = out[d],
         sent'[d] = sent[d], given'[d] = given[d],
         pc[d] = "closed" => pc'[d] = "closed", pc[Other(d)] = "closed" => pc'[Other(d)] = "closed"
  PROVE  Effect(d) /\ Steady(d)
BY DEF Effect, Steady, Line, Open

(* What holds of both ends.                                                *)
LEMMA Both ==
  ASSUME StreamInv, NEW e \in End
  PROVE  /\ TypeInv /\ Other(e) \in End /\ Other(e) # e /\ Other(Other(e)) = e
         /\ \A d \in End : d = e \/ d = Other(e)
         /\ \A d \in End : Reader(d) /\ Written(d) /\ LineInv(d)
         /\ pc \in [End -> {"idle", "write", "header", "body", "closed"}]
         /\ out \in [End -> Seq(Unit)] /\ got \in [End -> Seq(Unit)]
         /\ stream \in [End -> Seq(Unit)] /\ given \in [End -> Seq(Unit)]
         /\ sent \in [End -> 0..Messages - 1] /\ DOMAIN need = End
<1>1. TypeInv /\ \A d \in End : Reader(d) /\ Written(d) /\ LineInv(d)
  BY DEF StreamInv, LineInv, Reader, Written
<1>2. QED
  BY <1>1, TwoEnds DEF TypeInv, TypeOK

LEMMA SendEffect ==
  ASSUME StreamInv, NEW e \in End, NEW size \in Size, Send(e, size)
  PROVE  Follows
<1> DEFINE o == Other(e)
           q == Line(e)
           s == sent[e]
<1>1. /\ pc[e] = "idle" /\ pc' = [pc EXCEPT ![e] = "write"] /\ out' = [out EXCEPT ![e] = Units(s, size)]
      /\ sent' = [sent EXCEPT ![e] = (@ + 1) % Messages] /\ UNCHANGED <<got, need, stream, given, error>>
      /\ Cardinality(Numbers(OnTheWay(e))) < Window
  BY DEF Send
<1>2. Effect(o)
  <2>1. o \in End /\ Other(o) = e /\ o # e
    BY Both
  <2>2. /\ got'[e] = got[e] /\ stream'[o] = stream[o] /\ out'[o] = out[o] /\ sent'[o] = sent[o]
        /\ given'[o] = given[o] /\ pc'[o] = pc[o] /\ pc[e] # "closed"
    BY <1>1, <2>1, Both
  <2>3. QED
    BY <2>1, <2>2, Untouched
<1>3. Effect(e)
  <2>1. CASE ~Open(o)
    <3>1. ~Open(o)'
      BY <1>1, <2>1, Both DEF Open
    <3>2. QED
      BY <1>1, <3>1, Both DEF Effect, Gone
  <2>2. CASE Open(o)
    <3>1. /\ out[e] = <<>> /\ got[o] \in Seq(Unit) /\ stream[e] \in Seq(Unit) /\ q \in Seq(Unit)
          /\ s \in 0..Messages - 1 /\ size \in Size
      BY <1>1, Both, TypedLine DEF Written
    <3>2. Line(e)' = q \o Units(s, size)
      <4>1. q = got[o] \o stream[e] \o <<>> /\ Line(e)' = got[o] \o stream[e] \o Units(s, size)
        BY <1>1, <3>1, Both DEF Line
      <4>2. got[o] \o stream[e] \in Seq(Unit)
        BY <3>1, Together
      <4>3. (got[o] \o stream[e]) \o <<>> = got[o] \o stream[e]
        BY <4>2, ConcatEmptySeq
      <4>4. QED
        BY <4>1, <4>3
    <3>3. Numbers(OnTheWay(e)) = Numbers(q)
      <4>1. Numbers(OnTheWay(e)) = Numbers(out[e]) \cup Numbers(stream[e]) \cup Numbers(got[o])
        <5>1. out[e] \in Seq(Unit) /\ out[e] \o stream[e] \in Seq(Unit)
          BY <3>1, NoUnits, Together
        <5>2. Numbers(out[e] \o stream[e]) = Numbers(out[e]) \cup Numbers(stream[e])
          BY <3>1, <5>1, NumbersTogether
        <5>3. Numbers(out[e] \o stream[e] \o got[o]) = Numbers(out[e] \o stream[e]) \cup Numbers(got[o])
          BY <3>1, <5>1, NumbersTogether
        <5>4. QED
          BY <5>2, <5>3 DEF OnTheWay
      <4>2. Numbers(q) = Numbers(got[o]) \cup Numbers(stream[e]) \cup Numbers(out[e])
        <5>1. out[e] \in Seq(Unit) /\ got[o] \o stream[e] \in Seq(Unit)
          BY <3>1, NoUnits, Together
        <5>2. Numbers(got[o] \o stream[e]) = Numbers(got[o]) \cup Numbers(stream[e])
          BY <3>1, <5>1, NumbersTogether
        <5>3. Numbers(got[o] \o stream[e] \o out[e]) = Numbers(got[o] \o stream[e]) \cup Numbers(out[e])
          BY <3>1, <5>1, NumbersTogether
        <5>4. QED
          BY <5>2, <5>3 DEF Line
      <4>3. QED
        BY <4>1, <4>2
    <3>4. ASSUME NEW i \in 1..Len(q)
          PROVE  Age(s, q[i].msg) < Window
      <4>1. Gapless(q, s)
        BY <1>1, <2>2, Both DEF LineInv, Open
      <4>2. Cardinality(Numbers(q)) \in Nat /\ Age(s, q[i].msg) <= Cardinality(Numbers(q))
        BY <3>1, <4>1, OldestCounts
      <4>3. Age(s, q[i].msg) \in Nat /\ Window \in Nat /\ Cardinality(Numbers(q)) < Window
        BY <1>1, <3>1, <3>3, AgeOf, Sizes
      <4>4. QED
        BY <4>2, <4>3
    <3>5. sent'[e] = (s + 1) % Messages /\ given'[e] = given[e] /\ Open(e) /\ Open(o)'
      BY <1>1, <2>2, Both DEF Open
    <3>6. QED
      BY <2>2, <3>1, <3>2, <3>4, <3>5 DEF Effect, Begun
  <2>3. QED
    BY <2>1, <2>2
<1>4. \A d \in End : Written(d)'
  BY <1>1, Both DEF Written
<1>5. \A d \in End : Reader(d)'
  BY <1>1, Both DEF Reader, ReadInv
<1>6. QED
  BY <1>2, <1>3, <1>4, <1>5, Both DEF Follows

LEMMA WriteEffect ==
  ASSUME StreamInv, NEW e \in End, Write(e)
  PROVE  Follows
<1> DEFINE o == Other(e)
<1>1. PICK n : /\ n = Least(Left(e), Len(out[e]))
               /\ stream' = [stream EXCEPT ![e] = @ \o SubSeq(out[e], 1, n)]
               /\ out' = [out EXCEPT ![e] = SubSeq(out[e], n + 1, Len(out[e]))]
               /\ pc' = [pc EXCEPT ![e] = IF out'[e] = <<>> THEN "idle" ELSE "write"]
               /\ pc[e] = "write" /\ UNCHANGED <<got, need, given, sent, error>>
  BY DEF Write, Remainder
<1>2. /\ n \in Nat /\ n <= Len(out[e])
      /\ got[o] \in Seq(Unit) /\ stream[e] \in Seq(Unit) /\ out[e] \in Seq(Unit)
  <2>1. Left(e) \in Nat /\ Len(out[e]) \in Nat
    BY Both, Typed DEF TypeInv
  <2>2. n \in Nat /\ n <= Len(out[e])
    BY <1>1, <2>1 DEF Least
  <2>3. QED
    BY <2>2, Both, TypedLine
<1>3. Effect(o)
  <2>1. o \in End /\ Other(o) = e /\ o # e
    BY Both
  <2>2. /\ got'[e] = got[e] /\ stream'[o] = stream[o] /\ out'[o] = out[o] /\ sent'[o] = sent[o]
        /\ given'[o] = given[o] /\ pc'[o] = pc[o] /\ pc[e] # "closed"
    BY <1>1, <2>1, Both
  <2>3. QED
    BY <2>1, <2>2, Untouched
<1>4. Effect(e)
  <2>1. Line(e)' = got[o] \o (stream[e] \o SubSeq(out[e], 1, n)) \o SubSeq(out[e], n + 1, Len(out[e]))
    BY <1>1, Both DEF Line
  <2>2. Line(e)' = Line(e)
    <3>1. PICK g, i, u : g = got[o] /\ i = stream[e] /\ u = out[e]
      OBVIOUS
    <3>2. g \in Seq(Unit) /\ i \in Seq(Unit) /\ u \in Seq(Unit) /\ n \in Nat /\ n <= Len(u)
      BY <1>2, <3>1
    <3>3. g \o (i \o SubSeq(u, 1, n)) \o SubSeq(u, n + 1, Len(u)) = g \o i \o u
      BY <3>2, Moved, ZenonT(30)
    <3>4. QED
      BY <2>1, <3>1, <3>3 DEF Line
  <2>3. pc'[o] = pc[o] /\ pc[e] # "closed" /\ sent'[e] = sent[e] /\ given'[e] = given[e]
    BY <1>1, Both
  <2>4. QED
    BY <2>2, <2>3 DEF Effect, Steady, Open
<1>5. \A d \in End : Written(d)'
  BY <1>1, Both DEF Written
<1>6. \A d \in End : Reader(d)'
  BY <1>1, Both DEF Reader, ReadInv
<1>7. QED
  BY <1>3, <1>4, <1>5, <1>6, Both DEF Follows

(* No socket that fails to wait for room or input.                         *)
Blocking == NonBlocking = {}

LEMMA WriteFailsEffect ==
  ASSUME StreamInv, Blocking, NEW e \in End, WriteFails(e)
  PROVE  Follows
<1> DEFINE o == Other(e)
<1>1. /\ pc[e] = "write" /\ ~Open(o) /\ out' = [out EXCEPT ![e] = <<>>] /\ pc' = [pc EXCEPT ![e] = "idle"]
      /\ UNCHANGED <<got, need, stream, given, sent>>
  BY DEF WriteFails, Waits, Blocking
<1>2. Effect(o)
  <2>1. o \in End /\ Other(o) = e /\ o # e
    BY Both
  <2>2. /\ got'[e] = got[e] /\ stream'[o] = stream[o] /\ out'[o] = out[o] /\ sent'[o] = sent[o]
        /\ given'[o] = given[o] /\ pc'[o] = pc[o] /\ pc[e] # "closed"
    BY <1>1, <2>1, Both
  <2>3. QED
    BY <2>1, <2>2, Untouched
<1>3. Effect(e)
  <2>1. ~Open(o)'
    BY <1>1, Both DEF Open
  <2>2. QED
    BY <1>1, <2>1 DEF Effect, Gone
<1>4. \A d \in End : Written(d)'
  BY <1>1, Both DEF Written
<1>5. \A d \in End : Reader(d)'
  BY <1>1, Both DEF Reader, ReadInv
<1>6. QED
  BY <1>2, <1>3, <1>4, <1>5, Both DEF Follows

LEMMA BeginReadEffect ==
  ASSUME StreamInv, NEW e \in End, BeginRead(e)
  PROVE  Follows
<1>1. /\ pc[e] = "idle" /\ pc' = [pc EXCEPT ![e] = "header"] /\ got' = [got EXCEPT ![e] = <<>>]
      /\ UNCHANGED <<out, need, stream, given, sent, error>>
  BY DEF BeginRead
<1>2. got[e] = <<>>
  BY <1>1, Both DEF Reader, ReadInv
<1>3. got' = got
  BY <1>1, <1>2, Both
<1>4. ASSUME NEW d \in End
      PROVE  Effect(d)
  <2>1. pc[d] = "closed" => pc'[d] = "closed"
    BY <1>1, Both
  <2>2. pc[Other(d)] = "closed" => pc'[Other(d)] = "closed"
    BY <1>1, Both, TwoEnds
  <2>3. QED
    BY <1>1, <1>3, <2>1, <2>2, Untouched
<1>5. \A d \in End : Written(d)'
  BY <1>1, Both DEF Written
<1>6. \A d \in End : Reader(d)'
  <2>1. ReadInv("header", <<>>, need[e])
    <3>1. Len(<<>>) = 0 /\ 0 < Header /\ Beginning(<<>>)
      BY NoUnits, Sizes
    <3>2. QED
      BY <3>1 DEF ReadInv
  <2>2. Reader(e)'
    BY <1>1, <1>2, <1>3, <2>1, Both DEF Reader
  <2>3. QED
    BY <1>1, <1>3, <2>2, Both DEF Reader
<1>7. QED
  BY <1>4, <1>5, <1>6 DEF Follows

LEMMA ReadNothingEffect ==
  ASSUME StreamInv, Blocking, NEW e \in End, ReadNothing(e)
  PROVE  Follows
<1> DEFINE o == Other(e)
<1>1. /\ pc[e] \in {"header", "body"} /\ stream[o] = <<>> /\ pc[o] = "closed"
      /\ pc' = [pc EXCEPT ![e] = "idle"] /\ got' = [got EXCEPT ![e] = <<>>]
      /\ UNCHANGED <<out, stream, given, sent>>
  BY DEF ReadNothing, Ended, Input, Waits, Blocking, GiveUp, Open
<1>2. o \in End /\ Other(o) = e /\ o # e
  BY Both
<1>3. /\ got'[e] = <<>> /\ stream'[o] = <<>> /\ pc'[e] = "idle"
      /\ pc'[o] = "closed" /\ out[o] = <<>> /\ out[e] = <<>>
  BY <1>1, <1>2, Both DEF Written
<1>4. Effect(o)
  <2>1. Line(o)' = <<>>
    <3>1. Line(o)' = <<>> \o <<>> \o <<>>
      BY <1>1, <1>2, <1>3 DEF Line
    <3>2. <<>> \o <<>> = <<>>
      BY NoUnits, ConcatEmptySeq
    <3>3. QED
      BY <3>1, <3>2
  <2>2. Line(o)' \in Seq(Unit) /\ Len(Line(o)') = 0 /\ 1..0 = {}
    BY <2>1, NoUnits
  <2>3. \A i \in 1..Len(Line(o)') : i \in 1..Len(Line(o)) /\ Line(o)'[i] = Line(o)[i]
    BY <2>2
  <2>4. Open(Other(o)) /\ ~Open(o)'
    BY <1>1, <1>2, <1>3 DEF Open
  <2>5. QED
    BY <1>1, <1>3, <2>2, <2>3, <2>4 DEF Effect, Dropped
<1>5. Effect(e)
  <2>1. ~Open(o)'
    BY <1>3 DEF Open
  <2>2. QED
    BY <1>1, <2>1 DEF Effect, Gone
<1>6. \A d \in End : Written(d)'
  BY <1>1, <1>3, Both DEF Written
<1>7. \A d \in End : Reader(d)'
  <2>1. Reader(e)'
    BY <1>3, NoUnits DEF Reader, ReadInv
  <2>2. Reader(o)'
    <3>1. got'[o] = got[o] /\ got[o] = <<>>
      BY <1>1, <1>2, Both DEF Reader, ReadInv
    <3>2. QED
      BY <1>3, <3>1, NoUnits DEF Reader, ReadInv
  <2>3. QED
    BY <2>1, <2>2, Both
<1>8. QED
  BY <1>4, <1>5, <1>6, <1>7, Both DEF Follows

LEMMA CloseEffect ==
  ASSUME StreamInv, NEW e \in End, Close(e)
  PROVE  Follows
<1> DEFINE o == Other(e)
           q == Line(e)
<1>1. PICK reset \in {FALSE, Input(e) # <<>>} :
        stream' = [f \in End |-> IF f = e /\ ~reset THEN stream[e] ELSE <<>>]
  BY DEF Close
<1>2. /\ pc[e] = "idle" /\ pc' = [pc EXCEPT ![e] = "closed"] /\ UNCHANGED <<out, got, need, given, sent>>
  BY DEF Close
<1>3. o \in End /\ Other(o) = e /\ o # e
  BY Both
<1>4. pc'[e] = "closed" /\ pc'[o] = pc[o] /\ out[e] = <<>>
  BY <1>2, <1>3, Both DEF Written
<1>5. Effect(o)
  <2>1. ~Open(Other(o))'
    BY <1>3, <1>4 DEF Open
  <2>2. QED
    BY <1>2, <2>1 DEF Effect, Gone
<1>6. Effect(e)
  <2>1. CASE stream'[e] = stream[e]
    <3>1. got'[o] = got[o] /\ out'[e] = out[e] /\ sent'[e] = sent[e] /\ given'[e] = given[e]
      BY <1>2
    <3>2. QED
      BY <1>2, <1>4, <2>1, <3>1, Untouched
  <2>2. CASE stream'[e] = <<>> /\ ~Open(o)
    <3>1. ~Open(o)'
      BY <1>4, <2>2 DEF Open
    <3>2. QED
      BY <1>2, <3>1 DEF Effect, Gone
  <2>3. CASE stream'[e] = <<>> /\ Open(o)
    <3>1. got[o] \in Seq(Unit) /\ stream[e] \in Seq(Unit) /\ out[e] \in Seq(Unit)
      BY Both, TypedLine
    <3>2. Line(e)' = got[o]
      <4>1. Line(e)' = got[o] \o <<>> \o <<>>
        BY <1>2, <1>4, <2>3 DEF Line
      <4>2. got[o] \o <<>> = got[o]
        BY <3>1, ConcatEmptySeq
      <4>3. QED
        BY <4>1, <4>2
    <3>3. \A i \in 1..Len(got[o]) : i \in 1..Len(q) /\ q[i] = got[o][i]
      BY <3>1, LineOf DEF Line
    <3>4. ~Open(e)' /\ sent'[e] = sent[e] /\ given'[e] = given[e]
      BY <1>2, <1>4 DEF Open
    <3>5. QED
      BY <2>3, <3>1, <3>2, <3>3, <3>4 DEF Effect, Dropped
  <2>4. stream'[e] = stream[e] \/ stream'[e] = <<>>
    BY <1>1
  <2>5. QED
    BY <2>1, <2>2, <2>3, <2>4
<1>7. \A d \in End : Written(d)'
  BY <1>2, <1>4, Both DEF Written
<1>8. \A d \in End : Reader(d)'
  BY <1>2, <1>4, Both DEF Reader, ReadInv
<1>9. QED
  BY <1>5, <1>6, <1>7, <1>8, Both DEF Follows

(* The end that reads is open, and what it finds is the rest of a message. *)
LEMMA LineToRead ==
  ASSUME StreamInv, NEW e \in End, pc[e] \in {"header", "body"}, Input(e) # <<>>
  PROVE  LET o == Other(e)
             q == Line(o)
         IN /\ o \in End /\ Other(o) = e /\ o # e /\ Input(e) = stream[o]
            /\ got[e] \in Seq(Unit) /\ stream[o] \in Seq(Unit) /\ out[o] \in Seq(Unit)
            /\ q = got[e] \o stream[o] \o out[o] /\ q \in Seq(Unit) /\ q # <<>>
            /\ sent[o] \in 0..Messages - 1
            /\ Ordered(q, sent[o]) /\ Complete(q) /\ Open(e)
            /\ q[1].size \in Size /\ q[1].msg \in 0..Messages - 1
            /\ \A i \in 1..Len(got[e]) : got[e][i] = q[i]
<1> DEFINE o == Other(e)
           q == Line(o)
<1>1. o \in End /\ Other(o) = e /\ o # e /\ Input(e) = stream[o] /\ Open(e) /\ stream[o] # <<>>
  BY Both DEF Input, Open
<1>2. /\ got[e] \in Seq(Unit) /\ stream[o] \in Seq(Unit) /\ out[o] \in Seq(Unit)
      /\ q = got[e] \o stream[o] \o out[o] /\ q \in Seq(Unit) /\ sent[o] \in 0..Messages - 1
  BY <1>1, Both, TypedLine DEF Line
<1>3. Ordered(q, sent[o]) /\ Complete(q)
  BY <1>1, Both DEF LineInv
<1>4. /\ Len(q) = Len(got[e]) + Len(stream[o]) + Len(out[o])
      /\ Len(got[e]) \in Nat /\ Len(stream[o]) \in Nat /\ Len(out[o]) \in Nat
      /\ \A i \in 1..Len(got[e]) : i \in 1..Len(q) /\ q[i] = got[e][i]
  <2>1. PICK g, i, u : g = got[e] /\ i = stream[o] /\ u = out[o]
    OBVIOUS
  <2>2. g \in Seq(Unit) /\ i \in Seq(Unit) /\ u \in Seq(Unit) /\ q = g \o i \o u
    BY <1>2, <2>1
  <2>3. /\ Len(g \o i \o u) = Len(g) + Len(i) + Len(u)
        /\ Len(g) \in Nat /\ Len(i) \in Nat /\ Len(u) \in Nat
        /\ \A k \in 1..Len(g) : k \in 1..Len(g \o i \o u) /\ (g \o i \o u)[k] = g[k]
    <3>1. g \in Seq(Unit) /\ i \in Seq(Unit) /\ u \in Seq(Unit)
      BY <2>2
    <3>2. QED
      BY ONLY <3>1, LineOf
  <2>4. QED
    BY <2>1, <2>2, <2>3
<1>5. q # <<>>
  <2>1. Len(stream[o]) # 0
    BY <1>1, <1>2, EmptySeq
  <2>2. PICK x, y, z : x = Len(got[e]) /\ y = Len(stream[o]) /\ z = Len(out[o])
    OBVIOUS
  <2>3. Len(q) = x + y + z /\ x \in Nat /\ y \in Nat /\ z \in Nat /\ y # 0
    BY <1>4, <2>1, <2>2
  <2>4. Len(q) # 0
    BY <2>3
  <2>5. QED
    BY <2>4, EmptySeq
<1>6. q[1].size \in Size /\ q[1].msg \in 0..Messages - 1
  <2>1. 1 \in 1..Len(q)
    BY <1>2, <1>3, <1>5, FirstMessage
  <2>2. QED
    BY <1>2, <2>1, UnitOf
<1>7. QED
  BY <1>1, <1>2, <1>3, <1>4, <1>5, <1>6

(* What an end has read when it takes n units more, within the message.    *)
LEMMA TakeOf ==
  ASSUME StreamInv, NEW e \in End, pc[e] \in {"header", "body"}, Input(e) # <<>>,
         NEW n \in Nat, n <= Len(Input(e)), Len(got[e]) + n <= Line(Other(e))[1].size
  PROVE  LET q == Line(Other(e))
             a == got[e] \o SubSeq(Input(e), 1, n)
         IN /\ a \in Seq(Unit) /\ Len(a) = Len(got[e]) + n
            /\ Len(a) # 0 => a[1].size = q[1].size
            /\ Len(a) < q[1].size => Beginning(a)
            /\ a = SubSeq(Units(q[1].msg, q[1].size), 1, Len(a))
            /\ <<>> \o SubSeq(Input(e), n + 1, Len(Input(e))) \o out[Other(e)] = SubSeq(q, Len(a) + 1, Len(q))
            /\ a \o SubSeq(Input(e), n + 1, Len(Input(e))) \o out[Other(e)] = q
<1>1. PICK q, i, g, u : q = Line(Other(e)) /\ i = Input(e) /\ g = got[e] /\ u = out[Other(e)]
  OBVIOUS
<1>2. PICK s : s = sent[Other(e)]
  OBVIOUS
<1>3. /\ g \in Seq(Unit) /\ i \in Seq(Unit) /\ u \in Seq(Unit) /\ q = g \o i \o u
      /\ q \in Seq(Unit) /\ q # <<>> /\ s \in 0..Messages - 1 /\ Ordered(q, s) /\ Complete(q)
  BY <1>1, <1>2, LineToRead
<1>4. n <= Len(i) /\ Len(g) + n <= q[1].size
  BY <1>1
<1>5. PICK a : a = g \o SubSeq(i, 1, n)
  OBVIOUS
<1>6. a \o SubSeq(i, n + 1, Len(i)) \o u = q
  <2>1. g \in Seq(Unit) /\ i \in Seq(Unit) /\ u \in Seq(Unit) /\ n \in Nat /\ n <= Len(i)
    BY <1>3, <1>4
  <2>2. (g \o SubSeq(i, 1, n)) \o SubSeq(i, n + 1, Len(i)) \o u = g \o i \o u
    BY ONLY <2>1, Moved
  <2>3. QED
    BY <1>3, <1>5, <2>2
<1>7. /\ a \in Seq(Unit) /\ Len(a) = Len(g) + n
      /\ \A k \in 1..Len(a) : a[k] = q[k]
      /\ <<>> \o SubSeq(i, n + 1, Len(i)) \o u = SubSeq(q, Len(a) + 1, Len(q))
  <2>1. PICK c, r : c = SubSeq(i, 1, n) /\ r = SubSeq(i, n + 1, Len(i))
    OBVIOUS
  <2>2. c \in Seq(Unit) /\ Len(c) = n /\ r \in Seq(Unit)
    BY <1>3, <1>4, <2>1, Cut
  <2>3. PICK b : b = r \o u
    OBVIOUS
  <2>4. a \in Seq(Unit) /\ b \in Seq(Unit) /\ Len(a) = Len(g) + n
    <3>1. g \in Seq(Unit) /\ c \in Seq(Unit) /\ r \in Seq(Unit) /\ u \in Seq(Unit) /\ Len(c) = n
      BY <1>3, <1>5, <2>1, <2>2
    <3>2. g \o c \in Seq(Unit) /\ Len(g \o c) = Len(g) + Len(c) /\ r \o u \in Seq(Unit)
      BY ONLY <3>1, Halves, Together
    <3>3. QED
      BY <1>3, <1>5, <2>1, <2>3, <3>1, <3>2
  <2>5. a \o b = q
    <3>1. a \in Seq(Unit) /\ r \in Seq(Unit) /\ u \in Seq(Unit)
      BY <1>3, <2>2, <2>4
    <3>2. (a \o r) \o u = a \o (r \o u)
      BY ONLY <3>1, Together
    <3>3. QED
      BY <1>6, <2>1, <2>3, <3>2
  <2>6. /\ Len(a \o b) = Len(a) + Len(b) /\ Len(a) \in Nat /\ Len(b) \in Nat
        /\ SubSeq(a \o b, 1, Len(a)) = a
        /\ SubSeq(a \o b, Len(a) + 1, Len(a \o b)) = b
    BY <2>4, Halves
  <2>7. Len(a) <= Len(q) /\ SubSeq(q, 1, Len(a)) = a /\ SubSeq(q, Len(a) + 1, Len(q)) = b
    BY <2>5, <2>6
  <2>8. \A k \in 1..Len(a) : a[k] = q[k]
    <3>1. PICK h : h = SubSeq(q, 1, Len(a))
      OBVIOUS
    <3>2. q \in Seq(Unit) /\ Len(a) \in Nat /\ Len(a) <= Len(q)
      BY <1>3, <2>6, <2>7
    <3>3. \A k \in 1..Len(a) : h[k] = q[k]
      BY <3>1, <3>2, Cut
    <3>4. QED
      BY <2>7, <3>1, <3>3
  <2>9. <<>> \o r = r
    BY <2>2, ConcatEmptySeq
  <2>10. QED
    BY <2>1, <2>3, <2>4, <2>7, <2>8, <2>9
<1>8. Len(a) <= q[1].size
  BY <1>4, <1>7
<1>9. /\ Len(a) # 0 => a[1].size = q[1].size
      /\ Len(a) < q[1].size => Beginning(a)
      /\ a = SubSeq(Units(q[1].msg, q[1].size), 1, Len(a))
  BY <1>3, <1>7, <1>8, ReadOfFirst
<1>10. QED
  BY <1>1, <1>5, <1>6, <1>7, <1>9

LEMMA ReadHeaderEffect ==
  ASSUME StreamInv, NEW e \in End, ReadHeader(e)
  PROVE  Follows
<1> DEFINE o == Other(e)
           q == Line(o)
<1>1. /\ pc[e] = "header" /\ Input(e) # <<>> /\ UNCHANGED <<out, given, sent, error>>
  BY DEF ReadHeader
<1>2. /\ o \in End /\ Other(o) = e /\ o # e /\ Input(e) = stream[o]
      /\ got[e] \in Seq(Unit) /\ stream[o] \in Seq(Unit) /\ Open(e)
      /\ q[1].size \in Size /\ q[1].msg \in 0..Messages - 1
  BY <1>1, LineToRead
<1>3. PICK size : size = q[1].size
  OBVIOUS
<1>4. size \in Size /\ size \in Nat /\ size > Header /\ Header \in Nat \ {0}
  BY <1>2, <1>3, Sizes
<1>5. Len(got[e]) \in Nat /\ Len(got[e]) < Header /\ Len(Input(e)) \in Nat
  <2>1. Len(got[e]) < Header
    BY <1>1, Both DEF Reader, ReadInv
  <2>2. QED
    BY <1>2, <2>1
<1>6. PICK h : h = HeaderMissing(e)
  OBVIOUS
<1>7. h \in Nat /\ h > 0 /\ Len(got[e]) + h = Header
  BY <1>4, <1>5, <1>6 DEF HeaderMissing
(* The read takes n units and leaves the end in the header or the body.    *)
<1>8. ASSUME NEW n \in Nat, n <= Len(Input(e)), n <= h, Take(e, n),
             \/ n < h /\ UNCHANGED <<pc, need>>
             \/ n = h /\ pc' = [pc EXCEPT ![e] = "body"] /\ need' = [need EXCEPT ![e] = size - Header]
      PROVE  Follows
  <2> DEFINE a == got[e] \o SubSeq(Input(e), 1, n)
             r == SubSeq(Input(e), n + 1, Len(Input(e)))
  <2>1. Len(got[e]) + n <= Header /\ Len(got[e]) + n <= size
    BY <1>4, <1>5, <1>7, <1>8
  <2>2. /\ got' = [got EXCEPT ![e] = a] /\ stream' = [stream EXCEPT ![o] = r]
    BY <1>2, <1>8 DEF Take
  <2>3. /\ a \in Seq(Unit) /\ Len(a) = Len(got[e]) + n
        /\ Len(a) # 0 => a[1].size = size
        /\ Len(a) < size => Beginning(a)
        /\ a \o r \o out[o] = q
    BY <1>1, <1>3, <1>8, <2>1, TakeOf
  <2> HIDE DEF a, r
  <2>4. Effect(o)
    <3>1. Line(o)' = q
      BY <1>1, <1>2, <2>2, <2>3, Both DEF Line
    <3>2. pc[e] # "closed" /\ pc'[o] = pc[o] /\ sent'[o] = sent[o] /\ given'[o] = given[o]
      BY <1>1, <1>2, <1>8, Both
    <3>3. QED
      BY <1>1, <1>2, <3>1, <3>2 DEF Effect, Steady, Open
  <2>5. Effect(e)
    <3>1. /\ got'[o] = got[o] /\ stream'[e] = stream[e] /\ out'[e] = out[e] /\ sent'[e] = sent[e]
          /\ given'[e] = given[e] /\ pc[e] # "closed" /\ pc'[o] = pc[o]
      BY <1>1, <1>2, <1>8, <2>2, Both
    <3>2. QED
      BY <3>1, Untouched
  <2>6. \A d \in End : Written(d)'
    <3>1. out' = out /\ \A d \in End : pc'[d] # "write" => pc[d] # "write"
      BY <1>1, <1>8, Both
    <3>2. \A d \in End : Written(d)
      BY Both
    <3>3. QED
      BY <3>1, <3>2 DEF Written
  <2>7. Reader(e)'
    <3>1. got'[e] = a /\ Beginning(a)
      BY <1>4, <2>1, <2>2, <2>3, Both
    <3>2. CASE n < h /\ UNCHANGED <<pc, need>>
      <4>1. Len(a) < Header
        <5>1. Len(got[e]) + n < Header
          BY <1>4, <1>5, <1>7, <3>2
        <5>2. QED
          BY <2>3, <5>1
      <4>2. pc'[e] = "header"
        BY <1>1, <3>2
      <4>3. QED
        BY <3>1, <4>1, <4>2 DEF Reader, ReadInv
    <3>3. CASE n = h /\ pc' = [pc EXCEPT ![e] = "body"] /\ need' = [need EXCEPT ![e] = size - Header]
      <4>1. Len(a) = Header
        BY <1>7, <2>3, <3>3
      <4>2. pc'[e] = "body" /\ need'[e] = size - Header
        BY <3>3, Both
      <4>3. size - Header > 0 /\ size = Header + (size - Header) /\ Header >= Header
        BY <1>4
      <4>4. a[1].size = size
        BY <1>4, <2>3, <4>1
      <4>5. QED
        BY <3>1, <4>1, <4>2, <4>3, <4>4 DEF Reader, ReadInv
    <3>4. QED
      BY <1>8, <3>2, <3>3
  <2>8. Reader(o)'
    BY <1>2, <1>8, <2>2, Both DEF Reader
  <2>9. QED
    BY <2>4, <2>5, <2>6, <2>7, <2>8, Both DEF Follows
<1>9. CASE Len(Input(e)) < h /\ Take(e, Len(Input(e))) /\ UNCHANGED <<pc, need>>
  <2>1. Len(Input(e)) <= Len(Input(e)) /\ Len(Input(e)) <= h
    BY <1>5, <1>7, <1>9
  <2>2. QED
    BY <1>5, <1>8, <1>9, <2>1
<1>10. ASSUME NEW stated \in Stated(got[e] \o SubSeq(Input(e), 1, h)), ~(Len(Input(e)) < h),
              IF stated = 0 THEN Flush(e) ELSE BeginBody(e, stated)
       PROVE  Follows
  <2> DEFINE a == got[e] \o SubSeq(Input(e), 1, h)
  <2>1. h <= Len(Input(e)) /\ h <= h
    BY <1>5, <1>7, <1>10
  <2>2. Len(got[e]) + h <= size
    BY <1>4, <1>7
  <2>3. /\ Len(a) = Len(got[e]) + h
        /\ Len(a) # 0 => a[1].size = size
        /\ a = SubSeq(Units(q[1].msg, q[1].size), 1, Len(a))
    BY <1>1, <1>3, <1>7, <2>1, <2>2, TakeOf
  <2>4. Len(a) = Header /\ a[1].size = size
    BY <1>4, <1>7, <2>3
  <2>5. \E m \in 0..Messages - 1, s \in Size : a = SubSeq(Units(m, s), 1, Header)
    BY <1>2, <2>3, <2>4
  <2>6. stated \in {size}
    BY <1>10, <2>4, <2>5 DEF Stated
  <2>7. stated = size /\ stated # 0
    BY <1>4, <2>6
  <2>8. Take(e, h) /\ pc' = [pc EXCEPT ![e] = "body"] /\ need' = [need EXCEPT ![e] = size - Header]
    BY <1>6, <1>10, <2>7 DEF BeginBody, BodySize
  <2>9. QED
    BY <1>7, <1>8, <2>1, <2>8
<1>11. QED
  BY <1>6, <1>9, <1>10 DEF ReadHeader

LEMMA WholePiece ==
  ASSUME NEW s \in Seq(Unit)
  PROVE  SubSeq(s, 1, Len(s)) = s
<1>1. Len(s) \in Nat /\ Len(s) <= Len(s)
  OBVIOUS
<1>2. PICK r : r = SubSeq(s, 1, Len(s))
  OBVIOUS
<1>3. r \in Seq(Unit) /\ Len(r) = Len(s) /\ \A i \in 1..Len(s) : r[i] = s[i]
  BY <1>1, <1>2, Cut
<1>4. QED
  BY <1>2, <1>3, SeqEqual

LEMMA ReadBodyEffect ==
  ASSUME StreamInv, NEW e \in End, ReadBody(e)
  PROVE  Follows
<1> DEFINE o == Other(e)
           q == Line(o)
<1>1. PICK n : n = Wanted(e)
  OBVIOUS
<1>2. /\ pc[e] = "body" /\ n > 0 /\ UNCHANGED <<out, sent, error>>
      /\ need' = [need EXCEPT ![e] = IF n < @ THEN @ - n ELSE 0]
      /\ IF n < need[e]
          THEN Take(e, n) /\ UNCHANGED <<pc, given>>
          ELSE /\ given' = [given EXCEPT ![o] = got[e] \o SubSeq(Input(e), 1, n)]
               /\ stream' = [stream EXCEPT ![o] = SubSeq(@, n + 1, Len(@))]
               /\ got' = [got EXCEPT ![e] = <<>>]
               /\ pc' = [pc EXCEPT ![e] = "idle"]
  BY <1>1 DEF ReadBody
<1>3. /\ need[e] \in Nat /\ Len(Input(e)) \in Nat /\ Len(got[e]) \in Nat /\ got[e] \in Seq(Unit)
      /\ Input(e) \in Seq(Unit)
  BY Both, Typed DEF TypeInv, Input
<1>4. n \in Nat /\ n <= need[e] /\ n <= Len(Input(e)) /\ Input(e) # <<>>
  <2>1. n \in Nat /\ n <= need[e] /\ n <= Len(Input(e))
    BY <1>1, <1>3 DEF Wanted, Least
  <2>2. Len(Input(e)) # 0
    BY <1>2, <1>3, <2>1
  <2>3. QED
    BY <2>1, <2>2, EmptySeq
<1>5. /\ o \in End /\ Other(o) = e /\ o # e /\ Input(e) = stream[o]
      /\ q # <<>> /\ Ordered(q, sent[o]) /\ Complete(q) /\ Open(e)
      /\ q[1].size \in Size /\ q[1].msg \in 0..Messages - 1
      /\ \A i \in 1..Len(got[e]) : got[e][i] = q[i]
  BY <1>2, <1>4, LineToRead
<1>6. Len(got[e]) >= Header /\ got[e][1].size = Len(got[e]) + need[e] /\ Header \in Nat \ {0}
  BY <1>2, Both, Sizes DEF Reader, ReadInv
<1>7. q[1].size = Len(got[e]) + need[e]
  <2>1. 1 \in 1..Len(got[e])
    BY <1>3, <1>6
  <2>2. QED
    BY <1>5, <1>6, <2>1
<1>8. PICK size : size = q[1].size
  OBVIOUS
<1>9. size = Len(got[e]) + need[e] /\ size \in Nat /\ Len(got[e]) + n <= size
  BY <1>3, <1>4, <1>7, <1>8
<1> DEFINE a == got[e] \o SubSeq(Input(e), 1, n)
           r == SubSeq(Input(e), n + 1, Len(Input(e)))
<1>10. /\ a \in Seq(Unit) /\ Len(a) = Len(got[e]) + n
       /\ Len(a) # 0 => a[1].size = size
       /\ Len(a) < size => Beginning(a)
       /\ a = SubSeq(Units(q[1].msg, q[1].size), 1, Len(a))
       /\ <<>> \o r \o out[o] = SubSeq(q, Len(a) + 1, Len(q))
       /\ a \o r \o out[o] = q
  BY <1>2, <1>4, <1>8, <1>9, TakeOf
<1>11. stream' = [stream EXCEPT ![o] = r]
  BY <1>2, <1>5 DEF Take
<1> HIDE DEF r
<1>12. \A d \in End : Written(d)'
  BY <1>2, Both DEF Written
<1>13. Effect(e) /\ Reader(o)'
  <2>1. /\ got'[o] = got[o] /\ stream'[e] = stream[e] /\ out'[e] = out[e] /\ sent'[e] = sent[e]
        /\ given'[e] = given[e] /\ pc[e] # "closed" /\ pc'[o] = pc[o] /\ need'[o] = need[o]
    <3>1. stream'[e] = stream[e] /\ out'[e] = out[e] /\ sent'[e] = sent[e] /\ pc[e] # "closed"
      BY <1>2, <1>5, <1>11, Both
    <3>2. need'[o] = need[o]
      BY <1>2, <1>5, Both
    <3>3. CASE n < need[e]
      <4>1. got' = [got EXCEPT ![e] = a] /\ UNCHANGED <<pc, given>>
        BY <1>2, <3>3 DEF Take
      <4>2. QED
        BY <1>5, <3>1, <3>2, <4>1, Both
    <3>4. CASE ~(n < need[e])
      <4>1. given' = [given EXCEPT ![o] = a] /\ got' = [got EXCEPT ![e] = <<>>] /\ pc' = [pc EXCEPT ![e] = "idle"]
        BY <1>2, <3>4
      <4>2. given'[e] = given[e] /\ got'[o] = got[o] /\ pc'[o] = pc[o]
        BY <1>5, <4>1, Both
      <4>3. QED
        BY <3>1, <3>2, <4>2
    <3>5. QED
      BY <3>3, <3>4
  <2>2. Reader(o)'
    BY <1>5, <2>1, Both DEF Reader
  <2>3. QED
    BY <2>1, <2>2, Untouched
<1>14. CASE n < need[e]
  <2>1. got' = [got EXCEPT ![e] = a] /\ UNCHANGED <<pc, given>> /\ need' = [need EXCEPT ![e] = need[e] - n]
    BY <1>2, <1>14 DEF Take
  <2> HIDE DEF a
  <2>2. Effect(o)
    <3>1. Line(o)' = q
      BY <1>2, <1>5, <1>10, <1>11, <2>1, Both DEF Line
    <3>2. stream[o] # <<>>
      BY <1>4, <1>5
    <3>3. QED
      BY <1>2, <2>1, <3>1, <3>2 DEF Effect, Steady, Open
  <2>3. Reader(e)'
    <3>1. got'[e] = a /\ pc'[e] = "body" /\ need'[e] = need[e] - n
      BY <1>2, <2>1, Both
    <3>2. PICK b, c, l : b = Len(got[e]) /\ c = need[e] /\ l = Len(a)
      OBVIOUS
    <3>3. /\ b \in Nat /\ c \in Nat /\ l = b + n /\ n < c /\ size = b + c /\ Header \in Nat \ {0} /\ b >= Header
      BY <1>3, <1>6, <1>9, <1>10, <1>14, <3>2
    <3>4. l >= Header /\ c - n > 0 /\ size = l + (c - n) /\ l < size /\ l # 0
      BY <1>4, <3>3
    <3>5. Beginning(a) /\ a[1].size = size
      BY <1>10, <3>2, <3>4
    <3>6. QED
      BY <3>1, <3>2, <3>4, <3>5 DEF Reader, ReadInv
  <2>4. QED
    BY <1>12, <1>13, <2>2, <2>3, Both DEF Follows
<1>15. CASE ~(n < need[e])
  <2>1. /\ given' = [given EXCEPT ![o] = a] /\ got' = [got EXCEPT ![e] = <<>>] /\ pc' = [pc EXCEPT ![e] = "idle"]
    BY <1>2, <1>15
  <2>2. n = need[e]
    BY <1>3, <1>4, <1>15
  <2> HIDE DEF a
  <2>3. Len(a) = size
    BY <1>9, <1>10, <2>2
  <2>4. a = Units(q[1].msg, q[1].size)
    <3>1. Units(q[1].msg, q[1].size) \in Seq(Unit) /\ Len(Units(q[1].msg, q[1].size)) = q[1].size
      BY <1>5, UnitsOf
    <3>2. SubSeq(Units(q[1].msg, q[1].size), 1, Len(Units(q[1].msg, q[1].size))) = Units(q[1].msg, q[1].size)
      BY <3>1, WholePiece
    <3>3. QED
      BY <1>8, <1>10, <2>3, <3>1, <3>2
  <2>5. Effect(o)
    <3>1. Line(o)' = SubSeq(q, q[1].size + 1, Len(q))
      <4>1. Line(o)' = <<>> \o r \o out[o]
        BY <1>2, <1>5, <1>11, <2>1, Both DEF Line
      <4>2. QED
        BY <1>8, <1>10, <2>3, <4>1
    <3>2. /\ given'[o] = Units(q[1].msg, q[1].size) /\ pc'[o] = pc[o] /\ pc'[e] = "idle" /\ sent'[o] = sent[o]
      BY <1>2, <1>5, <2>1, <2>4, Both
    <3>3. QED
      BY <1>5, <3>1, <3>2 DEF Effect, Handed, Open
  <2>6. Reader(e)'
    <3>1. got'[e] = <<>> /\ pc'[e] = "idle"
      BY <2>1, Both
    <3>2. QED
      BY <3>1, NoUnits DEF Reader, ReadInv
  <2>7. QED
    BY <1>12, <1>13, <2>5, <2>6, Both DEF Follows
<1>16. QED
  BY <1>14, <1>15

(***************************************************************************)
(* The invariant                                                           *)
(***************************************************************************)
LEMMA StepFollows ==
  ASSUME StreamInv, Blocking, Next
  PROVE  Follows
<1>1. ASSUME NEW e \in End, Receive(e)
      PROVE  Follows
  BY <1>1, ReadHeaderEffect, ReadBodyEffect, ReadNothingEffect DEF Receive
<1>2. ASSUME NEW e \in End, CloseMarked(e) \/ (e \notin error /\ Close(e))
      PROVE  Follows
  BY <1>2, CloseEffect DEF CloseMarked
<1>3. QED
  BY <1>1, <1>2, SendEffect, WriteEffect, WriteFailsEffect, BeginReadEffect DEF Next

LEMMA StreamInit == Init => StreamInv
<1> SUFFICES ASSUME Init
             PROVE  StreamInv
  OBVIOUS
<1>1. TypeInv
  BY TypesInit
<1>2. ASSUME NEW e \in End
      PROVE  ReadInv(pc[e], got[e], need[e]) /\ LineInv(e)
  <2>1. /\ pc[e] = "idle" /\ got[e] = <<>> /\ out[e] = <<>> /\ stream[e] = <<>> /\ got[Other(e)] = <<>>
    BY TwoEnds DEF Init
  <2>2. Line(e) = <<>>
    <3>1. <<>> \o <<>> = <<>>
      BY NoUnits, ConcatEmptySeq
    <3>2. QED
      BY <2>1, <3>1 DEF Line
  <2>3. QED
    BY <2>1, <2>2, NoUnits DEF ReadInv, LineInv
<1>3. QED
  BY <1>1, <1>2 DEF StreamInv

LEMMA StreamKept ==
  ASSUME StreamInv, Blocking, [Next]_vars
  PROVE  StreamInv'
<1>1. CASE UNCHANGED vars
  BY <1>1 DEF vars, StreamInv, TypeInv, TypeOK, LineInv, Line, Open
<1>2. CASE Next
  <2>1. TypeInv'
    BY <1>2, TypesKept DEF StreamInv
  <2>2. \A d \in End : Effect(d) /\ Written(d)' /\ Reader(d)'
    BY <1>2, StepFollows DEF Follows
  <2>3. \A d \in End : LineInv(d)'
    BY <2>1, <2>2, EffectKeeps
  <2>4. QED
    BY <2>1, <2>2, <2>3 DEF StreamInv, Reader
<1>3. QED
  BY <1>1, <1>2

(* Where the sockets make the thread wait, the units between the ends are  *)
(* whole messages in the order of sending, up to the closing of an end,    *)
(* and what an end has read is the beginning of one of them (_writeLink,   *)
(* _readLink).                                                             *)
THEOREM StreamInvariant ==
  ASSUME Blocking
  PROVE  Spec => []StreamInv
<1>1. StreamInv /\ [Next]_vars => StreamInv'
  BY StreamKept
<1>2. QED
  BY <1>1, StreamInit, PTL DEF Spec

(***************************************************************************)
(* Message links                                                           *)
(***************************************************************************)
(* What comes is what is on the line, and an earlier message is an older   *)
(* one.                                                                    *)
ByAge(d) ==
  /\ Flight(d) = {Coming(d)[i].msg : i \in 1..Len(Coming(d))}
  /\ \A m \in Flight(d) : m \in 0..Messages - 1 /\ Age(sent[d], m) \in 1..Window
  /\ Order(d) = {pair \in Flight(d) \X Flight(d) : Age(sent[d], pair[2]) < Age(sent[d], pair[1])}

LEMMA OrderByAge ==
  ASSUME TypeInv, NEW d \in End, LineInv(d)
  PROVE  ByAge(d)
<1>1. PICK q, s, F : q = Coming(d) /\ s = sent[d] /\ F = Flight(d)
  OBVIOUS
<1>2. q \in Seq(Unit) /\ Ordered(q, s) /\ s \in 0..Messages - 1
  <2>1. CASE Open(Other(d))
    <3>1. q = Line(d)
      BY <1>1, <2>1 DEF Coming, Line
    <3>2. QED
      BY <1>1, <2>1, <3>1, TypedLine DEF LineInv
  <2>2. CASE ~Open(Other(d))
    BY <1>1, <2>2, NoUnits, TypedLine DEF Coming
  <2>3. QED
    BY <2>1, <2>2
<1>3. F = {q[i].msg : i \in 1..Len(q)}
  BY <1>1, <1>2, NumbersOf DEF Flight
<1>4. ASSUME NEW m \in F
      PROVE  m \in 0..Messages - 1 /\ Age(s, m) \in 1..Window
  <2>1. PICK i \in 1..Len(q) : m = q[i].msg
    BY <1>3
  <2>2. QED
    BY <1>2, <2>1, UnitOf DEF Ordered
<1>5. ASSUME NEW m \in F, NEW k \in F
      PROVE  /\ (m # k /\ \E i, j \in DOMAIN q : i < j /\ q[i].msg = m /\ q[j].msg = k)
                  <=> Age(s, k) < Age(s, m)
  <2>0. DOMAIN q = 1..Len(q) /\ Len(q) \in Nat
    BY <1>2
  <2>1. m \in 0..Messages - 1 /\ k \in 0..Messages - 1 /\ Age(s, m) \in 1..Window /\ Age(s, k) \in 1..Window
    BY <1>4
  <2>2. ASSUME m # k, NEW i \in 1..Len(q), NEW j \in 1..Len(q), i < j, q[i].msg = m, q[j].msg = k
        PROVE  Age(s, k) < Age(s, m)
    BY <1>2, <2>2 DEF Ordered
  <2>3. ASSUME Age(s, k) < Age(s, m)
        PROVE  m # k /\ \E i, j \in DOMAIN q : i < j /\ q[i].msg = m /\ q[j].msg = k
    <3>1. PICK i \in 1..Len(q) : q[i].msg = m
      BY <1>3
    <3>2. PICK j \in 1..Len(q) : q[j].msg = k
      BY <1>3
    <3>3. Age(s, m) # Age(s, k) /\ ~(Age(s, m) < Age(s, k)) /\ m # k
      BY <2>1, <2>3
    <3>4. ~(j < i)
      <4>1. j < i => Age(s, q[i].msg) < Age(s, q[j].msg) \/ q[i].msg = q[j].msg
        BY <1>2 DEF Ordered
      <4>2. QED
        BY <3>1, <3>2, <3>3, <4>1
    <3>5. i < j
      BY <3>1, <3>2, <3>3, <3>4
    <3>6. QED
      BY <2>0, <3>1, <3>2, <3>3, <3>5
  <2>4. QED
    BY <2>0, <2>2, <2>3
<1>6. Order(d) = {pair \in F \X F : Age(s, pair[2]) < Age(s, pair[1])}
  <2>1. Order(d) = {pair \in F \X F : pair[1] # pair[2] /\ \E i, j \in DOMAIN q :
                      i < j /\ q[i].msg = pair[1] /\ q[j].msg = pair[2]}
    BY <1>1 DEF Order
  <2>2. \A pair \in F \X F : pair[1] \in F /\ pair[2] \in F
    OBVIOUS
  <2>3. \A pair \in F \X F :
          (pair[1] # pair[2] /\ \E i, j \in DOMAIN q : i < j /\ q[i].msg = pair[1] /\ q[j].msg = pair[2])
            <=> Age(s, pair[2]) < Age(s, pair[1])
    BY <1>5, <2>2
  <2>4. QED
    BY <2>1, <2>3
<1>7. QED
  BY <1>1, <1>2, <1>3, <1>4, <1>6 DEF ByAge

LEMMA OrdersByAge == StreamInv => \A d \in End : ByAge(d)
BY OrderByAge DEF StreamInv

LEMMA OrdersByAgeNext == StreamInv' => (\A d \in End : ByAge(d))'
BY OrdersByAge, PTL

(* Messages of the line are gone, with a closed end or before a closed one. *)
LEMMA LossAllowed ==
  ASSUME StreamInv, StreamInv', NEW d \in End,
         Flight(d)' \subseteq Flight(d), sent'[d] = sent[d] \/ Flight(d)' = {}, Given(d)' = Given(d)
  PROVE  Direction(d)!Next
<1>1. ByAge(d) /\ ByAge(d)'
  BY OrdersByAge, OrdersByAgeNext
<1>2. Order(d)' = Order(d) \cap (Flight(d)' \X Flight(d)')
  <2>1. CASE sent'[d] = sent[d]
    BY <1>1, <2>1 DEF ByAge
  <2>2. CASE Flight(d)' = {}
    BY <1>1, <2>2 DEF ByAge
  <2>3. QED
    BY <2>1, <2>2
<1>3. Direction(d)!Remain(Flight(d)')
  BY <1>2 DEF Direction!Remain
<1>4. Direction(d)!Lose
  BY <1>3 DEF Direction!Lose
<1>5. QED
  BY <1>4 DEF Direction!Next

LEMMA SteadyAllowed ==
  ASSUME StreamInv, StreamInv', NEW d \in End, Steady(d)
  PROVE  Direction(d)!Next
<1>1. Given(d)' = Given(d) /\ sent'[d] = sent[d]
  BY DEF Steady, Given
<1>2. Coming(d)' = Coming(d) \/ Coming(d)' = <<>>
  BY DEF Steady, Coming, Line
<1>3. Flight(d)' = Numbers(Coming(d)') /\ Flight(d) = Numbers(Coming(d))
  BY DEF Flight
<1>4. Flight(d)' \subseteq Flight(d)
  BY <1>2, <1>3, NoUnits
<1>5. QED
  BY <1>1, <1>4, LossAllowed

LEMMA GoneAllowed ==
  ASSUME StreamInv, StreamInv', NEW d \in End, Gone(d)
  PROVE  Direction(d)!Next
<1>1. Given(d)' = Given(d)
  BY DEF Gone, Given
<1>2. Coming(d)' = <<>>
  BY DEF Gone, Coming, Open
<1>3. Flight(d)' = Numbers(Coming(d)')
  BY DEF Flight
<1>4. Flight(d)' = {}
  BY <1>2, <1>3, NoUnits
<1>5. QED
  BY <1>1, <1>4, LossAllowed

LEMMA DroppedAllowed ==
  ASSUME StreamInv, StreamInv', NEW d \in End, Dropped(d)
  PROVE  Direction(d)!Next
<1>1. Given(d)' = Given(d) /\ sent'[d] = sent[d]
  BY DEF Dropped, Given
<1>2. Coming(d) = Line(d) /\ Coming(d)' \in {Line(d)', <<>>}
  BY DEF Dropped, Coming, Line, Open
<1>3. \A i \in 1..Len(Coming(d)') : i \in 1..Len(Coming(d)) /\ Coming(d)'[i] = Coming(d)[i]
  BY <1>2, NoUnits DEF Dropped
<1>4. /\ Flight(d) = {Coming(d)[i].msg : i \in 1..Len(Coming(d))}
      /\ Flight(d)' = {Coming(d)'[i].msg : i \in 1..Len(Coming(d)')}
  BY OrdersByAge, OrdersByAgeNext DEF ByAge
<1>5. Flight(d)' \subseteq Flight(d)
  BY <1>3, <1>4
<1>6. QED
  BY <1>1, <1>5, LossAllowed

LEMMA HandedAllowed ==
  ASSUME StreamInv, StreamInv', NEW d \in End, Handed(d)
  PROVE  Direction(d)!Next
<1>1. PICK q, s, m, n : q = Line(d) /\ s = sent[d] /\ m = q[1].msg /\ n = q[1].size
  OBVIOUS
<1>2. PICK r : r = SubSeq(q, n + 1, Len(q))
  OBVIOUS
<1>3. /\ Coming(d) = q /\ Coming(d)' = r /\ sent'[d] = s /\ given'[d] = Units(m, n)
      /\ q # <<>> /\ Complete(q) /\ Ordered(q, s) /\ q \in Seq(Unit) /\ s \in 0..Messages - 1
  <2>1. Coming(d) = q /\ Coming(d)' = r
    BY <1>1, <1>2 DEF Handed, Coming, Line, Open
  <2>2. sent'[d] = s /\ given'[d] = Units(m, n) /\ q # <<>> /\ Complete(q)
    BY <1>1 DEF Handed
  <2>3. Ordered(q, s) /\ q \in Seq(Unit) /\ s \in 0..Messages - 1
    BY <1>1, TypedLine DEF Handed, StreamInv, LineInv
  <2>4. QED
    BY <2>1, <2>2, <2>3
<1>4. /\ 1 \in 1..Len(q) /\ n \in 1..Len(q)
      /\ \A i \in 1..n : q[i] = [msg |-> m, size |-> n, place |-> i]
      /\ \A i \in 1..Len(q) : i > n => Age(s, q[i].msg) < Age(s, m)
  BY <1>1, <1>3, FirstMessage
<1>5. Len(r) = Len(q) - n /\ \A i \in 1..Len(r) : i + n \in 1..Len(q) /\ r[i] = q[i + n]
  BY <1>1, <1>2, <1>3, WithoutFirst
<1>6. m \in 0..Messages - 1 /\ n \in Size /\ n \in Nat \ {0} /\ Len(q) \in Nat
  <2>1. m \in 0..Messages - 1 /\ n \in Size
    BY <1>1, <1>3, <1>4, UnitOf
  <2>2. QED
    BY <1>3, <2>1, Sizes
<1>7. /\ Flight(d) = {q[i].msg : i \in 1..Len(q)} /\ Flight(d)' = {r[i].msg : i \in 1..Len(r)}
      /\ \A k \in Flight(d) : Age(s, k) \in 1..Window
      /\ Order(d) = {pair \in Flight(d) \X Flight(d) : Age(s, pair[2]) < Age(s, pair[1])}
      /\ Order(d)' = {pair \in Flight(d)' \X Flight(d)' : Age(s, pair[2]) < Age(s, pair[1])}
  <2>1. ByAge(d) /\ ByAge(d)'
    BY OrdersByAge, OrdersByAgeNext
  <2>2. QED
    BY <1>1, <1>3, <2>1 DEF ByAge
<1>8. m \in Flight(d)
  BY <1>1, <1>4, <1>7
<1>9. Flight(d)' = {k \in Flight(d) : <<m, k>> \in Order(d)}
  <2>1. ASSUME NEW k \in Flight(d)'
        PROVE  k \in Flight(d) /\ Age(s, k) < Age(s, m)
    <3>1. PICK i \in 1..Len(r) : k = r[i].msg
      BY <1>7
    <3>2. i + n \in 1..Len(q) /\ r[i] = q[i + n] /\ i + n > n
      BY <1>5, <1>6
    <3>3. QED
      BY <1>4, <1>7, <3>1, <3>2
  <2>2. ASSUME NEW k \in Flight(d), Age(s, k) < Age(s, m)
        PROVE  k \in Flight(d)'
    <3>1. PICK j \in 1..Len(q) : k = q[j].msg
      BY <1>7
    <3>2. k # m
      BY <1>7, <1>8, <2>2
    <3>3. ~(j \in 1..n)
      <4>1. j \in 1..n => q[j] = [msg |-> m, size |-> n, place |-> j]
        BY <1>4
      <4>2. QED
        BY <3>1, <3>2, <4>1
    <3>4. j - n \in 1..Len(r) /\ (j - n) + n = j
      BY <1>5, <1>6, <3>3
    <3>5. k = r[j - n].msg
      BY <1>5, <3>1, <3>4
    <3>6. QED
      BY <1>7, <3>4, <3>5
  <2>3. \A k \in Flight(d) : <<m, k>> \in Order(d) <=> Age(s, k) < Age(s, m)
    BY <1>7, <1>8
  <2>4. QED
    BY <2>1, <2>2, <2>3
<1>10. Given(d)' = m
  <2>1. /\ Units(m, n) \in Seq(Unit) /\ Len(Units(m, n)) = n
        /\ Units(m, n)[1] = [msg |-> m, size |-> n, place |-> 1]
    <3>1. 1 \in 1..n
      BY <1>6
    <3>2. QED
      BY <1>6, <3>1, UnitsOf
  <2>2. Units(m, n) # <<>> /\ Units(m, n)[1].msg = m /\ Units(m, n)[1].size = n
    BY <1>6, <2>1, EmptySeq
  <2>3. QED
    BY <1>3, <2>2 DEF Given, Whole
<1>11. Order(d)' = Order(d) \cap (Flight(d)' \X Flight(d)')
  BY <1>7, <1>9
<1>12. Direction(d)!Remain({k \in Flight(d) : <<m, k>> \in Order(d)})
  BY <1>9, <1>11 DEF Direction!Remain
<1>13. Direction(d)!Deliver(m)
  BY <1>8, <1>10, <1>12 DEF Direction!Deliver
<1>14. QED
  BY <1>6, <1>13 DEF Direction!Next

LEMMA BegunAllowed ==
  ASSUME StreamInv, StreamInv', NEW d \in End, Begun(d)
  PROVE  Direction(d)!Next
<1>1. PICK q, s, t : q = Line(d) /\ s = sent[d] /\ t = sent'[d]
  OBVIOUS
<1>2. PICK size \in Size : Line(d)' = q \o Units(s, size)
  BY <1>1 DEF Begun
<1>3. PICK r : r = q \o Units(s, size)
  OBVIOUS
<1>4. /\ Coming(d) = q /\ Coming(d)' = r /\ t = (s + 1) % Messages /\ Given(d)' = Given(d)
      /\ q \in Seq(Unit) /\ s \in 0..Messages - 1
  <2>1. Coming(d) = q /\ Coming(d)' = r
    BY <1>1, <1>2, <1>3 DEF Begun, Coming, Line, Open
  <2>2. t = (s + 1) % Messages /\ Given(d)' = Given(d)
    BY <1>1 DEF Begun, Given
  <2>3. q \in Seq(Unit) /\ s \in 0..Messages - 1
    BY <1>1, TypedLine DEF StreamInv
  <2>4. QED
    BY <2>1, <2>2, <2>3
<1>5. /\ Ordered(q, s) /\ Complete(q) /\ Gapless(q, s)
      /\ \A i \in 1..Len(q) : Age(s, q[i].msg) < Window
  BY <1>1 DEF Begun, StreamInv, LineInv
<1>6. /\ Len(r) = Len(q) + size /\ Len(q) \in Nat
      /\ \A i \in 1..Len(r) :
           IF i <= Len(q) THEN i \in 1..Len(q) /\ r[i] = q[i]
           ELSE r[i] = [msg |-> s, size |-> size, place |-> i - Len(q)]
  BY <1>2, <1>3, <1>4, <1>5, WithNew
<1>7. /\ Flight(d) = {q[i].msg : i \in 1..Len(q)} /\ Flight(d)' = {r[i].msg : i \in 1..Len(r)}
      /\ \A k \in Flight(d) : k \in 0..Messages - 1 /\ Age(s, k) \in 1..Window
      /\ Order(d) = {pair \in Flight(d) \X Flight(d) : Age(s, pair[2]) < Age(s, pair[1])}
      /\ Order(d)' = {pair \in Flight(d)' \X Flight(d)' : Age(t, pair[2]) < Age(t, pair[1])}
  <2>1. ByAge(d) /\ ByAge(d)'
    BY OrdersByAge, OrdersByAgeNext
  <2>2. QED
    BY <1>1, <1>4, <2>1 DEF ByAge
<1>8. Flight(d)' = Flight(d) \cup {s}
  <2>0. size \in Nat \ {0}
    BY Sizes
  <2>1. ASSUME NEW i \in 1..Len(r)
        PROVE  r[i].msg \in Flight(d) \cup {s}
    BY <1>6, <1>7
  <2>2. ASSUME NEW i \in 1..Len(q)
        PROVE  q[i].msg \in Flight(d)'
    <3>1. i \in 1..Len(r) /\ i <= Len(q)
      BY <1>6, <2>0
    <3>2. r[i] = q[i]
      BY <1>6, <3>1
    <3>3. QED
      BY <1>7, <3>1, <3>2
  <2>3. s \in Flight(d)'
    <3>1. Len(q) + 1 \in 1..Len(r) /\ ~(Len(q) + 1 <= Len(q))
      BY <1>6, <2>0
    <3>2. r[Len(q) + 1] = [msg |-> s, size |-> size, place |-> (Len(q) + 1) - Len(q)]
      BY <1>6, <3>1
    <3>3. r[Len(q) + 1].msg = s
      BY <3>2
    <3>4. QED
      BY <1>7, <3>1, <3>3
  <2>4. QED
    BY <1>7, <2>1, <2>2, <2>3
<1>9. Age(t, s) = 1 /\ \A k \in Flight(d) : Age(t, k) = Age(s, k) + 1 /\ Age(s, k) \in Nat /\ Age(s, k) >= 1
  <2>1. Age(t, s) = 1
    BY <1>4, Ages
  <2>2. ASSUME NEW k \in Flight(d)
        PROVE  Age(t, k) = Age(s, k) + 1 /\ Age(s, k) \in Nat /\ Age(s, k) >= 1
    <3>1. k \in 0..Messages - 1 /\ Age(s, k) \in 1..Window
      BY <1>7
    <3>2. Age(s, k) \in Nat /\ Age(s, k) <= Window /\ Age(s, k) >= 1
      BY <3>1, Sizes
    <3>3. QED
      BY <1>4, <3>1, <3>2, Ages
  <2>3. QED
    BY <2>1, <2>2
<1>10. s \notin Flight(d)
  <2>1. Age(s, s) = 0
    BY <1>4, Ages
  <2>2. QED
    BY <1>9, <2>1
<1>11. Order(d)' = Order(d) \cup (Flight(d) \X {s})
  <2>1. ASSUME NEW a \in Flight(d)', NEW b \in Flight(d)'
        PROVE  Age(t, b) < Age(t, a) <=>
                 \/ a \in Flight(d) /\ b \in Flight(d) /\ Age(s, b) < Age(s, a)
                 \/ a \in Flight(d) /\ b = s
    <3>1. a \in Flight(d) \/ a = s
      BY <1>8
    <3>2. b \in Flight(d) \/ b = s
      BY <1>8
    <3>3. CASE a \in Flight(d) /\ b \in Flight(d)
      BY <1>9, <1>10, <3>3
    <3>4. CASE a \in Flight(d) /\ b = s
      BY <1>9, <3>4
    <3>5. CASE a = s
      BY <1>9, <1>10, <3>2, <3>5
    <3>6. QED
      BY <3>1, <3>2, <3>3, <3>4, <3>5
  <2>2. Flight(d) \subseteq Flight(d)' /\ s \in Flight(d)'
    BY <1>8
  <2>3. ASSUME NEW pair
        PROVE  pair \in Order(d)' <=> pair \in Order(d) \cup (Flight(d) \X {s})
    <3>1. pair \in Order(d)' <=>
            pair \in Flight(d)' \X Flight(d)' /\ Age(t, pair[2]) < Age(t, pair[1])
      BY <1>7
    <3>2. pair \in Order(d) <=>
            pair \in Flight(d) \X Flight(d) /\ Age(s, pair[2]) < Age(s, pair[1])
      BY <1>7
    <3>3. CASE pair \in Flight(d)' \X Flight(d)'
      <4>1. PICK a \in Flight(d)', b \in Flight(d)' : pair = <<a, b>>
        BY <3>3
      <4>2. QED
        BY <2>1, <3>1, <3>2, <4>1
    <3>4. CASE ~(pair \in Flight(d)' \X Flight(d)')
      BY <2>2, <3>1, <3>2, <3>4
    <3>5. QED
      BY <3>3, <3>4
  <2>4. QED
    BY <2>3
<1>12. Direction(d)!Send(s)
  BY <1>4, <1>8, <1>10, <1>11 DEF Direction!Send
<1>13. QED
  BY <1>4, <1>12 DEF Direction!Next

(* Where the sockets make the thread wait, what an end hands up is one     *)
(* message of the other from its first unit to its last, in the order of   *)
(* sending and at most once, however writes and reads cut the stream and   *)
(* whenever an end is closed (_TCPSend, _TCPReceive, _TCPClose).           *)
THEOREM StreamKeepsMessages ==
  ASSUME Blocking
  PROVE  Spec => ImplementsMessageLinks
<1>1. Init => \A e \in End : Direction(e)!Init
  <2> SUFFICES ASSUME Init, NEW e \in End
               PROVE  Direction(e)!Init
    OBVIOUS
  <2>1. Coming(e) = <<>>
    <3>1. <<>> \o <<>> = <<>>
      BY NoUnits, ConcatEmptySeq
    <3>2. got[Other(e)] = <<>> /\ stream[e] = <<>> /\ out[e] = <<>>
      BY TwoEnds DEF Init
    <3>3. QED
      BY <3>1, <3>2 DEF Coming
  <2>2. Flight(e) = {}
    BY <2>1, NoUnits DEF Flight
  <2>3. Order(e) = {}
    BY <2>2 DEF Order
  <2>4. Given(e) = None
    BY DEF Init, Given
  <2>5. QED
    BY <2>2, <2>3, <2>4 DEF Direction!Init
<1>2. StreamInv /\ StreamInv' /\ [Next]_vars => [\A e \in End : Direction(e)!Next \/ UNCHANGED Direction(e)!vars]_vars
  <2> SUFFICES ASSUME StreamInv, StreamInv', Next, NEW e \in End
               PROVE  Direction(e)!Next
    OBVIOUS
  <2>1. Effect(e)
    BY StepFollows DEF Follows
  <2>2. QED
    BY <2>1, SteadyAllowed, GoneAllowed, DroppedAllowed, HandedAllowed, BegunAllowed DEF Effect
<1>3. QED
  BY <1>1, <1>2, StreamInvariant, PTL DEF Spec, ImplementsMessageLinks

(***************************************************************************)
(* Datagram links.  Induction along a sequence                             *)
(***************************************************************************)
(* A set that has 0, and n + 1 with n, has every natural number.           *)
LEMMA SetInduction ==
  ASSUME NEW S, 0 \in S, \A n \in Nat : n \in S => n + 1 \in S
  PROVE  \A n \in Nat : n \in S
<1> SUFFICES ASSUME Nat \ S # {}
             PROVE  FALSE
  OBVIOUS
<1>1. PICK n \in Nat \ S : \A m \in Nat \ S : ~(<<m, n>> \in OpToRel(<, Nat))
  BY NatLessThanWellFounded, WFMin
<1>2. n # 0 /\ n - 1 \in Nat /\ n - 1 < n
  OBVIOUS
<1>3. n - 1 \in S
  BY <1>1, <1>2 DEF OpToRel
<1>4. (n - 1) + 1 = n
  OBVIOUS
<1>5. QED
  BY <1>2, <1>3, <1>4

(***************************************************************************)
(* The messages of one peer among the frames of all of them                *)
(***************************************************************************)
Mined(p, s, R) ==
  R = [n \in 0..Len(s) |-> IF n = 0 THEN <<>>
                           ELSE IF s[n].from = p /\ s[n].data # Nothing THEN Append(R[n - 1], s[n].data)
                           ELSE R[n - 1]]

LEMMA MinedExists ==
  ASSUME NEW p, NEW s, Len(s) \in Nat
  PROVE  \E R : Mined(p, s, R) /\ Mine(p, s) = R[Len(s)]
<1> DEFINE Then(r, n) == IF s[n].from = p /\ s[n].data # Nothing THEN Append(r, s[n].data) ELSE r
           Upto(F, m) == F = [n \in 0..m |-> IF n = 0 THEN <<>> ELSE Then(F[n - 1], n)]
           S == {m \in Nat : \E F : Upto(F, m)}
<1>1. 0 \in S
  <2>1. Upto([n \in 0..0 |-> <<>>], 0)
    OBVIOUS
  <2>2. QED
    BY <2>1
<1>2. ASSUME NEW m \in Nat, m \in S
      PROVE  m + 1 \in S
  <2>1. PICK F : Upto(F, m)
    <3> HIDE DEF Upto
    <3>1. QED
      BY <1>2
  <2> DEFINE G == [n \in 0..(m + 1) |-> IF n = m + 1 THEN Then(F[m], m + 1) ELSE F[n]]
  <2> HIDE DEF Then
  <2>2. \A n \in 0..m : F[n] = IF n = 0 THEN <<>> ELSE Then(F[n - 1], n)
    BY <2>1
  <2>3. ASSUME NEW n \in 0..(m + 1)
        PROVE  G[n] = IF n = 0 THEN <<>> ELSE Then(G[n - 1], n)
    <3>1. CASE n = m + 1
      <4>1. G[m] = F[m] /\ n - 1 = m /\ n # 0 /\ G[n] = Then(F[m], m + 1)
        BY <3>1
      <4> HIDE DEF G
      <4>2. QED
        BY <3>1, <4>1
    <3>2. CASE n # m + 1 /\ n # 0
      <4>1. n \in 0..m /\ n - 1 \in 0..m /\ n - 1 # m + 1 /\ n - 1 \in 0..(m + 1)
        BY <3>2
      <4>2. G[n] = F[n] /\ G[n - 1] = F[n - 1]
        BY <3>2, <4>1
      <4> HIDE DEF G
      <4>3. QED
        BY <2>2, <3>2, <4>1, <4>2
    <3>3. CASE n # m + 1 /\ n = 0
      <4>1. G[n] = F[n] /\ n \in 0..m
        BY <3>3
      <4> HIDE DEF G
      <4>2. QED
        BY <2>2, <3>3, <4>1
    <3>4. QED
      BY <3>1, <3>2, <3>3
  <2>4. G = [n \in 0..(m + 1) |-> G[n]]
    OBVIOUS
  <2>5. Upto(G, m + 1)
    <3> HIDE DEF G
    <3>1. QED
      BY <2>3, <2>4
  <2>6. QED
    <3> HIDE DEF G, Upto
    <3>1. QED
      BY <2>5
<1>3. Len(s) \in S
  <2> HIDE DEF S
  <2>1. QED
    BY <1>1, <1>2, SetInduction
<1> DEFINE P(F) == F = [n \in 0..Len(s) |->
                          IF n = 0 THEN <<>>
                          ELSE IF s[n].from = p /\ s[n].data # Nothing THEN Append(F[n - 1], s[n].data)
                          ELSE F[n - 1]]
           K == CHOOSE F : P(F)
<1>4. \E F : P(F)
  BY <1>3
<1>5. P(K)
  <2> HIDE DEF P
  <2>1. QED
    BY <1>4
<1>6. Mine(p, s) = K[Len(s)]
  BY DEF Mine
<1> HIDE DEF K
<1>7. QED
  BY <1>5, <1>6 DEF Mined

LEMMA MineNothing ==
  ASSUME NEW p
  PROVE  Mine(p, <<>>) = <<>>
<1>1. Len(<<>>) = 0
  OBVIOUS
<1>2. PICK R : Mined(p, <<>>, R) /\ Mine(p, <<>>) = R[0]
  BY <1>1, MinedExists
<1>3. R[0] = <<>>
  BY <1>1, <1>2 DEF Mined
<1>4. QED
  BY <1>2, <1>3

MineOf(p, r, f) == IF f.from = p /\ f.data # Nothing THEN Append(r, f.data) ELSE r

(* One more frame adds its message, if it is of this peer.                 *)
LEMMA MineOneMore ==
  ASSUME NEW p, NEW s \in Seq(Frame), NEW f \in Frame
  PROVE  Mine(p, Append(s, f)) = MineOf(p, Mine(p, s), f)
<1> DEFINE N == Len(s)
<1>1. PICK t : t = Append(s, f)
  OBVIOUS
<1>2. /\ t \in Seq(Frame) /\ N \in Nat /\ Len(t) = N + 1 /\ t[N + 1] = f
      /\ \A n \in 1..N : t[n] = s[n]
  BY <1>1, AppendProperties
<1>3. PICK R : Mined(p, s, R) /\ Mine(p, s) = R[N]
  BY <1>2, MinedExists
<1>4. PICK Q : Mined(p, t, Q) /\ Mine(p, t) = Q[N + 1]
  BY <1>2, MinedExists
<1> HIDE DEF N
<1>5. /\ \A n \in 0..N : R[n] = IF n = 0 THEN <<>> ELSE MineOf(p, R[n - 1], s[n])
      /\ \A n \in 0..N + 1 : Q[n] = IF n = 0 THEN <<>> ELSE MineOf(p, Q[n - 1], t[n])
  BY <1>2, <1>3, <1>4 DEF Mined, MineOf, N
<1> DEFINE S == {n \in Nat : n <= N => Q[n] = R[n]}
<1>6. 0 \in S
  <2>1. 0 \in 0..N /\ 0 \in 0..N + 1
    BY <1>2
  <2>2. QED
    BY <1>5, <2>1
<1>7. ASSUME NEW n \in Nat, n \in S
      PROVE  n + 1 \in S
  <2> SUFFICES ASSUME n + 1 <= N
               PROVE  Q[n + 1] = R[n + 1]
    OBVIOUS
  <2>1. n + 1 \in 0..N /\ n + 1 \in 0..N + 1 /\ n + 1 # 0 /\ (n + 1) - 1 = n /\ n + 1 \in 1..N /\ n <= N
    BY <1>2
  <2>2. Q[n] = R[n] /\ t[n + 1] = s[n + 1]
    BY <1>2, <1>7, <2>1
  <2>3. QED
    BY <1>5, <2>1, <2>2
<1>8. N \in S
  <2> HIDE DEF S
  <2>1. QED
    BY <1>2, <1>6, <1>7, SetInduction
<1>9. Q[N + 1] = MineOf(p, R[N], f)
  <2>1. N + 1 \in 0..N + 1 /\ N + 1 # 0 /\ (N + 1) - 1 = N
    BY <1>2
  <2>2. Q[N + 1] = MineOf(p, Q[(N + 1) - 1], t[N + 1])
    BY <1>5, <2>1
  <2>3. QED
    BY <1>2, <1>8, <2>1, <2>2
<1>10. QED
  BY <1>1, <1>3, <1>4, <1>9

(* Sequences of frames are made of their front and a last frame.           *)
LEMMA FrontAndLast ==
  ASSUME NEW n \in Nat, NEW t \in Seq(Frame), Len(t) = n + 1
  PROVE  \E s \in Seq(Frame), f \in Frame : t = Append(s, f) /\ Len(s) = n
<1>1. t # <<>>
  OBVIOUS
<1>2. PICK s \in Seq(Frame), f \in Frame : t = Append(s, f)
  BY <1>1, SequenceEmptyOrAppend
<1>3. QED
  BY <1>2

LEMMA MineData ==
  ASSUME NEW p, NEW s \in Seq(Frame)
  PROVE  Mine(p, s) \in Seq(Data)
<1> DEFINE S == {n \in Nat : \A t \in Seq(Frame) : Len(t) = n => Mine(p, t) \in Seq(Data)}
<1>1. 0 \in S
  <2>1. \A t \in Seq(Frame) : Len(t) = 0 => t = <<>>
    OBVIOUS
  <2>2. <<>> \in Seq(Data)
    OBVIOUS
  <2>3. QED
    BY <2>1, <2>2, MineNothing
<1>2. ASSUME NEW n \in Nat, n \in S
      PROVE  n + 1 \in S
  <2> SUFFICES ASSUME NEW t \in Seq(Frame), Len(t) = n + 1
               PROVE  Mine(p, t) \in Seq(Data)
    OBVIOUS
  <2>1. PICK u \in Seq(Frame), f \in Frame : t = Append(u, f) /\ Len(u) = n
    BY FrontAndLast
  <2>2. Mine(p, u) \in Seq(Data)
    BY <1>2, <2>1
  <2>3. Mine(p, t) = MineOf(p, Mine(p, u), f)
    BY <2>1, MineOneMore
  <2>4. f.data # Nothing => f.data \in Data
    BY DEF Frame
  <2> HIDE DEF S
  <2>5. CASE f.from = p /\ f.data # Nothing
    <3>1. PICK m, d : m = Mine(p, u) /\ d = f.data
      OBVIOUS
    <3>2. Append(m, d) \in Seq(Data)
      BY <2>2, <2>4, <2>5, <3>1
    <3>3. QED
      BY <2>3, <2>5, <3>1, <3>2 DEF MineOf
  <2>6. CASE ~(f.from = p /\ f.data # Nothing)
    BY <2>2, <2>3, <2>6 DEF MineOf
  <2>7. QED
    BY <2>5, <2>6
<1>3. QED
  <2>1. Len(s) \in Nat
    OBVIOUS
  <2>2. Len(s) \in S
    <3> HIDE DEF S
    <3>1. QED
      BY <1>1, <1>2, <2>1, SetInduction
  <2>3. QED
    BY <2>2

LEMMA JoinOneMore ==
  ASSUME NEW a \in Seq(Data), NEW b \in Seq(Data), NEW d \in Data
  PROVE  Append(a \o b, d) = a \o Append(b, d)
<1> DEFINE e == <<d>>
<1>1. e \in Seq(Data)
  OBVIOUS
<1>2. a \o b \in Seq(Data)
  OBVIOUS
<1>3. Append(a \o b, d) = (a \o b) \o e /\ Append(b, d) = b \o e
  BY <1>1, <1>2, AppendIsConcat
<1>4. (a \o b) \o e = a \o (b \o e)
  BY <1>1, ConcatAssociative
<1>5. QED
  BY <1>3, <1>4

LEMMA MineJoined ==
  ASSUME NEW p, NEW s \in Seq(Frame), NEW t \in Seq(Frame)
  PROVE  Mine(p, s \o t) = Mine(p, s) \o Mine(p, t)
<1> DEFINE S == {n \in Nat : \A u \in Seq(Frame) : Len(u) = n => Mine(p, s \o u) = Mine(p, s) \o Mine(p, u)}
<1>1. 0 \in S
  <2>1. \A u \in Seq(Frame) : Len(u) = 0 => u = <<>>
    OBVIOUS
  <2>2. Mine(p, s) \in Seq(Data) /\ s \o <<>> = s
    BY MineData
  <2>3. Mine(p, s \o <<>>) = Mine(p, s) \o Mine(p, <<>>)
    BY <2>2, MineNothing
  <2>4. QED
    BY <2>1, <2>3
<1>2. ASSUME NEW n \in Nat, n \in S
      PROVE  n + 1 \in S
  <2> SUFFICES ASSUME NEW u \in Seq(Frame), Len(u) = n + 1
               PROVE  Mine(p, s \o u) = Mine(p, s) \o Mine(p, u)
    OBVIOUS
  <2>1. PICK v \in Seq(Frame), f \in Frame : u = Append(v, f) /\ Len(v) = n
    BY FrontAndLast
  <2>2. Mine(p, s \o v) = Mine(p, s) \o Mine(p, v)
    BY <1>2, <2>1
  <2> HIDE DEF S
  <2>3. s \o u = Append(s \o v, f) /\ s \o v \in Seq(Frame)
    BY <2>1
  <2>4. PICK a, b, c, d : a = Mine(p, s) /\ b = Mine(p, v) /\ c = Mine(p, s \o v) /\ d = f.data
    OBVIOUS
  <2>5. Mine(p, s \o u) = MineOf(p, c, f) /\ Mine(p, u) = MineOf(p, b, f)
    <3>1. PICK w \in Seq(Frame) : w = s \o v
      BY <2>3
    <3>2. Mine(p, Append(w, f)) = MineOf(p, Mine(p, w), f) /\ Mine(p, Append(v, f)) = MineOf(p, Mine(p, v), f)
      BY MineOneMore
    <3>3. QED
      BY <2>1, <2>3, <2>4, <3>1, <3>2
  <2>6. a \in Seq(Data) /\ b \in Seq(Data) /\ c = a \o b
    BY <2>2, <2>4, MineData
  <2>7. CASE f.from = p /\ f.data # Nothing
    <3>1. d \in Data
      BY <2>4, <2>7 DEF Frame
    <3>2. Append(a \o b, d) = a \o Append(b, d)
      BY <2>6, <3>1, JoinOneMore
    <3>3. QED
      BY <2>4, <2>5, <2>6, <2>7, <3>2 DEF MineOf
  <2>8. CASE ~(f.from = p /\ f.data # Nothing)
    BY <2>4, <2>5, <2>6, <2>8 DEF MineOf
  <2>9. QED
    BY <2>7, <2>8
<1>3. QED
  <2>1. Len(t) \in Nat
    OBVIOUS
  <2>2. Len(t) \in S
    <3> HIDE DEF S
    <3>1. QED
      BY <1>1, <1>2, <2>1, SetInduction
  <2>3. QED
    BY <2>2

(* The first frame gives the first message, if it is of this peer.         *)
LEMMA MineFirst ==
  ASSUME NEW p, NEW s \in Seq(Frame), s # <<>>
  PROVE  /\ Head(s) \in Frame /\ Tail(s) \in Seq(Frame)
         /\ Mine(p, s) = IF Head(s).from = p /\ Head(s).data # Nothing
                           THEN <<Head(s).data>> \o Mine(p, Tail(s)) ELSE Mine(p, Tail(s))
<1>1. Head(s) \in Frame /\ Tail(s) \in Seq(Frame) /\ s = <<Head(s)>> \o Tail(s)
  OBVIOUS
<1>2. PICK f, t : f = Head(s) /\ t = Tail(s)
  OBVIOUS
<1>3. PICK u : u = Append(<<>>, f) /\ u \in Seq(Frame) /\ s = u \o t
  <2>1. PICK e \in Seq(Frame) : e = <<>>
    <3>1. <<>> \in Seq(Frame)
      OBVIOUS
    <3>2. QED
      BY <3>1
  <2>2. PICK v \in Seq(Frame) : v = <<f>>
    <3>1. <<f>> \in Seq(Frame)
      BY <1>1, <1>2
    <3>2. QED
      BY <3>1
  <2>3. Append(e, f) = e \o v
    BY <1>1, <1>2, <2>1, <2>2, AppendIsConcat
  <2>4. e \o v = v
    BY <2>1, <2>2
  <2>5. QED
    BY <1>1, <1>2, <2>1, <2>2, <2>3, <2>4
<1>4. Mine(p, u) = MineOf(p, <<>>, f)
  <2>1. PICK e : e = <<>>
    OBVIOUS
  <2>2. e \in Seq(Frame)
    BY <2>1
  <2>3. Mine(p, Append(e, f)) = MineOf(p, Mine(p, e), f)
    BY <1>1, <1>2, <2>2, MineOneMore
  <2>4. QED
    BY <1>3, <2>1, <2>3, MineNothing
<1>5. Mine(p, s) = Mine(p, u) \o Mine(p, t)
  BY <1>1, <1>2, <1>3, MineJoined
<1>6. Mine(p, t) \in Seq(Data)
  BY <1>1, <1>2, MineData
<1>7. PICK m : m = Mine(p, t)
  OBVIOUS
<1>8. <<>> \o m = m /\ Append(<<>>, f.data) = <<f.data>>
  BY <1>6, <1>7
<1>9. QED
  BY <1>1, <1>2, <1>4, <1>5, <1>7, <1>8 DEF MineOf

(***************************************************************************)
(* Types.  A link that is not there has no messages.                       *)
(***************************************************************************)
QueueInv == \A l \in Link : queue[l] # <<>> => owner[l] # Nothing

DatagramInv == DatagramTypeOK /\ QueueInv

QueuedMessage == [from : Peer, data : Data]

LEMMA QueuedIsFrame ==
  ASSUME NEW s \in Seq(QueuedMessage)
  PROVE  s \in Seq(Frame)
<1>1. \A x \in QueuedMessage : x \in Frame
  BY DEF QueuedMessage, Frame
<1>2. \A i \in 1..Len(s) : s[i] \in Frame
  BY <1>1, ElementOfSeq
<1>3. QED
  BY <1>2

LEMMA PieceOf ==
  ASSUME NEW s \in Seq(Frame), NEW m \in Nat \ {0}, NEW n \in Nat, n <= Len(s)
  PROVE  SubSeq(s, m, n) \in Seq(Frame) /\ Len(SubSeq(s, m, n)) = IF m <= n THEN n - m + 1 ELSE 0
<1>1. \A i \in m..n : s[i] \in Frame
  BY ElementOfSeq
<1>2. QED
  BY <1>1, SubSeqProperties

LEMMA PartsOf ==
  ASSUME NEW s \in Seq(Frame), NEW n \in 0..Len(s)
  PROVE  SubSeq(s, 1, n) \o SubSeq(s, n + 1, Len(s)) = s
<1>1. /\ SubSeq(s, 1, n) \in Seq(Frame) /\ Len(SubSeq(s, 1, n)) = n
      /\ SubSeq(s, n + 1, Len(s)) \in Seq(Frame) /\ Len(SubSeq(s, n + 1, Len(s))) = Len(s) - n
  <2>1. Len(s) \in Nat /\ n \in Nat /\ 1 \in Nat \ {0} /\ n + 1 \in Nat \ {0} /\ n <= Len(s)
    OBVIOUS
  <2>2. QED
    BY <2>1, PieceOf
<1>2. \A i \in 1..n : SubSeq(s, 1, n)[i] = s[i]
  BY SubSeqProperties
<1>3. \A i \in 1..Len(s) - n : SubSeq(s, n + 1, Len(s))[i] = s[n + i]
  BY SubSeqProperties
<1>4. PICK a, b : a = SubSeq(s, 1, n) /\ b = SubSeq(s, n + 1, Len(s))
  OBVIOUS
<1>5. /\ a \in Seq(Frame) /\ Len(a) = n /\ b \in Seq(Frame) /\ Len(b) = Len(s) - n
      /\ \A i \in 1..n : a[i] = s[i]
      /\ \A i \in 1..Len(s) - n : b[i] = s[n + i]
  BY <1>1, <1>2, <1>3, <1>4
<1>6. a \o b \in Seq(Frame) /\ Len(a \o b) = Len(s) /\ \A i \in 1..Len(s) : (a \o b)[i] = s[i]
  <2>1. Len(s) \in Nat /\ n \in Nat
    OBVIOUS
  <2>2. /\ a \o b \in Seq(Frame) /\ Len(a \o b) = Len(a) + Len(b)
        /\ \A i \in 1..Len(a) + Len(b) : (a \o b)[i] = IF i <= Len(a) THEN a[i] ELSE b[i - Len(a)]
    BY <1>5, ConcatProperties
  <2>3. ASSUME NEW i \in 1..Len(s)
        PROVE  (a \o b)[i] = s[i]
    <3>1. CASE i <= n
      BY <1>5, <2>1, <2>2, <3>1
    <3>2. CASE ~(i <= n)
      <4>1. i - n \in 1..Len(s) - n /\ n + (i - n) = i /\ i \in 1..Len(a) + Len(b) /\ ~(i <= Len(a))
        BY <1>5, <2>1, <3>2
      <4>2. (a \o b)[i] = b[i - n]
        BY <1>5, <2>2, <4>1
      <4>3. QED
        BY <1>5, <4>1, <4>2
    <3>3. QED
      BY <3>1, <3>2
  <2>4. QED
    BY <1>5, <2>1, <2>2, <2>3
<1>7. QED
  BY <1>4, <1>6, SeqEqual

(* A read takes the oldest frame; the others wait in the same order.       *)
LEMMA ReadOldest ==
  ASSUME DatagramTypeOK, Pending # <<>>, Read
  PROVE  /\ Pending \in Seq(Frame) /\ Head(Pending) \in Frame
         /\ socket' \in Seq(Frame) /\ buffer' \in Seq(Frame) /\ Len(buffer') < Batch
         /\ listener' \in SUBSET Event
         /\ buffer' = Tail(Pending) /\ buffer \o socket = Pending \o socket'
<1>1. socket \in Seq(Frame) /\ buffer \in Seq(Frame) /\ Len(buffer) < Batch /\ Batch \in Nat \ {0}
  BY DatagramAssumption DEF DatagramTypeOK
<1>2. listener' \in SUBSET Event
  BY DEF Read, EventIfMore, Event
<1>3. CASE buffer # <<>>
  <2>1. Pending = buffer /\ socket' = socket /\ buffer' = Tail(buffer)
    BY <1>3 DEF Pending, Read
  <2>2. Tail(buffer) \in Seq(Frame) /\ Head(buffer) \in Frame /\ Len(Tail(buffer)) = Len(buffer) - 1 /\ Len(buffer) \in Nat
    BY <1>1, <1>3
  <2>3. Len(buffer) - 1 < Batch
    BY <1>1, <2>2
  <2>4. QED
    BY <1>1, <1>2, <2>1, <2>2, <2>3
<1>4. CASE buffer = <<>>
  <2>1. PICK n : n = IF Len(socket) < Batch THEN Len(socket) ELSE Batch
    OBVIOUS
  <2>2. n \in 0..Len(socket) /\ n \in Nat /\ n <= Batch /\ Len(socket) \in Nat /\ n <= Len(socket)
    BY <1>1, <2>1
  <2>3. Pending = SubSeq(socket, 1, n)
    BY <1>4, <2>1 DEF Pending
  <2>4. Pending \in Seq(Frame) /\ Len(Pending) = n
    BY <1>1, <2>2, <2>3, PieceOf
  <2>5. socket' = SubSeq(socket, n + 1, Len(socket)) /\ buffer' = Tail(Pending)
    BY <1>4, <2>4 DEF Read
  <2>6. socket' \in Seq(Frame)
    BY <1>1, <2>2, <2>5, PieceOf
  <2>7. Pending \o socket' = socket
    BY <1>1, <2>2, <2>3, <2>5, PartsOf
  <2>8. buffer \o socket = socket
    BY <1>1, <1>4
  <2> HIDE DEF Pending
  <2>9. Head(Pending) \in Frame /\ Tail(Pending) \in Seq(Frame) /\ Len(Tail(Pending)) = n - 1
    BY <2>4
  <2>10. n - 1 < Batch
    BY <1>1, <2>2
  <2>11. QED
    BY <1>2, <2>4, <2>5, <2>6, <2>7, <2>8, <2>9, <2>10
<1>5. QED
  BY <1>3, <1>4

LEMMA CloseLinksTypes ==
  ASSUME DatagramInv, NEW C, CloseLinks(C)
  PROVE  /\ owner' \in [Link -> Peer \cup {Nothing}] /\ events' \in [Link -> SUBSET Event]
         /\ queue' \in [Link -> Seq(QueuedMessage)] /\ turn' \subseteq Link
         /\ QueueInv'
<1>1. owner' \in [Link -> Peer \cup {Nothing}] /\ events' \in [Link -> SUBSET Event] /\ turn' \subseteq Link
  BY DEF CloseLinks, DatagramInv, DatagramTypeOK
<1>2. <<>> \in Seq(QueuedMessage)
  OBVIOUS
<1>3. queue' \in [Link -> Seq(QueuedMessage)]
  BY <1>2 DEF CloseLinks, QueueReleased, DatagramInv, DatagramTypeOK, QueuedMessage
<1>4. QueueInv'
  BY DEF CloseLinks, QueueReleased, DatagramInv, QueueInv
<1>5. QED
  BY <1>1, <1>3, <1>4

LEMMA CloseListenerTypes ==
  ASSUME DatagramInv, CloseListener, phase' \in Phase
  PROVE  DatagramInv'
<1>1. /\ listener' = Nothing /\ table' = [p \in Peer |-> Nothing]
      /\ socket' = <<>> /\ buffer' = <<>> /\ UNCHANGED handed /\ CloseLinks(Entries)
  BY DEF CloseListener
<1>2. socket' \in Seq(Frame) /\ buffer' \in Seq(Frame) /\ Len(buffer') = 0 /\ 0 < Batch
  <2>1. <<>> \in Seq(Frame) /\ Len(<<>>) = 0
    OBVIOUS
  <2>2. QED
    BY <1>1, <2>1, DatagramAssumption
<1>3. QED
  BY <1>1, <1>2, CloseLinksTypes DEF DatagramInv, DatagramTypeOK, QueuedMessage

LEMMA ReceiveProxyTypes ==
  ASSUME DatagramInv, NEW l \in Link, ReceiveProxy(l)
  PROVE  DatagramInv'
<1>1. turn' \subseteq Link
  BY DEF ReceiveProxy, DatagramInv, DatagramTypeOK
<1>2. CASE queue[l] = <<>>
  BY <1>1, <1>2 DEF ReceiveProxy, DatagramInv, DatagramTypeOK, QueueInv, frames, Event
<1>3. CASE queue[l] # <<>>
  <2>1. PICK s \in Seq(QueuedMessage) : s = queue[l]
    BY DEF DatagramInv, DatagramTypeOK, QueuedMessage
  <2>2. /\ queue' = [queue EXCEPT ![l] = Tail(s)] /\ events' = [events EXCEPT ![l] = EventIfMore(Tail(s))]
        /\ handed' = [over |-> owner[l], from |-> Head(s).from, data |-> Head(s).data]
        /\ phase' = "Process" /\ UNCHANGED <<socket, buffer, listener, table, owner>>
    BY <1>3, <2>1 DEF ReceiveProxy, Oldest, frames
  <2>3. Head(s) \in QueuedMessage /\ Tail(s) \in Seq(QueuedMessage)
    BY <1>3, <2>1
  <2>4. owner[l] \in Peer
    BY <1>3 DEF DatagramInv, QueueInv, DatagramTypeOK
  <2>5. handed' \in [over : Peer, from : Peer, data : Data]
    BY <2>2, <2>3, <2>4 DEF QueuedMessage
  <2>6. events' \in [Link -> SUBSET Event]
    BY <2>2 DEF DatagramInv, DatagramTypeOK, EventIfMore, Event
  <2>7. queue' \in [Link -> Seq(QueuedMessage)]
    BY <2>2, <2>3 DEF DatagramInv, DatagramTypeOK, QueuedMessage
  <2>8. QueueInv'
    BY <1>3, <2>2 DEF DatagramInv, QueueInv, DatagramTypeOK
  <2>9. QED
    BY <1>1, <2>2, <2>5, <2>6, <2>7, <2>8 DEF DatagramInv, DatagramTypeOK, QueuedMessage, Phase
<1>4. QED
  BY <1>2, <1>3

LEMMA QueueMessageTypes ==
  ASSUME DatagramInv, NEW l \in Link, NEW f \in Frame, f.data # Nothing, QueueMessage(l, f)
  PROVE  /\ queue' \in [Link -> Seq(QueuedMessage)] /\ events' \in [Link -> SUBSET Event]
         /\ queue'[l] = Append(queue[l], f) /\ \A k \in Link \ {l} : queue'[k] = queue[k]
<1>1. f \in QueuedMessage
  BY DEF Frame, QueuedMessage
<1>2. PICK s \in Seq(QueuedMessage) : s = queue[l]
  BY DEF DatagramInv, DatagramTypeOK, QueuedMessage
<1>3. queue' = [queue EXCEPT ![l] = Append(s, f)] /\ events' = [events EXCEPT ![l] = @ \cup {"Receive"}]
  BY <1>2 DEF QueueMessage
<1>4. Append(s, f) \in Seq(QueuedMessage)
  BY <1>1, <1>2, AppendProperties
<1>5. QED
  BY <1>2, <1>3, <1>4 DEF DatagramInv, DatagramTypeOK, QueuedMessage, Event

LEMMA DemuxTypes ==
  ASSUME DatagramInv, NEW f \in Frame, f.data # Nothing, DemuxDelivery(f)
  PROVE  /\ table' \in [Peer -> Link \cup {Nothing}] /\ owner' \in [Link -> Peer \cup {Nothing}]
         /\ events' \in [Link -> SUBSET Event] /\ queue' \in [Link -> Seq(QueuedMessage)] /\ QueueInv'
<1>1. f.from \in Peer
  BY DEF Frame
<1>2. CASE NewLink(f)
  <2>1. PICK l \in Free : /\ table' = [table EXCEPT ![f.from] = l]
                          /\ owner' = [owner EXCEPT ![l] = f.from] /\ QueueMessage(l, f)
    BY <1>2 DEF NewLink
  <2>2. l \in Link
    BY DEF Free
  <2>3. table' \in [Peer -> Link \cup {Nothing}]
    BY <2>1, <2>2 DEF DatagramInv, DatagramTypeOK
  <2>4. owner' \in [Link -> Peer \cup {Nothing}]
    BY <1>1, <2>1 DEF DatagramInv, DatagramTypeOK
  <2>5. QueueInv'
    BY <1>1, <2>1, <2>2, QueueMessageTypes, DatagramAssumption DEF DatagramInv, DatagramTypeOK, QueueInv
  <2>6. QED
    BY <2>1, <2>2, <2>3, <2>4, <2>5, QueueMessageTypes
<1>3. CASE KnownLink(f)
  <2>1. table[f.from] \in Link /\ owner[table[f.from]] # Nothing /\ QueueMessage(table[f.from], f) /\ UNCHANGED <<table, owner>>
    BY <1>3 DEF KnownLink, Present
  <2>2. QueueInv'
    BY <2>1, QueueMessageTypes DEF DatagramInv, QueueInv
  <2>3. QED
    BY <2>1, <2>2, QueueMessageTypes DEF DatagramInv, DatagramTypeOK
<1>4. CASE FreedLink(f)
  BY <1>4 DEF FreedLink, links, DatagramInv, DatagramTypeOK, QueueInv, QueuedMessage
<1>5. QED
  BY <1>2, <1>3, <1>4 DEF DemuxDelivery

LEMMA ReceiveListenerTypes ==
  ASSUME DatagramInv, ReceiveListener
  PROVE  DatagramInv'
<1>1. Pending # <<>> /\ Read /\ AfterListening /\ UNCHANGED handed
  BY DEF ReceiveListener
<1>2. phase' \in Phase /\ turn' \subseteq Link
  BY <1>1 DEF AfterListening, Phase, DatagramInv, DatagramTypeOK
<1>3. PICK f \in Frame : f = Head(Pending)
  BY <1>1, ReadOldest DEF DatagramInv
<1>4. /\ table' \in [Peer -> Link \cup {Nothing}] /\ owner' \in [Link -> Peer \cup {Nothing}]
      /\ events' \in [Link -> SUBSET Event] /\ queue' \in [Link -> Seq(QueuedMessage)] /\ QueueInv'
  <2>1. CASE Decoded(f)
    BY <1>3, <2>1, DemuxTypes DEF ReceiveListener, Decoded
  <2>2. CASE ~Decoded(f)
    BY <1>3, <2>2 DEF ReceiveListener, links, DatagramInv, DatagramTypeOK, QueueInv, QueuedMessage
  <2>3. QED
    BY <2>1, <2>2
<1>5. socket' \in Seq(Frame) /\ buffer' \in Seq(Frame) /\ Len(buffer') < Batch /\ listener' \in SUBSET Event
  BY <1>1, ReadOldest DEF DatagramInv
<1>6. QED
  BY <1>1, <1>2, <1>4, <1>5 DEF DatagramInv, DatagramTypeOK, QueuedMessage

LEMMA ArriveTypes ==
  ASSUME DatagramInv, NEW p \in Peer, NEW d \in Data \cup {Nothing}, Arrive(p, d)
  PROVE  DatagramInv'
<1>1. PICK f \in Frame : f = [from |-> p, data |-> d]
  BY DEF Frame
<1>2. socket' = Append(socket, f) /\ UNCHANGED <<buffer, listener, table, owner, events, queue, phase, turn, handed>>
  BY <1>1 DEF Arrive, links, thread
<1>3. socket' \in Seq(Frame)
  BY <1>2, AppendProperties DEF DatagramInv, DatagramTypeOK
<1>4. QED
  BY <1>2, <1>3 DEF DatagramInv, DatagramTypeOK, QueueInv

LEMMA DatagramTypesInit == DatagramInit => DatagramInv
<1> SUFFICES ASSUME DatagramInit
             PROVE  DatagramInv
  OBVIOUS
<1>1. <<>> \in Seq(Frame) /\ <<>> \in Seq(QueuedMessage) /\ Len(<<>>) = 0 /\ 0 < Batch
  BY DatagramAssumption
<1>2. queue \in [Link -> Seq(QueuedMessage)]
  BY <1>1 DEF DatagramInit
<1>3. socket \in Seq(Frame) /\ buffer \in Seq(Frame) /\ Len(buffer) < Batch
  BY <1>1 DEF DatagramInit
<1>4. QED
  BY <1>2, <1>3 DEF DatagramInit, DatagramInv, DatagramTypeOK, QueueInv, QueuedMessage, Phase

LEMMA DatagramTypesKept == DatagramInv /\ [DatagramNext]_datagramVars => DatagramInv'
<1> SUFFICES ASSUME DatagramInv, [DatagramNext]_datagramVars
             PROVE  DatagramInv'
  OBVIOUS
<1> USE DEF frames, links, thread
<1>1. ASSUME NEW l \in Link, ReceiveProxy(l)
      PROVE  DatagramInv'
  BY <1>1, ReceiveProxyTypes
<1>2. ASSUME NEW l \in Link, CloseVisited(l)
      PROVE  DatagramInv'
  BY <1>2, CloseLinksTypes DEF CloseVisited, DatagramInv, DatagramTypeOK, QueuedMessage
<1>3. CASE Processed
  BY <1>3 DEF Processed, DatagramInv, DatagramTypeOK, QueueInv, Phase
<1>4. CASE EndOfSearch
  BY <1>4 DEF EndOfSearch, DatagramInv, DatagramTypeOK, QueueInv, Phase
<1>5. CASE NothingToRead
  <2>1. phase' \in Phase /\ turn' \subseteq Link
    BY <1>5 DEF NothingToRead, AfterListening, Phase, DatagramInv, DatagramTypeOK
  <2>2. QED
    BY <1>5, <2>1 DEF NothingToRead, DatagramInv, DatagramTypeOK, QueueInv
<1>6. CASE ReceiveListener
  BY <1>6, ReceiveListenerTypes
<1>7. CASE CloseFailed
  BY <1>7, CloseListenerTypes DEF CloseFailed, Phase
<1>8. CASE PollReturns
  <2>1. listener' \in (SUBSET Event) \cup {Nothing}
    BY <1>8 DEF PollReturns, HasInput, DatagramInv, DatagramTypeOK, Event
  <2>2. events' \in [Link -> SUBSET Event]
    BY <1>8 DEF PollReturns, DatagramInv, DatagramTypeOK, Event
  <2>3. QED
    BY <1>8, <2>1, <2>2 DEF PollReturns, DatagramInv, DatagramTypeOK, QueueInv, Phase
<1>9. ASSUME NEW p \in Peer, NEW d \in Data \cup {Nothing}, Arrive(p, d)
      PROVE  DatagramInv'
  BY <1>9, ArriveTypes
<1>10. ASSUME NEW l \in Link, SendFails(l)
       PROVE  DatagramInv'
  BY <1>10 DEF SendFails, DatagramInv, DatagramTypeOK, QueueInv, Event
<1>11. CASE CloseByName
  <2>1. CASE CloseListener
    BY <1>11, <2>1, CloseListenerTypes DEF CloseByName, DatagramInv, DatagramTypeOK
  <2>2. ASSUME NEW l \in Present, CloseLinks({l}), UNCHANGED <<socket, buffer, listener, table, handed>>
        PROVE  DatagramInv'
    BY <1>11, <2>2, CloseLinksTypes DEF CloseByName, DatagramInv, DatagramTypeOK, QueuedMessage
  <2>3. QED
    BY <1>11, <2>1, <2>2 DEF CloseByName
<1>12. CASE OpenListener
  BY <1>12 DEF OpenListener, DatagramInv, DatagramTypeOK, QueueInv
<1>13. CASE ReadFails
  <2>1. phase' \in Phase /\ turn' \subseteq Link /\ listener' \in SUBSET Event
    BY <1>13 DEF ReadFails, AfterListening, Phase, Event, DatagramInv, DatagramTypeOK
  <2>2. QED
    BY <1>13, <2>1 DEF ReadFails, DatagramInv, DatagramTypeOK, QueueInv
<1>14. CASE Crash \/ CloneCrashes
  BY <1>14 DEF Crash, CloneCrashes, Stop, DatagramInv, DatagramTypeOK, QueueInv, Phase
<1>15. CASE UNCHANGED datagramVars
  BY <1>15 DEF datagramVars, DatagramInv, DatagramTypeOK, QueueInv
<1>16. QED
  BY <1>1, <1>2, <1>3, <1>4, <1>5, <1>6, <1>7, <1>8, <1>9, <1>10, <1>11, <1>12, <1>13, <1>14, <1>15
     DEF DatagramNext, Engine, Others, Poll, PollOther

(* The listener, its table, the links and the thread keep their types,     *)
(* whether or not memory that the table still has is used again: what is   *)
(* handed up is of a peer, over a link that there is (_UDPReceiveProxy,    *)
(* _ETHReceiveProxy).                                                      *)
THEOREM DatagramTypeCorrect == DatagramSpec => []DatagramTypeOK
<1>1. DatagramInit => DatagramInv
  BY DatagramTypesInit
<1>2. DatagramInv /\ [DatagramNext]_datagramVars => DatagramInv'
  BY DatagramTypesKept
<1>3. DatagramInv => DatagramTypeOK
  BY DEF DatagramInv
<1>4. QED
  BY <1>1, <1>2, <1>3, PTL DEF DatagramSpec

(***************************************************************************)
(* A listener, its table and its links agree as long as no link is made in *)
(* memory that the table still has for another peer: a link is in the      *)
(* table under its peer, under no other, and its queue has messages of     *)
(* that peer.                                                              *)
(***************************************************************************)
NoAlias == \A p \in Peer : table[p] # Nothing => owner[table[p]] \in {Nothing, p}

Alone == \A p, q \in Peer : table[p] # Nothing /\ table[p] = table[q] => p = q

Entered == \A l \in Link : owner[l] # Nothing => table[owner[l]] = l

OfOwner == \A l \in Link : \A i \in 1..Len(queue[l]) : queue[l][i].from = owner[l]

PeersInv == DatagramInv /\ Alone /\ Entered /\ OfOwner

LEMMA NoneQueued ==
  ASSUME DatagramInv, NEW l \in Link, owner[l] = Nothing
  PROVE  queue[l] = <<>>
BY DEF DatagramInv, QueueInv

LEMMA CloseLinksPeers ==
  ASSUME PeersInv, NEW C, CloseLinks(C),
         \/ UNCHANGED table
         \/ table' = [p \in Peer |-> Nothing] /\ C = Entries
  PROVE  (Alone /\ Entered /\ OfOwner)'
<1>1. /\ \A l \in Link : owner'[l] = IF l \in C THEN Nothing ELSE owner[l]
      /\ \A l \in Link : queue'[l] = IF l \in C THEN <<>> ELSE queue[l]
  BY DEF CloseLinks, QueueReleased
<1>2. Len(<<>>) = 0
  OBVIOUS
<1>3. OfOwner'
  BY <1>1, <1>2 DEF OfOwner, PeersInv
<1>4. CASE UNCHANGED table
  BY <1>1, <1>3, <1>4 DEF PeersInv, Alone, Entered
<1>5. CASE table' = [p \in Peer |-> Nothing] /\ C = Entries
  <2>1. Alone'
    BY <1>5 DEF Alone
  <2>2. ASSUME NEW l \in Link
        PROVE  owner'[l] = Nothing
    <3>1. CASE owner[l] = Nothing
      BY <1>1, <3>1
    <3>2. CASE owner[l] # Nothing
      <4>1. owner[l] \in Peer /\ table[owner[l]] = l /\ l # Nothing
        BY <3>2, DatagramAssumption DEF PeersInv, DatagramInv, DatagramTypeOK, Entered
      <4>2. l \in C
        BY <1>5, <4>1 DEF Entries
      <4>3. QED
        BY <1>1, <4>2
    <3>3. QED
      BY <3>1, <3>2
  <2>3. QED
    BY <1>3, <2>1, <2>2 DEF Entered
<1>6. QED
  BY <1>4, <1>5

LEMMA NewIsUnknown ==
  ASSUME PeersInv, NoAlias', NEW peer \in Peer, NEW l \in Link, table[peer] = Nothing,
         table' = [table EXCEPT ![peer] = l], owner' = [owner EXCEPT ![l] = peer]
  PROVE  \A p \in Peer : table[p] # l
<1>1. l # Nothing /\ peer # Nothing
  BY DatagramAssumption
<1> SUFFICES ASSUME NEW p \in Peer, table[p] = l
             PROVE  FALSE
  OBVIOUS
<1>2. p # peer
  BY <1>1
<1>3. table'[p] = l /\ owner'[l] = peer
  BY <1>2 DEF PeersInv, DatagramInv, DatagramTypeOK
<1>4. owner'[table'[p]] \in {Nothing, p}
  BY <1>1, <1>3 DEF NoAlias
<1>5. QED
  BY <1>1, <1>2, <1>3, <1>4

LEMMA DemuxPeers ==
  ASSUME PeersInv, NoAlias', NEW f \in Frame, f.data # Nothing, DemuxDelivery(f)
  PROVE  (Alone /\ Entered /\ OfOwner)'
<1>1. f.from \in Peer /\ f.from # Nothing
  BY DatagramAssumption DEF Frame
<1>2. ASSUME NEW l \in Link, QueueMessage(l, f), owner'[l] = f.from,
             \A k \in Link \ {l} : owner'[k] = owner[k],
             owner[l] = Nothing \/ owner[l] = f.from
      PROVE  OfOwner'
  <2>1. PICK s \in Seq(QueuedMessage) : s = queue[l] /\ f \in QueuedMessage
    BY DEF PeersInv, DatagramInv, DatagramTypeOK, QueuedMessage, Frame
  <2>2. queue'[l] = Append(s, f) /\ \A k \in Link \ {l} : queue'[k] = queue[k]
    BY <1>2, <2>1, QueueMessageTypes DEF PeersInv
  <2>3. \A i \in 1..Len(s) : s[i].from = f.from
    <3>1. CASE owner[l] = Nothing
      <4>1. s = <<>>
        BY <2>1, <3>1, NoneQueued DEF PeersInv
      <4>2. QED
        BY <4>1
    <3>2. CASE owner[l] = f.from
      BY <2>1, <3>2 DEF PeersInv, OfOwner
    <3>3. QED
      BY <1>2, <3>1, <3>2
  <2>4. \A i \in 1..Len(Append(s, f)) : Append(s, f)[i].from = f.from
    <3>1. Len(Append(s, f)) = Len(s) + 1 /\ Append(s, f)[Len(s) + 1] = f /\ Len(s) \in Nat
          /\ \A i \in 1..Len(s) : Append(s, f)[i] = s[i]
      BY <2>1, AppendProperties
    <3>2. \A i \in 1..Len(s) + 1 : i \in 1..Len(s) \/ i = Len(s) + 1
      BY <3>1
    <3>3. QED
      BY <2>3, <3>1, <3>2
  <2>5. PICK t : t = Append(s, f)
    OBVIOUS
  <2>6. \A i \in 1..Len(queue'[l]) : queue'[l][i].from = owner'[l]
    BY <1>2, <2>2, <2>4, <2>5
  <2>7. ASSUME NEW k \in Link \ {l}
        PROVE  \A i \in 1..Len(queue'[k]) : queue'[k][i].from = owner'[k]
    <3>1. queue'[k] = queue[k] /\ owner'[k] = owner[k]
      BY <1>2, <2>2
    <3>2. QED
      BY <3>1 DEF PeersInv, OfOwner
  <2>8. QED
    BY <2>6, <2>7 DEF OfOwner
<1>3. CASE NewLink(f)
  <2>1. PICK l \in Free : /\ table' = [table EXCEPT ![f.from] = l]
                          /\ owner' = [owner EXCEPT ![l] = f.from] /\ QueueMessage(l, f)
    BY <1>3 DEF NewLink
  <2>2. l \in Link /\ owner[l] = Nothing /\ l # Nothing
    BY <2>1, DatagramAssumption DEF Free, Present
  <2>3. \A p \in Peer : table[p] # l
    BY <1>1, <1>3, <2>1, <2>2, NewIsUnknown DEF NewLink
  <2>4. table[f.from] = Nothing /\ table'[f.from] = l /\ \A p \in Peer \ {f.from} : table'[p] = table[p]
    BY <1>1, <1>3, <2>1 DEF NewLink, PeersInv, DatagramInv, DatagramTypeOK
  <2>5. Alone'
    BY <1>1, <2>3, <2>4 DEF PeersInv, Alone
  <2>6. \A k \in Link : owner[k] # Nothing => owner[k] \in Peer /\ owner[k] # f.from /\ table'[owner[k]] = k
    BY <1>1, <2>4, DatagramAssumption DEF PeersInv, DatagramInv, DatagramTypeOK, Entered
  <2>7. owner'[l] = f.from /\ \A k \in Link \ {l} : owner'[k] = owner[k]
    BY <2>1, <2>2 DEF PeersInv, DatagramInv, DatagramTypeOK
  <2>8. Entered'
    BY <2>4, <2>6, <2>7 DEF Entered
  <2>9. OfOwner'
    BY <1>2, <2>1, <2>2, <2>7
  <2>10. QED
    BY <2>5, <2>8, <2>9
<1>4. CASE KnownLink(f)
  <2>1. PICK l \in Link : l = table[f.from] /\ owner[l] # Nothing /\ QueueMessage(l, f) /\ UNCHANGED <<table, owner>>
    BY <1>4 DEF KnownLink, Present
  <2>2. owner[l] = f.from
    <3>1. owner[l] \in Peer /\ table[owner[l]] = l /\ l # Nothing
      BY <2>1, DatagramAssumption DEF PeersInv, DatagramInv, DatagramTypeOK, Entered
    <3>2. QED
      BY <1>1, <2>1, <3>1 DEF PeersInv, Alone
  <2>3. OfOwner'
    BY <1>2, <2>1, <2>2
  <2>4. QED
    BY <2>1, <2>3 DEF PeersInv, Alone, Entered
<1>5. CASE FreedLink(f)
  BY <1>5 DEF FreedLink, links, PeersInv, Alone, Entered, OfOwner
<1>6. QED
  BY <1>3, <1>4, <1>5 DEF DemuxDelivery

LEMMA ReceiveProxyPeers ==
  ASSUME PeersInv, NEW l \in Link, ReceiveProxy(l)
  PROVE  (Alone /\ Entered /\ OfOwner)'
<1>1. UNCHANGED <<table, owner>>
  BY DEF ReceiveProxy
<1>2. OfOwner'
  <2>1. CASE queue[l] = <<>>
    BY <1>1, <2>1 DEF ReceiveProxy, PeersInv, OfOwner
  <2>2. CASE queue[l] # <<>>
    <3>1. PICK s \in Seq(QueuedMessage) : s = queue[l]
      BY DEF PeersInv, DatagramInv, DatagramTypeOK, QueuedMessage
    <3>2. queue' = [queue EXCEPT ![l] = Tail(s)]
      BY <2>2, <3>1 DEF ReceiveProxy, Oldest
    <3>3. queue'[l] = Tail(s) /\ \A k \in Link \ {l} : queue'[k] = queue[k]
      BY <3>2 DEF PeersInv, DatagramInv, DatagramTypeOK
    <3>4. \A i \in 1..Len(Tail(s)) : i + 1 \in 1..Len(s) /\ Tail(s)[i] = s[i + 1]
      BY <2>2, <3>1
    <3>5. \A i \in 1..Len(Tail(s)) : Tail(s)[i].from = owner[l]
      BY <3>1, <3>4 DEF PeersInv, OfOwner
    <3>6. QED
      BY <1>1, <3>3, <3>5 DEF PeersInv, OfOwner
  <2>3. QED
    BY <2>1, <2>2
<1>3. QED
  BY <1>1, <1>2 DEF PeersInv, Alone, Entered

LEMMA PeersInit == DatagramInit => PeersInv
<1> SUFFICES ASSUME DatagramInit
             PROVE  PeersInv
  OBVIOUS
<1>1. \A l \in Link : Len(queue[l]) = 0
  BY DEF DatagramInit
<1>2. QED
  BY <1>1, DatagramTypesInit DEF DatagramInit, PeersInv, Alone, Entered, OfOwner

LEMMA PeersKept ==
  ASSUME NoAlias', PeersInv, [DatagramNext]_datagramVars
  PROVE  PeersInv'
<1>1. DatagramInv'
  BY DatagramTypesKept DEF PeersInv
<1>2. SUFFICES (Alone /\ Entered /\ OfOwner)'
  BY <1>1 DEF PeersInv
<1>3. CASE UNCHANGED <<table, owner, queue>>
  BY <1>3 DEF PeersInv, Alone, Entered, OfOwner
<1>4. ASSUME NEW l \in Link, ReceiveProxy(l)
      PROVE  (Alone /\ Entered /\ OfOwner)'
  BY <1>4, ReceiveProxyPeers
<1>5. ASSUME NEW C, CloseLinks(C), UNCHANGED table
      PROVE  (Alone /\ Entered /\ OfOwner)'
  BY <1>5, CloseLinksPeers
<1>6. CASE CloseListener
  BY <1>6, CloseLinksPeers DEF CloseListener
<1>7. CASE ReceiveListener
  <2>1. PICK f \in Frame : f = Head(Pending)
    BY <1>7, ReadOldest DEF ReceiveListener, PeersInv, DatagramInv
  <2>2. CASE Decoded(f)
    BY <1>7, <2>1, <2>2, DemuxPeers DEF ReceiveListener, Decoded
  <2>3. CASE ~Decoded(f)
    BY <1>3, <1>7, <2>1, <2>3 DEF ReceiveListener, links
  <2>4. QED
    BY <2>2, <2>3
<1>8. ASSUME Processed \/ EndOfSearch \/ NothingToRead \/ PollReturns \/ OpenListener \/ ReadFails
             \/ Crash \/ CloneCrashes \/ UNCHANGED datagramVars
      PROVE  UNCHANGED <<table, owner, queue>>
  BY <1>8 DEF Processed, EndOfSearch, NothingToRead, PollReturns, OpenListener, ReadFails, Crash, CloneCrashes, Stop, datagramVars, links
<1>9. ASSUME (\E p \in Peer, d \in Data \cup {Nothing} : Arrive(p, d)) \/ \E l \in Link : SendFails(l)
      PROVE  UNCHANGED <<table, owner, queue>>
  BY <1>9 DEF Arrive, SendFails, links
<1>10. ASSUME NEW l \in Link, CloseVisited(l)
       PROVE  (Alone /\ Entered /\ OfOwner)'
  BY <1>5, <1>10 DEF CloseVisited
<1>11. CASE CloseByName
  BY <1>5, <1>6, <1>11 DEF CloseByName
<1>12. CASE CloseFailed
  BY <1>6, <1>12 DEF CloseFailed
<1>13. QED
  BY <1>3, <1>4, <1>7, <1>8, <1>9, <1>10, <1>11, <1>12 DEF DatagramNext, Engine, Others, Poll, PollOther

(***************************************************************************)
(* What waits for a peer: its queue, then its frames that were read, then  *)
(* those in the socket.  But for a message handed up or new, a step takes  *)
(* some of the oldest away.                                                *)
(***************************************************************************)
Inbox(p) == IF table[p] = Nothing \/ Stale(p) THEN <<>> ELSE Mine(p, queue[table[p]])

LEMMA WaitingIs ==
  ASSUME DatagramInv, NEW p \in Peer
  PROVE  /\ Inbox(p) \in Seq(Data) /\ WaitingFor(p) \in Seq(Data)
         /\ Mine(p, buffer \o socket) \in Seq(Data)
         /\ WaitingFor(p) = Inbox(p) \o Mine(p, buffer \o socket)
<1>1. socket \in Seq(Frame) /\ buffer \in Seq(Frame) /\ buffer \o socket \in Seq(Frame)
  BY DEF DatagramInv, DatagramTypeOK
<1>2. Inbox(p) \in Seq(Data)
  <2>1. CASE table[p] = Nothing \/ Stale(p)
    <3>1. <<>> \in Seq(Data)
      OBVIOUS
    <3>2. QED
      BY <2>1, <3>1 DEF Inbox
  <2>2. CASE ~(table[p] = Nothing \/ Stale(p))
    <3>1. queue[table[p]] \in Seq(QueuedMessage)
      BY <2>2 DEF DatagramInv, DatagramTypeOK, QueuedMessage
    <3>2. QED
      BY <2>2, <3>1, QueuedIsFrame, MineData DEF Inbox
  <2>3. QED
    BY <2>1, <2>2
<1>3. /\ Mine(p, buffer) \in Seq(Data) /\ Mine(p, socket) \in Seq(Data) /\ Mine(p, buffer \o socket) \in Seq(Data)
      /\ Mine(p, buffer \o socket) = Mine(p, buffer) \o Mine(p, socket)
  BY <1>1, MineData, MineJoined
<1>4. WaitingFor(p) = (Inbox(p) \o Mine(p, buffer)) \o Mine(p, socket)
  BY DEF WaitingFor, Inbox
<1>5. (Inbox(p) \o Mine(p, buffer)) \o Mine(p, socket) = Inbox(p) \o (Mine(p, buffer) \o Mine(p, socket))
  BY <1>2, <1>3, ConcatAssociative
<1>6. WaitingFor(p) = Inbox(p) \o Mine(p, buffer \o socket)
  BY <1>3, <1>4, <1>5
<1>7. Inbox(p) \o Mine(p, buffer \o socket) \in Seq(Data)
  BY <1>2, <1>3, ConcatProperties
<1>8. QED
  BY <1>2, <1>3, <1>6, <1>7

WaitingParts ==
  \A p \in Peer :
    /\ Inbox(p) \in Seq(Data) /\ WaitingFor(p) \in Seq(Data)
    /\ WaitingFor(p) = Inbox(p) \o Mine(p, buffer \o socket)

LEMMA WaitingNext == DatagramInv' => WaitingParts'
<1>1. DatagramInv => WaitingParts
  BY WaitingIs DEF WaitingParts
<1>2. QED
  BY <1>1, PTL

Behind(s, t) == \E lost \in Seq(Data) : s = lost \o t

LEMMA BehindSame ==
  ASSUME NEW s \in Seq(Data)
  PROVE  Behind(s, s) /\ Behind(s, <<>>)
<1>1. <<>> \in Seq(Data)
  OBVIOUS
<1>2. <<>> \o s = s /\ s \o <<>> = s
  OBVIOUS
<1>3. QED
  BY <1>1, <1>2 DEF Behind

LEMMA BehindJoined ==
  ASSUME NEW s \in Seq(Data), NEW t \in Seq(Data), NEW u \in Seq(Data), Behind(s, t)
  PROVE  Behind(s \o u, t \o u)
<1>1. PICK lost \in Seq(Data) : s = lost \o t
  BY DEF Behind
<1>2. (lost \o t) \o u = lost \o (t \o u)
  BY ConcatAssociative
<1>3. QED
  BY <1>1, <1>2 DEF Behind

LEMMA BehindPart ==
  ASSUME NEW s \in Seq(Data), NEW t \in Seq(Data), Behind(s, t)
  PROVE  /\ Len(s) - Len(t) \in 0..Len(s)
         /\ t = SubSeq(s, Len(s) - Len(t) + 1, Len(s))
<1>1. PICK lost \in Seq(Data) : s = lost \o t
  BY DEF Behind
<1>2. /\ Len(s) = Len(lost) + Len(t)
      /\ \A i \in 1..Len(lost) + Len(t) : s[i] = IF i <= Len(lost) THEN lost[i] ELSE t[i - Len(lost)]
  BY <1>1, ConcatProperties
<1>3. Len(s) \in Nat /\ Len(t) \in Nat /\ Len(lost) \in Nat
  OBVIOUS
<1>4. PICK n \in Nat : n = Len(lost)
  BY <1>3
<1>5. Len(s) - Len(t) = n /\ n \in 0..Len(s) /\ Len(s) - n = Len(t)
  BY <1>2, <1>3, <1>4
<1>6. PICK u : u = SubSeq(s, n + 1, Len(s))
  OBVIOUS
<1>7. u \in Seq(Data) /\ Len(u) = Len(t) /\ \A i \in 1..Len(t) : u[i] = s[n + i]
  <2>1. \A i \in n + 1..Len(s) : s[i] \in Data
    BY <1>3, <1>5, ElementOfSeq
  <2>2. /\ u \in Seq(Data) /\ Len(u) = IF n + 1 <= Len(s) THEN Len(s) - (n + 1) + 1 ELSE 0
        /\ \A i \in 1..Len(s) - (n + 1) + 1 : u[i] = s[n + 1 + i - 1]
    BY <1>3, <1>6, <2>1, SubSeqProperties
  <2>3. Len(s) - (n + 1) + 1 = Len(t) /\ Len(u) = Len(t)
    BY <1>2, <1>3, <1>4, <1>5, <2>2
  <2>4. \A i \in 1..Len(t) : n + 1 + i - 1 = n + i
    BY <1>3
  <2>5. QED
    BY <2>2, <2>3, <2>4
<1>8. \A i \in 1..Len(t) : n + i \in 1..Len(lost) + Len(t) /\ ~(n + i <= Len(lost)) /\ n + i - Len(lost) = i
  BY <1>3, <1>4
<1>9. \A i \in 1..Len(t) : s[n + i] = t[i]
  BY <1>2, <1>8
<1>10. u = t
  BY <1>7, <1>9, SeqEqual
<1>11. QED
  BY <1>5, <1>6, <1>10

LEMMA LossAllowedOfPeers ==
  ASSUME DatagramInv, DatagramInv', UNCHANGED handed,
         \A p \in Peer : Behind(WaitingFor(p), WaitingFor(p)')
  PROVE  Channels!Next
<1> DEFINE W == [p \in Peer |-> WaitingFor(p)]
           n == [p \in Peer |-> Len(WaitingFor(p)) - Len(WaitingFor(p)')]
<1>1. ASSUME NEW p \in Peer
      PROVE  /\ n[p] \in 0..Len(W[p])
             /\ WaitingFor(p)' = SubSeq(W[p], n[p] + 1, Len(W[p]))
  <2>1. PICK s, t : s = WaitingFor(p) /\ t = WaitingFor(p)'
    OBVIOUS
  <2>2. s \in Seq(Data) /\ t \in Seq(Data) /\ Behind(s, t)
    BY <2>1, WaitingIs, WaitingNext DEF WaitingParts
  <2>3. Len(s) - Len(t) \in 0..Len(s) /\ t = SubSeq(s, Len(s) - Len(t) + 1, Len(s))
    BY <2>2, BehindPart
  <2>4. W[p] = s /\ n[p] = Len(s) - Len(t)
    BY <2>1
  <2>5. QED
    BY <2>1, <2>3, <2>4
<1>2. n \in [Peer -> UNION {0..Len(W[p]) : p \in Peer}]
  <2>1. n = [p \in Peer |-> n[p]] /\ DOMAIN n = Peer
    OBVIOUS
  <2> HIDE DEF n, W
  <2>2. QED
    BY <1>1, <2>1
<1>3. W' = [p \in Peer |-> SubSeq(W[p], n[p] + 1, Len(W[p]))]
  <2>1. W' = [p \in Peer |-> WaitingFor(p)']
    OBVIOUS
  <2> HIDE DEF n, W
  <2>2. QED
    BY <1>1, <2>1
<1>4. Channels!Lose
  <2>1. W' = Channels!Without(n)
    BY <1>3 DEF Channels!Without
  <2>2. QED
    BY <1>2, <2>1 DEF Channels!Lose
<1>5. QED
  BY <1>4 DEF Channels!Next

(* Nothing is read: what is behind in the inbox is behind in all.          *)
LEMMA InboxBehind ==
  ASSUME DatagramInv, DatagramInv', UNCHANGED frames, NEW p \in Peer, Behind(Inbox(p), Inbox(p)')
  PROVE  Behind(WaitingFor(p), WaitingFor(p)')
<1>1. PICK a, b, m : a = Inbox(p) /\ b = Inbox(p)' /\ m = Mine(p, buffer \o socket)
  OBVIOUS
<1>2. m = Mine(p, buffer \o socket)'
  BY <1>1 DEF frames
<1>3. a \in Seq(Data) /\ m \in Seq(Data) /\ WaitingFor(p) = a \o m
  BY <1>1, WaitingIs
<1>4. b \in Seq(Data) /\ WaitingFor(p)' = b \o m
  <2>1. WaitingFor(p)' = Inbox(p)' \o Mine(p, buffer \o socket)' /\ Inbox(p)' \in Seq(Data)
    BY WaitingNext DEF WaitingParts
  <2>2. QED
    BY <1>1, <1>2, <2>1
<1>5. Behind(a \o m, b \o m)
  BY <1>1, <1>3, <1>4, BehindJoined
<1>6. QED
  BY <1>3, <1>4, <1>5

LEMMA SteadyOfPeers ==
  ASSUME DatagramInv, DatagramInv', UNCHANGED <<frames, handed>>,
         \A p \in Peer : Inbox(p)' \in {Inbox(p), <<>>}
  PROVE  Channels!Next
<1> SUFFICES ASSUME NEW p \in Peer
             PROVE  Behind(WaitingFor(p), WaitingFor(p)')
  BY LossAllowedOfPeers
<1>1. PICK a, b : a = Inbox(p) /\ b = Inbox(p)'
  OBVIOUS
<1>2. a \in Seq(Data) /\ b \in {a, <<>>}
  BY <1>1, WaitingIs
<1>3. Behind(a, b)
  BY <1>2, BehindSame
<1>4. QED
  BY <1>1, <1>3, InboxBehind

LEMMA CloseLinksAllowed ==
  ASSUME PeersInv, DatagramInv', NEW C, CloseLinks(C), UNCHANGED <<frames, handed, table>>
  PROVE  Channels!Next
<1> SUFFICES ASSUME NEW p \in Peer
             PROVE  Inbox(p)' \in {Inbox(p), <<>>}
  BY SteadyOfPeers DEF PeersInv
<1>1. CASE table[p] = Nothing
  BY <1>1 DEF Inbox
<1>2. CASE table[p] # Nothing /\ table[p] \in C
  <2>1. table[p] \in Link
    BY <1>2 DEF PeersInv, DatagramInv, DatagramTypeOK
  <2>2. owner'[table'[p]] = Nothing
    BY <1>2, <2>1 DEF CloseLinks
  <2>3. Stale(p)'
    BY <1>2, <2>2, DatagramAssumption DEF Stale
  <2>4. QED
    BY <2>3 DEF Inbox
<1>3. CASE table[p] # Nothing /\ table[p] \notin C
  <2>1. table[p] \in Link
    BY <1>3 DEF PeersInv, DatagramInv, DatagramTypeOK
  <2>2. owner'[table'[p]] = owner[table[p]] /\ queue'[table'[p]] = queue[table[p]]
    BY <1>3, <2>1 DEF CloseLinks, QueueReleased
  <2>3. Inbox(p)' = Inbox(p)
    BY <2>2 DEF Inbox, Stale
  <2>4. QED
    BY <2>3
<1>4. QED
  BY <1>1, <1>2, <1>3

LEMMA CloseListenerAllowed ==
  ASSUME PeersInv, DatagramInv', CloseListener
  PROVE  Channels!Next
<1>1. table' = [p \in Peer |-> Nothing] /\ socket' = <<>> /\ buffer' = <<>> /\ UNCHANGED handed
  BY DEF CloseListener
<1> SUFFICES ASSUME NEW p \in Peer
             PROVE  Behind(WaitingFor(p), WaitingFor(p)')
  BY <1>1, LossAllowedOfPeers DEF PeersInv
<1>2. Inbox(p)' = <<>>
  BY <1>1 DEF Inbox
<1>3. Mine(p, socket)' = <<>> /\ Mine(p, buffer)' = <<>>
  BY <1>1, MineNothing
<1>4. WaitingFor(p)' = (<<>> \o <<>>) \o <<>>
  BY <1>2, <1>3 DEF WaitingFor, Inbox
<1>5. (<<>> \o <<>>) \o <<>> = <<>>
  OBVIOUS
<1>6. QED
  BY <1>4, <1>5, WaitingIs, BehindSame DEF PeersInv

(* A proxy hands up the oldest message of its peer.                        *)
LEMMA ReceiveProxyAllowed ==
  ASSUME PeersInv, DatagramInv', NEW l \in Link, ReceiveProxy(l)
  PROVE  Channels!Next
<1>1. CASE queue[l] = <<>>
  <2>1. UNCHANGED <<frames, handed, table, owner, queue>>
    BY <1>1 DEF ReceiveProxy
  <2>2. \A p \in Peer : Inbox(p)' = Inbox(p)
    BY <2>1 DEF Inbox, Stale
  <2>3. QED
    BY <2>1, <2>2, SteadyOfPeers DEF PeersInv
<1>2. CASE queue[l] # <<>>
  <2>1. PICK p \in Peer : p = owner[l] /\ table[p] = l /\ p # Nothing /\ l # Nothing
    BY <1>2, DatagramAssumption DEF PeersInv, DatagramInv, QueueInv, DatagramTypeOK, Entered
  <2>2. PICK s \in Seq(QueuedMessage) : s = queue[l]
    BY DEF PeersInv, DatagramInv, DatagramTypeOK, QueuedMessage
  <2>3. PICK f \in QueuedMessage : f = Head(s)
    BY <1>2, <2>2
  <2>4. f.from = p /\ f.data \in Data /\ f.data # Nothing
    <3>1. 1 \in 1..Len(s) /\ Head(s) = s[1]
      BY <1>2, <2>2
    <3>2. s[1].from = p
      BY <2>1, <2>2, <3>1 DEF PeersInv, OfOwner
    <3>3. QED
      BY <2>3, <3>1, <3>2, DatagramAssumption DEF QueuedMessage
  <2>5. /\ queue' = [queue EXCEPT ![l] = Tail(s)] /\ UNCHANGED <<frames, table, owner>>
        /\ handed' = [over |-> p, from |-> p, data |-> f.data]
    BY <1>2, <2>1, <2>2, <2>3, <2>4 DEF ReceiveProxy, Oldest
  <2>6. queue'[l] = Tail(s) /\ \A k \in Link \ {l} : queue'[k] = queue[k]
    BY <2>5 DEF PeersInv, DatagramInv, DatagramTypeOK
  <2>7. ASSUME NEW q \in Peer \ {p}
        PROVE  WaitingFor(q)' = WaitingFor(q)
    <3>1. CASE table[q] = Nothing
      <4>1. Inbox(q)' = <<>> /\ Inbox(q) = <<>>
        BY <2>5, <3>1 DEF Inbox
      <4>2. QED
        BY <2>5, <4>1 DEF WaitingFor, Inbox, frames
    <3>2. CASE table[q] # Nothing
      <4>1. table[q] \in Link \ {l}
        BY <2>1, <3>2 DEF PeersInv, DatagramInv, DatagramTypeOK, Alone
      <4>2. Inbox(q)' = Inbox(q)
        BY <2>5, <2>6, <4>1 DEF Inbox, Stale
      <4>3. QED
        BY <2>5, <4>2 DEF WaitingFor, Inbox, frames
    <3>3. QED
      BY <3>1, <3>2
  <2>8. PICK r, m : r = Mine(p, Tail(s)) /\ m = Mine(p, buffer \o socket)
    OBVIOUS
  <2>9. Inbox(p) = <<f.data>> \o r /\ Inbox(p)' = r
    <3>1. s \in Seq(Frame)
      BY QueuedIsFrame
    <3>2. Mine(p, s) = <<f.data>> \o r
      BY <1>2, <2>2, <2>3, <2>4, <2>8, <3>1, MineFirst
    <3>3. Inbox(p) = Mine(p, s) /\ Inbox(p)' = Mine(p, Tail(s))
      BY <2>1, <2>2, <2>5, <2>6 DEF Inbox, Stale
    <3>4. QED
      BY <2>8, <3>2, <3>3
  <2>10. r \in Seq(Data) /\ m \in Seq(Data) /\ WaitingFor(p)' = r \o m
    <3>1. m = Mine(p, buffer \o socket)'
      BY <2>5, <2>8 DEF frames
    <3>2. WaitingFor(p)' = Inbox(p)' \o Mine(p, buffer \o socket)' /\ Inbox(p)' \in Seq(Data)
      BY WaitingNext DEF WaitingParts
    <3>3. m \in Seq(Data)
      BY <2>8, WaitingIs DEF PeersInv
    <3>4. QED
      BY <2>9, <3>1, <3>2, <3>3
  <2>11. WaitingFor(p) = (<<f.data>> \o r) \o m
    BY <2>8, <2>9, WaitingIs DEF PeersInv
  <2>12. PICK w \in Seq(Data) : w = r \o m
    BY <2>10, ConcatProperties
  <2>13. PICK d \in Data : d = f.data
    BY <2>4
  <2>14. (<<d>> \o r) \o m = <<d>> \o w
    <3>1. <<d>> \in Seq(Data)
      OBVIOUS
    <3>2. QED
      BY <2>10, <2>12, <3>1, ConcatAssociative
  <2>15. <<d>> \o w # <<>> /\ Head(<<d>> \o w) = d /\ Tail(<<d>> \o w) = w
    OBVIOUS
  <2> DEFINE W == [q \in Peer |-> WaitingFor(q)]
  <2>16. W[p] # <<>> /\ Head(W[p]) = d /\ Tail(W[p]) = WaitingFor(p)'
    BY <2>10, <2>11, <2>12, <2>13, <2>14, <2>15
  <2>17. W' = [W EXCEPT ![p] = Tail(@)]
    <3>1. W' = [q \in Peer |-> WaitingFor(q)'] /\ W = [q \in Peer |-> W[q]] /\ \A q \in Peer : W[q] = WaitingFor(q)
      OBVIOUS
    <3> HIDE DEF W
    <3>2. QED
      BY <2>7, <2>16, <3>1
  <2>18. Channels!Give(p)
    BY <2>5, <2>13, <2>16, <2>17 DEF Channels!Give
  <2>19. QED
    BY <2>18 DEF Channels!Next
<1>3. QED
  BY <1>1, <1>2

(* A message goes to the inbox of its peer only.                           *)
LEMMA InboxOfOther ==
  ASSUME PeersInv, NoAlias', NEW f \in Frame, f.data # Nothing, DemuxDelivery(f),
         NEW p \in Peer, f.from # p
  PROVE  Inbox(p)' = Inbox(p)
<1>1. f.from \in Peer
  BY DEF Frame
<1>2. CASE NewLink(f)
  <2>1. PICK l \in Free : /\ table' = [table EXCEPT ![f.from] = l]
                          /\ owner' = [owner EXCEPT ![l] = f.from] /\ QueueMessage(l, f)
    BY <1>2 DEF NewLink
  <2>2. l \in Link /\ table'[p] = table[p] /\ table[p] \in Link \cup {Nothing}
    BY <2>1 DEF Free, PeersInv, DatagramInv, DatagramTypeOK
  <2>3. table[p] # Nothing => table[p] \in Link \ {l}
    BY <1>1, <1>2, <2>1, <2>2, NewIsUnknown DEF NewLink
  <2>4. table[p] # Nothing => owner'[table[p]] = owner[table[p]] /\ queue'[table[p]] = queue[table[p]]
    BY <2>1, <2>2, <2>3, QueueMessageTypes DEF PeersInv, DatagramInv, DatagramTypeOK
  <2>5. QED
    BY <2>2, <2>4 DEF Inbox, Stale
<1>3. CASE KnownLink(f)
  <2>1. PICK l \in Link : l = table[f.from] /\ owner[l] # Nothing /\ QueueMessage(l, f) /\ UNCHANGED <<table, owner>>
    BY <1>3 DEF KnownLink, Present
  <2>2. table[p] # Nothing => table[p] \in Link \ {l}
    BY <1>1, <2>1 DEF PeersInv, DatagramInv, DatagramTypeOK, Alone
  <2>3. table[p] # Nothing => queue'[table[p]] = queue[table[p]]
    BY <2>1, <2>2, QueueMessageTypes DEF PeersInv
  <2>4. QED
    BY <2>1, <2>3 DEF Inbox, Stale
<1>4. CASE FreedLink(f)
  BY <1>4 DEF FreedLink, links, Inbox, Stale
<1>5. QED
  BY <1>2, <1>3, <1>4 DEF DemuxDelivery

LEMMA InboxOfSender ==
  ASSUME PeersInv, NoAlias', NEW f \in Frame, f.data # Nothing, DemuxDelivery(f),
         NEW p \in Peer, f.from = p
  PROVE  \/ Inbox(p)' = Append(Inbox(p), f.data)
         \/ Inbox(p) = <<>> /\ Inbox(p)' \in {<<>>, <<f.data>>}
<1>1. p # Nothing
  BY DatagramAssumption
<1>2. CASE NewLink(f)
  <2>1. PICK l \in Free : /\ table' = [table EXCEPT ![p] = l]
                          /\ owner' = [owner EXCEPT ![l] = p] /\ QueueMessage(l, f)
    BY <1>2 DEF NewLink
  <2>2. l \in Link /\ table'[p] = l /\ owner[l] = Nothing /\ table[p] = Nothing /\ l # Nothing
    BY <1>2, <2>1, DatagramAssumption DEF NewLink, Free, Present, PeersInv, DatagramInv, DatagramTypeOK
  <2>3. Inbox(p) = <<>>
    BY <2>2 DEF Inbox
  <2>4. QED
    <3>1. owner'[l] = p
      BY <2>1, <2>2 DEF PeersInv, DatagramInv, DatagramTypeOK
    <3>2. PICK e \in Seq(Frame) : e = <<>>
      <4>1. <<>> \in Seq(Frame)
        OBVIOUS
      <4>2. QED
        BY <4>1
    <3>3. queue'[l] = Append(e, f)
      BY <2>1, <2>2, <3>2, NoneQueued, QueueMessageTypes DEF PeersInv
    <3>4. Inbox(p)' = Mine(p, Append(e, f))
      BY <2>2, <3>1, <3>3 DEF Inbox, Stale
    <3>5. Mine(p, Append(e, f)) = Append(<<>>, f.data)
      BY <3>2, MineOneMore, MineNothing DEF MineOf
    <3>6. Append(<<>>, f.data) = <<f.data>>
      OBVIOUS
    <3>7. QED
      BY <2>3, <3>4, <3>5, <3>6
<1>3. CASE KnownLink(f)
  <2>1. PICK l \in Link : l = table[p] /\ owner[l] # Nothing /\ QueueMessage(l, f) /\ UNCHANGED <<table, owner>>
    BY <1>3 DEF KnownLink, Present
  <2>2. owner[l] = p /\ l # Nothing
    <3>1. owner[l] \in Peer /\ table[owner[l]] = l /\ l # Nothing
      BY <2>1, DatagramAssumption DEF PeersInv, DatagramInv, DatagramTypeOK, Entered
    <3>2. QED
      BY <2>1, <3>1 DEF PeersInv, Alone
  <2>3. PICK s \in Seq(QueuedMessage) : s = queue[l]
    BY DEF PeersInv, DatagramInv, DatagramTypeOK, QueuedMessage
  <2>4. queue'[l] = Append(s, f) /\ s \in Seq(Frame)
    BY <2>1, <2>3, QueueMessageTypes, QueuedIsFrame DEF PeersInv
  <2>5. Inbox(p) = Mine(p, s) /\ Inbox(p)' = Mine(p, Append(s, f))
    BY <2>1, <2>2, <2>3, <2>4 DEF Inbox, Stale
  <2>6. Mine(p, Append(s, f)) = Append(Mine(p, s), f.data)
    BY <2>4, MineOneMore DEF MineOf
  <2>7. QED
    BY <2>5, <2>6
<1>4. CASE FreedLink(f)
  <2>1. table[p] \in Link /\ owner[table[p]] = Nothing /\ UNCHANGED <<table, owner, queue>>
    BY <1>4 DEF FreedLink, links, Present
  <2>2. Stale(p) /\ Stale(p)'
    BY <1>1, <2>1, DatagramAssumption DEF Stale
  <2>3. QED
    BY <2>2 DEF Inbox
<1>5. QED
  BY <1>2, <1>3, <1>4 DEF DemuxDelivery

(* A read takes the oldest frame out of those that wait; the listener      *)
(* queues its message at the link of its peer or loses it.                 *)
LEMMA ReceiveListenerAllowed ==
  ASSUME PeersInv, DatagramInv', NoAlias', ReceiveListener
  PROVE  Channels!Next
<1>1. Pending # <<>> /\ Read /\ UNCHANGED handed
  BY DEF ReceiveListener
<1>2. PICK f \in Frame : f = Head(Pending)
  BY <1>1, ReadOldest DEF PeersInv, DatagramInv
<1>3. PICK rest : rest = buffer' \o socket'
  OBVIOUS
<1>4. rest \in Seq(Frame) /\ buffer \o socket \in Seq(Frame)
      /\ buffer \o socket # <<>> /\ Head(buffer \o socket) = f /\ Tail(buffer \o socket) = rest
  <2>1. PICK s, t : s = Pending /\ t = socket'
    OBVIOUS
  <2>2. s \in Seq(Frame) /\ t \in Seq(Frame) /\ s # <<>> /\ buffer' = Tail(s) /\ buffer \o socket = s \o t /\ f = Head(s)
    BY <1>1, <1>2, <2>1, ReadOldest DEF PeersInv, DatagramInv
  <2>3. s \o t \in Seq(Frame) /\ s \o t # <<>> /\ Head(s \o t) = Head(s) /\ Tail(s \o t) = Tail(s) \o t
        /\ Tail(s) \o t \in Seq(Frame)
    BY <2>2
  <2>4. QED
    BY <1>3, <2>1, <2>2, <2>3
<1> SUFFICES ASSUME NEW p \in Peer
             PROVE  Behind(WaitingFor(p), WaitingFor(p)')
  BY <1>1, LossAllowedOfPeers DEF PeersInv
<1>5. PICK m, a, b : m = Mine(p, rest) /\ a = Inbox(p) /\ b = Inbox(p)'
  OBVIOUS
<1>6. /\ m \in Seq(Data) /\ a \in Seq(Data) /\ b \in Seq(Data)
      /\ WaitingFor(p) = a \o Mine(p, buffer \o socket) /\ WaitingFor(p)' = b \o m
  <2>1. Mine(p, buffer \o socket)' = m
    BY <1>3, <1>5
  <2>2. m \in Seq(Data)
    BY <1>4, <1>5, MineData
  <2>3. a \in Seq(Data) /\ WaitingFor(p) = a \o Mine(p, buffer \o socket)
    BY <1>5, WaitingIs DEF PeersInv
  <2>4. b \in Seq(Data) /\ WaitingFor(p)' = b \o m
    <3>1. WaitingFor(p)' = Inbox(p)' \o Mine(p, buffer \o socket)' /\ Inbox(p)' \in Seq(Data)
      BY WaitingNext DEF WaitingParts
    <3>2. QED
      BY <1>5, <2>1, <3>1
  <2>5. QED
    BY <2>2, <2>3, <2>4
<1>7. Mine(p, buffer \o socket) = IF f.from = p /\ f.data # Nothing THEN <<f.data>> \o m ELSE m
  BY <1>4, <1>5, MineFirst
<1>8. CASE ~(f.from = p /\ f.data # Nothing)
  <2>1. a = b
    <3>1. CASE f.data = Nothing
      <4>1. UNCHANGED <<table, owner, queue>>
        BY <1>2, <3>1 DEF ReceiveListener, Decoded, links
      <4>2. QED
        BY <1>5, <4>1 DEF Inbox, Stale
    <3>2. CASE f.data # Nothing /\ f.from # p
      BY <1>2, <1>5, <3>2, InboxOfOther DEF ReceiveListener, Decoded
    <3>3. QED
      BY <1>8, <3>1, <3>2
  <2>2. Behind(a \o m, b \o m)
    BY <1>6, <2>1, BehindSame, ConcatProperties
  <2>3. QED
    BY <1>6, <1>7, <1>8, <2>2
<1>9. CASE f.from = p /\ f.data # Nothing
  <2>1. PICK d \in Data : d = f.data
    BY <1>9 DEF Frame
  <2>2. b = Append(a, d) \/ (a = <<>> /\ b = <<d>>) \/ (a = <<>> /\ b = <<>>)
    BY <1>2, <1>5, <1>9, <2>1, InboxOfSender DEF ReceiveListener, Decoded
  <2>3. <<d>> \in Seq(Data) /\ WaitingFor(p) = a \o (<<d>> \o m)
    <3>1. <<d>> \in Seq(Data)
      OBVIOUS
    <3>2. QED
      BY <1>6, <1>7, <1>9, <2>1, <3>1
  <2>4. a \o (<<d>> \o m) = (a \o <<d>>) \o m /\ a \o <<d>> \in Seq(Data)
    BY <1>6, <2>3, ConcatAssociative, ConcatProperties
  <2>5. Behind(a \o <<d>>, b)
    <3>1. Append(a, d) = a \o <<d>> /\ <<>> \o <<d>> = <<d>>
      BY <1>6, AppendIsConcat
    <3>2. b = a \o <<d>> \/ b = <<>>
      BY <2>2, <3>1
    <3>3. QED
      BY <2>4, <3>2, BehindSame
  <2>6. Behind((a \o <<d>>) \o m, b \o m)
    BY <1>6, <2>4, <2>5, BehindJoined
  <2>7. QED
    BY <1>6, <2>3, <2>4, <2>6
<1>10. QED
  BY <1>8, <1>9

(* One more frame in the socket is one more message for its peer.          *)
LEMMA ArriveAllowed ==
  ASSUME PeersInv, DatagramInv', NEW p \in Peer, NEW d \in Data \cup {Nothing}, Arrive(p, d)
  PROVE  Channels!Next
<1>1. PICK f \in Frame : f = [from |-> p, data |-> d]
  BY DEF Frame
<1>2. socket' = Append(socket, f) /\ UNCHANGED <<buffer, table, owner, queue, handed>>
  BY <1>1 DEF Arrive, links, thread
<1>3. PICK s \in Seq(Frame) : s = buffer \o socket /\ (buffer \o socket)' = Append(s, f)
  <2>1. PICK a \in Seq(Frame), b \in Seq(Frame) : a = buffer /\ b = socket
    BY DEF PeersInv, DatagramInv, DatagramTypeOK
  <2>2. PICK e \in Seq(Frame) : e = <<f>>
    <3>1. <<f>> \in Seq(Frame)
      OBVIOUS
    <3>2. QED
      BY <3>1
  <2>3. a \o b \in Seq(Frame) /\ Append(b, f) = b \o e /\ Append(a \o b, f) = (a \o b) \o e
    BY <2>2, AppendIsConcat, ConcatProperties
  <2>4. (a \o b) \o e = a \o (b \o e)
    BY ConcatAssociative
  <2>5. QED
    BY <1>2, <2>1, <2>3, <2>4
<1>4. ASSUME NEW q \in Peer
      PROVE  WaitingFor(q)' = IF q = p /\ d # Nothing THEN Append(WaitingFor(q), d) ELSE WaitingFor(q)
  <2>1. PICK a, m : a = Inbox(q) /\ m = Mine(q, s)
    OBVIOUS
  <2>2. a \in Seq(Data) /\ m \in Seq(Data) /\ WaitingFor(q) = a \o m
    BY <1>3, <2>1, WaitingIs DEF PeersInv
  <2>3. Inbox(q)' = a
    BY <1>2, <2>1 DEF Inbox, Stale
  <2>4. WaitingFor(q)' = a \o MineOf(q, m, f)
    <3>1. WaitingFor(q)' = Inbox(q)' \o Mine(q, buffer \o socket)'
      BY WaitingNext DEF WaitingParts
    <3>2. Mine(q, buffer \o socket)' = Mine(q, Append(s, f))
      BY <1>3
    <3>3. Mine(q, Append(s, f)) = MineOf(q, m, f)
      BY <2>1, MineOneMore
    <3>4. QED
      BY <2>3, <3>1, <3>2, <3>3
  <2>5. CASE q = p /\ d # Nothing
    <3>1. MineOf(q, m, f) = Append(m, d)
      BY <1>1, <2>5 DEF MineOf
    <3>2. Append(a \o m, d) = a \o Append(m, d)
      BY <2>2, <2>5, JoinOneMore
    <3>3. QED
      BY <2>2, <2>4, <2>5, <3>1, <3>2
  <2>6. CASE ~(q = p /\ d # Nothing)
    <3>1. MineOf(q, m, f) = m
      BY <1>1, <2>6 DEF MineOf
    <3>2. QED
      BY <2>2, <2>4, <2>6, <3>1
  <2>7. QED
    BY <2>5, <2>6
<1> DEFINE W == [q \in Peer |-> WaitingFor(q)]
<1>5. W' = [q \in Peer |-> WaitingFor(q)'] /\ W = [q \in Peer |-> W[q]] /\ \A q \in Peer : W[q] = WaitingFor(q)
  OBVIOUS
<1>6. CASE d # Nothing
  <2>1. W' = [W EXCEPT ![p] = Append(@, d)]
    <3> HIDE DEF W
    <3>1. QED
      BY <1>4, <1>5, <1>6
  <2>2. Channels!Arrive(p, d) /\ d \in Data
    BY <1>2, <1>6, <2>1 DEF Channels!Arrive
  <2>3. QED
    BY <2>2 DEF Channels!Next
<1>7. CASE d = Nothing
  <2>1. \A q \in Peer : Inbox(q)' = Inbox(q)
    BY <1>2 DEF Inbox, Stale
  <2>2. \A q \in Peer : Behind(WaitingFor(q), WaitingFor(q)')
    BY <1>4, <1>7, WaitingIs, BehindSame DEF PeersInv
  <2>3. QED
    BY <1>2, <2>2, LossAllowedOfPeers DEF PeersInv
<1>8. QED
  BY <1>6, <1>7

LEMMA FinishAllowed ==
  ASSUME handed' = Nothing, UNCHANGED <<frames, table, owner, queue>>
  PROVE  Channels!Next
<1>1. \A p \in Peer : WaitingFor(p)' = WaitingFor(p)
  BY DEF WaitingFor, Stale, frames
<1>2. [p \in Peer |-> WaitingFor(p)]' = [p \in Peer |-> WaitingFor(p)]
  BY <1>1
<1>3. Channels!Finish
  BY <1>2 DEF Channels!Finish
<1>4. QED
  BY <1>3 DEF Channels!Next

LEMMA DatagramStepAllowed ==
  ASSUME NoAlias', PeersInv, [DatagramNext]_datagramVars
  PROVE  Channels!Next
<1>1. DatagramInv'
  BY DatagramTypesKept DEF PeersInv
<1>2. CASE UNCHANGED <<frames, handed, table, owner, queue>>
  <2>1. \A p \in Peer : Inbox(p)' = Inbox(p)
    BY <1>2 DEF Inbox, Stale
  <2>2. QED
    BY <1>1, <1>2, <2>1, SteadyOfPeers DEF PeersInv
<1>3. ASSUME EndOfSearch \/ NothingToRead \/ PollReturns \/ OpenListener \/ ReadFails \/ UNCHANGED datagramVars
      PROVE  UNCHANGED <<frames, handed, table, owner, queue>>
  BY <1>3 DEF EndOfSearch, NothingToRead, PollReturns, OpenListener, ReadFails, datagramVars, frames, links, thread
<1>4. ASSUME NEW l \in Link, SendFails(l)
      PROVE  UNCHANGED <<frames, handed, table, owner, queue>>
  BY <1>4 DEF SendFails, thread
<1>5. CASE Processed \/ Crash \/ CloneCrashes
  BY <1>5, FinishAllowed DEF Processed, Crash, CloneCrashes, Stop, links
<1>6. ASSUME NEW l \in Link, ReceiveProxy(l)
      PROVE  Channels!Next
  BY <1>1, <1>6, ReceiveProxyAllowed
<1>7. ASSUME NEW l \in Link, CloseVisited(l)
      PROVE  Channels!Next
  BY <1>1, <1>7, CloseLinksAllowed DEF CloseVisited
<1>8. CASE ReceiveListener
  BY <1>1, <1>8, ReceiveListenerAllowed
<1>9. CASE CloseFailed
  BY <1>1, <1>9, CloseListenerAllowed DEF CloseFailed
<1>10. CASE CloseByName
  <2>1. CASE CloseListener
    BY <1>1, <2>1, CloseListenerAllowed
  <2>2. ASSUME NEW l \in Present, CloseLinks({l}), UNCHANGED <<frames, listener, table, handed>>
        PROVE  Channels!Next
    BY <1>1, <2>2, CloseLinksAllowed
  <2>3. QED
    BY <1>10, <2>1, <2>2 DEF CloseByName
<1>11. ASSUME NEW p \in Peer, NEW d \in Data \cup {Nothing}, Arrive(p, d)
       PROVE  Channels!Next
  BY <1>1, <1>11, ArriveAllowed
<1>12. QED
  BY <1>2, <1>3, <1>4, <1>5, <1>6, <1>7, <1>8, <1>9, <1>10, <1>11 DEF DatagramNext, Engine, Others, Poll, PollOther

LEMMA NothingWaits == DatagramInit => Channels!Init
<1> SUFFICES ASSUME DatagramInit
             PROVE  Channels!Init
  OBVIOUS
<1>1. ASSUME NEW p \in Peer
      PROVE  WaitingFor(p) = <<>>
  <2>1. Inbox(p) = <<>>
    BY DEF Inbox, DatagramInit
  <2>2. Mine(p, buffer) = <<>> /\ Mine(p, socket) = <<>>
    BY MineNothing DEF DatagramInit
  <2>3. WaitingFor(p) = (<<>> \o <<>>) \o <<>>
    BY <2>1, <2>2 DEF WaitingFor, Inbox
  <2>4. (<<>> \o <<>>) \o <<>> = <<>>
    OBVIOUS
  <2>5. QED
    BY <2>3, <2>4
<1>2. QED
  BY <1>1 DEF Channels!Init, DatagramInit

(* A listener implements PeerChannels for any peers, links and reads,      *)
(* whatever is closed or opened again and wherever the process stops, as   *)
(* long as no link is made in memory that its table still has for another  *)
(* peer: each message comes in over the link of its peer, in the order of  *)
(* arrival and once (_demuxDelivery, _queueMessage).                       *)
THEOREM PeersKeptApart == DatagramSpec /\ []NoAlias => ImplementsPeerChannels
<1>1. DatagramInit => PeersInv
  BY PeersInit
<1>2. PeersInv /\ NoAlias' /\ [DatagramNext]_datagramVars => PeersInv'
  BY PeersKept
<1>3. DatagramInit => Channels!Init
  BY NothingWaits
<1>4. PeersInv /\ NoAlias' /\ [DatagramNext]_datagramVars => Channels!Next
  BY DatagramStepAllowed
<1>5. QED
  BY <1>1, <1>2, <1>3, <1>4, PTL DEF DatagramSpec, ImplementsPeerChannels, Channels!Spec
================================================================================
