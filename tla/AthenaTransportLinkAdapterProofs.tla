------------------ MODULE AthenaTransportLinkAdapterProofs ------------------
(***************************************************************************)
(* What the link adapter keeps to, for every number of links and names,    *)
(* whatever is opened, accepted, closed and hung up: its lists agree, and  *)
(* it is the table of links that LinkTable describes.                      *)
(***************************************************************************)
EXTENDS AthenaTransportLinkAdapter, FiniteSetTheorems, SequenceTheorems, TLAPS

(***************************************************************************)
(* Lists that are kept by hand                                             *)
(***************************************************************************)

(* A set that has 0, and n + 1 with n, has every natural number.           *)
LEMMA SetInduction ==
  ASSUME NEW S, 0 \in S, \A n \in Nat : n \in S => n + 1 \in S
  PROVE  \A n \in Nat : n \in S
<1> SUFFICES ASSUME Nat \ S # {}
             PROVE  FALSE
  OBVIOUS
<1>1. PICK n \in Nat \ S : \A m \in Nat \ S : ~(<<m, n>> \in OpToRel(<, Nat))
  BY NatLessThanWellFounded, WFMin
<1>2. n # 0 /\ n - 1 \in Nat /\ n - 1 < n
  OBVIOUS
<1>3. n - 1 \in S
  BY <1>1, <1>2 DEF OpToRel
<1>4. (n - 1) + 1 = n
  OBVIOUS
<1>5. QED
  BY <1>2, <1>3, <1>4

LEMMA LeastOf ==
  ASSUME NEW S, S \subseteq Nat, S # {}
  PROVE  (CHOOSE i \in S : \A j \in S : i <= j) \in S
<1>1. PICK n \in S : \A m \in S : ~(<<m, n>> \in OpToRel(<, Nat))
  BY NatLessThanWellFounded, WFMin
<1>2. \A j \in S : ~(j < n)
  BY <1>1 DEF OpToRel
<1>3. \A j \in S : n <= j
  BY <1>2
<1>4. QED
  BY <1>3

(* A list has each of the links C once, and vacant places besides.         *)
Exactly(list, C) ==
  /\ \A i \in DOMAIN list : list[i] # None => list[i] \in C
  /\ \A l \in C : \E i \in DOMAIN list : list[i] = l
  /\ \A i, j \in DOMAIN list : list[i] = list[j] /\ list[i] # None => i = j

LEMMA AppendedList ==
  ASSUME NEW S, NEW list \in Seq(S), NEW l \in S
  PROVE  /\ Append(list, l) \in Seq(S)
         /\ DOMAIN list = 1..Len(list) /\ Len(list) \in Nat
         /\ DOMAIN Append(list, l) = 1..(Len(list) + 1)
         /\ Append(list, l)[Len(list) + 1] = l
         /\ \A i \in DOMAIN list : Append(list, l)[i] = list[i]
         /\ \A C : C \subseteq S /\ l \notin C /\ Exactly(list, C) => Exactly(Append(list, l), C \cup {l})
<1>1. /\ Append(list, l) \in Seq(S)
      /\ DOMAIN list = 1..Len(list) /\ Len(list) \in Nat
      /\ DOMAIN Append(list, l) = 1..(Len(list) + 1)
      /\ Append(list, l)[Len(list) + 1] = l
      /\ \A i \in DOMAIN list : Append(list, l)[i] = list[i]
  BY AppendProperties, LenProperties
<1> DEFINE longer == Append(list, l)
<1> HIDE DEF longer
<1>2. ASSUME NEW C, l \notin C, Exactly(list, C)
      PROVE  Exactly(longer, C \cup {l})
  <2>1. \A i \in DOMAIN longer : i \in DOMAIN list \/ i = Len(list) + 1
    BY <1>1 DEF longer
  <2>2. \A i \in DOMAIN list : i \in DOMAIN longer /\ longer[i] = list[i] /\ i # Len(list) + 1
    BY <1>1 DEF longer
  <2>3. Len(list) + 1 \in DOMAIN longer /\ longer[Len(list) + 1] = l
    BY <1>1 DEF longer
  <2>4. QED
    BY <2>1, <2>2, <2>3, <1>2 DEF Exactly
<1>3. QED
  BY <1>1, <1>2 DEF longer

(* A new link takes a vacant place or a new one, and nothing moves.        *)
LEMMA PlacedList ==
  ASSUME NEW list \in Seq(Link \cup {None}), NEW l \in Link
  PROVE  /\ Placed(list, l) \in Seq(Link \cup {None})
         /\ \E i \in DOMAIN Placed(list, l) :
              /\ Placed(list, l)[i] = l
              /\ i \in DOMAIN list => list[i] = None
              /\ \A j \in DOMAIN Placed(list, l) : j # i => j \in DOMAIN list /\ Placed(list, l)[j] = list[j]
         /\ DOMAIN list \subseteq DOMAIN Placed(list, l)
         /\ \/ Len(Placed(list, l)) = Len(list)
            \/ Placed(list, l) = Append(list, l) /\ \A i \in DOMAIN list : list[i] # None
         /\ \A C : C \subseteq Link /\ l \notin C /\ Exactly(list, C) => Exactly(Placed(list, l), C \cup {l})
<1> DEFINE vacant == {i \in DOMAIN list : list[i] = None}
           S == Link \cup {None}
<1>1. DOMAIN list = 1..Len(list) /\ Len(list) \in Nat
  BY LenProperties
<1>2. CASE vacant = {}
  <2>1. Placed(list, l) = Append(list, l)
    BY <1>2 DEF Placed
  <2>2. /\ Append(list, l) \in Seq(S)
        /\ DOMAIN Append(list, l) = 1..(Len(list) + 1)
        /\ Append(list, l)[Len(list) + 1] = l
        /\ \A i \in DOMAIN list : Append(list, l)[i] = list[i]
        /\ \A C : C \subseteq S /\ l \notin C /\ Exactly(list, C) => Exactly(Append(list, l), C \cup {l})
    BY AppendedList
  <2>3. \A i \in DOMAIN list : list[i] # None
    BY <1>2
  <2> DEFINE longer == Append(list, l)
  <2>4. /\ Len(list) + 1 \in DOMAIN longer
        /\ Len(list) + 1 \notin DOMAIN list
        /\ DOMAIN list \subseteq DOMAIN longer
        /\ \A j \in DOMAIN longer : j # Len(list) + 1 => j \in DOMAIN list /\ longer[j] = list[j]
    BY <1>1, <2>2
  <2> HIDE DEF longer
  <2>5. longer[Len(list) + 1] = l
    BY <2>2 DEF longer
  <2>6. \E i \in DOMAIN longer :
          /\ longer[i] = l
          /\ i \in DOMAIN list => list[i] = None
          /\ \A j \in DOMAIN longer : j # i => j \in DOMAIN list /\ longer[j] = list[j]
    BY <2>4, <2>5
  <2>7. QED
    BY <2>1, <2>2, <2>3, <2>4, <2>6 DEF longer
<1>3. CASE vacant # {}
  <2> DEFINE at0 == CHOOSE i \in vacant : \A j \in vacant : i <= j
  <2>1. at0 \in vacant
    <3>1. vacant \subseteq Nat
      BY <1>1
    <3> HIDE DEF vacant
    <3>2. QED
      BY <1>3, <3>1, LeastOf
  <2>2. Placed(list, l) = [list EXCEPT ![at0] = l]
    BY <1>3 DEF Placed
  <2> HIDE DEF at0
  <2>3. at0 \in DOMAIN list /\ list[at0] = None
    BY <2>1
  <2>4. /\ Placed(list, l) \in Seq(S) /\ Len(Placed(list, l)) = Len(list)
        /\ DOMAIN Placed(list, l) = DOMAIN list
        /\ \A j \in DOMAIN list : Placed(list, l)[j] = IF j = at0 THEN l ELSE list[j]
    BY <1>1, <2>2, <2>3, ExceptSeq
  <2>5. \E i \in DOMAIN Placed(list, l) :
          /\ Placed(list, l)[i] = l
          /\ i \in DOMAIN list => list[i] = None
          /\ \A j \in DOMAIN Placed(list, l) : j # i => j \in DOMAIN list /\ Placed(list, l)[j] = list[j]
    BY <2>3, <2>4
  <2>6. ASSUME NEW C, C \subseteq Link, l \notin C, Exactly(list, C)
        PROVE  Exactly(Placed(list, l), C \cup {l})
    BY <2>3, <2>4, <2>6, AdapterAssumption DEF Exactly
  <2>7. QED
    BY <2>4, <2>5, <2>6
<1>4. QED
  BY <1>2, <1>3

LEMMA BlankedList ==
  ASSUME NEW list \in Seq(Link \cup {None}), NEW D
  PROVE  /\ Blanked(list, D) \in Seq(Link \cup {None})
         /\ Len(Blanked(list, D)) = Len(list)
         /\ DOMAIN Blanked(list, D) = DOMAIN list
         /\ \A i \in DOMAIN list : Blanked(list, D)[i] = IF list[i] \in D THEN None ELSE list[i]
         /\ \A C : C \subseteq Link /\ Exactly(list, C) => Exactly(Blanked(list, D), C \ D)
<1>1. DOMAIN list = 1..Len(list) /\ Len(list) \in Nat /\ list \in [1..Len(list) -> Link \cup {None}]
  BY LenProperties
<1>2. /\ DOMAIN Blanked(list, D) = DOMAIN list
      /\ \A i \in DOMAIN list : Blanked(list, D)[i] = IF list[i] \in D THEN None ELSE list[i]
  BY DEF Blanked
<1>3. Blanked(list, D) \in [1..Len(list) -> Link \cup {None}]
  BY <1>1 DEF Blanked
<1>4. Blanked(list, D) \in Seq(Link \cup {None})
  BY <1>1, <1>3, SeqDef
<1>5. Len(Blanked(list, D)) = Len(list)
  BY <1>1, <1>2, <1>4, LenProperties
<1>6. ASSUME NEW C, C \subseteq Link, Exactly(list, C)
      PROVE  Exactly(Blanked(list, D), C \ D)
  BY <1>2, <1>6, AdapterAssumption DEF Exactly
<1>7. QED
  BY <1>2, <1>4, <1>5, <1>6

(* What Without has kept of the first n places.                            *)
KeptOf(list, D, F) ==
  F = [n \in 0..Len(list) |->
         IF n = 0 THEN <<>>
         ELSE IF list[n] \in D THEN F[n - 1] ELSE Append(F[n - 1], list[n])]

LEMMA KeptExists ==
  ASSUME NEW list \in Seq(Link), NEW D
  PROVE  \E F : KeptOf(list, D, F) /\ Without(list, D) = F[Len(list)]
<1> DEFINE Next1(r, n) == IF list[n] \in D THEN r ELSE Append(r, list[n])
           Upto(F, m) == F = [n \in 0..m |-> IF n = 0 THEN <<>> ELSE Next1(F[n - 1], n)]
           S == {m \in Nat : \E F : Upto(F, m)}
<1>1. 0 \in S
  <2>1. Upto([n \in 0..0 |-> <<>>], 0)
    OBVIOUS
  <2>2. QED
    BY <2>1
<1>2. ASSUME NEW m \in Nat, m \in S
      PROVE  m + 1 \in S
  <2>1. PICK F : Upto(F, m)
    <3> HIDE DEF Upto
    <3>1. QED
      BY <1>2
  <2> DEFINE G == [n \in 0..(m + 1) |-> IF n = m + 1 THEN Next1(F[m], m + 1) ELSE F[n]]
  <2>2. \A n \in 0..m : F[n] = IF n = 0 THEN <<>> ELSE Next1(F[n - 1], n)
    BY <2>1
  <2>3. ASSUME NEW n \in 0..(m + 1)
        PROVE  G[n] = IF n = 0 THEN <<>> ELSE Next1(G[n - 1], n)
    <3>1. CASE n = m + 1
      <4>1. G[m] = F[m] /\ n - 1 = m /\ n # 0 /\ G[n] = Next1(F[m], m + 1)
        BY <3>1
      <4> HIDE DEF G
      <4>2. QED
        BY <3>1, <4>1
    <3>2. CASE n # m + 1 /\ n # 0
      <4>1. n \in 0..m /\ n - 1 \in 0..m /\ n - 1 # m + 1 /\ n - 1 \in 0..(m + 1)
        BY <3>2
      <4>2. G[n] = F[n] /\ G[n - 1] = F[n - 1]
        BY <3>2, <4>1
      <4> HIDE DEF G
      <4>3. QED
        BY <2>2, <3>2, <4>1, <4>2
    <3>3. CASE n # m + 1 /\ n = 0
      <4>1. G[n] = F[n] /\ n \in 0..m
        BY <3>3
      <4> HIDE DEF G
      <4>2. QED
        BY <2>2, <3>3, <4>1
    <3>4. QED
      BY <3>1, <3>2, <3>3
  <2>4. Upto(G, m + 1)
    <3>1. DOMAIN G = 0..(m + 1) /\ G = [n \in 0..(m + 1) |-> G[n]]
      OBVIOUS
    <3> HIDE DEF G
    <3>2. QED
      BY <2>3, <3>1
  <2>5. m + 1 \in Nat
    OBVIOUS
  <2> HIDE DEF Upto, G
  <2>6. QED
    BY <2>4, <2>5
<1>3. Len(list) \in S
  <2>1. Len(list) \in Nat
    BY LenProperties
  <2> HIDE DEF S
  <2>2. QED
    BY <1>1, <1>2, <2>1, SetInduction
<1> DEFINE P(F) == F = [n \in 0..Len(list) |->
                          IF n = 0 THEN <<>>
                          ELSE IF list[n] \in D THEN F[n - 1] ELSE Append(F[n - 1], list[n])]
           K == CHOOSE F : P(F)
<1>4. \E F : P(F)
  BY <1>3
<1>5. P(K)
  <2> HIDE DEF P
  <2>1. QED
    BY <1>4
<1>6. Without(list, D) = K[Len(list)]
  BY DEF Without
<1> HIDE DEF K
<1>7. QED
  BY <1>5, <1>6 DEF KeptOf

(* The links that are left are all there, each once.                       *)
LEMMA WithoutList ==
  ASSUME NEW list \in Seq(Link), NEW D
  PROVE  /\ Without(list, D) \in Seq(Link)
         /\ \A C : Exactly(list, C) => Exactly(Without(list, D), C \ D)
<1>1. PICK F : KeptOf(list, D, F) /\ Without(list, D) = F[Len(list)]
  BY KeptExists
<1>2. DOMAIN list = 1..Len(list) /\ Len(list) \in Nat /\ \A n \in 1..Len(list) : list[n] \in Link
  BY LenProperties
<1> DEFINE Kept(n) ==
             /\ F[n] \in Seq(Link)
             /\ \A k \in DOMAIN F[n] : \E j \in 1..n : F[n][k] = list[j] /\ list[j] \notin D
             /\ \A j \in 1..n : list[j] \notin D => \E k \in DOMAIN F[n] : F[n][k] = list[j]
             /\ (\A i, j \in 1..n : list[i] = list[j] => i = j) =>
                  \A i, j \in DOMAIN F[n] : F[n][i] = F[n][j] => i = j
           S == {n \in Nat : n \in 0..Len(list) => Kept(n)}
<1>3. /\ F[0] = <<>>
      /\ \A n \in 1..Len(list) : F[n] = IF list[n] \in D THEN F[n - 1] ELSE Append(F[n - 1], list[n])
  <2>1. \A n \in 0..Len(list) :
          F[n] = IF n = 0 THEN <<>>
                 ELSE IF list[n] \in D THEN F[n - 1] ELSE Append(F[n - 1], list[n])
    BY <1>1 DEF KeptOf
  <2>2. 0 \in 0..Len(list) /\ \A n \in 1..Len(list) : n \in 0..Len(list) /\ n # 0
    BY <1>2
  <2>3. QED
    BY <2>1, <2>2
<1>4. 0 \in S
  <2>1. F[0] \in Seq(Link) /\ DOMAIN F[0] = {}
    BY <1>3, EmptySeq
  <2>2. Kept(0)
    BY <2>1
  <2> HIDE DEF Kept
  <2>3. QED
    BY <2>2
<1>5. ASSUME NEW n \in Nat, n \in S
      PROVE  n + 1 \in S
  <2> SUFFICES ASSUME n + 1 \in 0..Len(list)
               PROVE  Kept(n + 1)
    <3> HIDE DEF Kept
    <3>1. n + 1 \in Nat
      OBVIOUS
    <3>2. QED
      BY <3>1
  <2>1. Kept(n) /\ n + 1 \in 1..Len(list) /\ list[n + 1] \in Link /\ (n + 1) - 1 = n
    <3> HIDE DEF Kept
    <3>1. n \in 0..Len(list) /\ n + 1 \in 1..Len(list) /\ (n + 1) - 1 = n
      BY <1>2
    <3>2. QED
      BY <1>2, <1>5, <3>1
  <2>2. CASE list[n + 1] \in D
    <3>1. F[n + 1] = F[n]
      BY <1>3, <2>1, <2>2
    <3>2. \A j \in 1..(n + 1) : j = n + 1 \/ j \in 1..n
      OBVIOUS
    <3>3. QED
      BY <2>1, <2>2, <3>1, <3>2
  <2>3. CASE list[n + 1] \notin D
    <3> DEFINE r == F[n]
               longer == Append(r, list[n + 1])
    <3>1. F[n + 1] = longer
      BY <1>3, <2>1, <2>3
    <3>2. /\ longer \in Seq(Link)
          /\ DOMAIN r = 1..Len(r) /\ Len(r) \in Nat
          /\ DOMAIN longer = 1..(Len(r) + 1)
          /\ longer[Len(r) + 1] = list[n + 1]
          /\ \A i \in DOMAIN r : longer[i] = r[i]
      <4>1. r \in Seq(Link) /\ list[n + 1] \in Link
        BY <2>1
      <4> HIDE DEF r
      <4>2. QED
        BY <4>1, AppendedList
    <3> HIDE DEF longer, r
    <3>3. \A i \in DOMAIN longer : i \in DOMAIN r \/ i = Len(r) + 1
      BY <3>2
    <3>4. Len(r) + 1 \in DOMAIN longer /\ DOMAIN r \subseteq DOMAIN longer
      BY <3>2
    <3>5. /\ \A k \in DOMAIN r : \E j \in 1..n : r[k] = list[j] /\ list[j] \notin D
          /\ \A j \in 1..n : list[j] \notin D => \E k \in DOMAIN r : r[k] = list[j]
          /\ (\A i, j \in 1..n : list[i] = list[j] => i = j) =>
               \A i, j \in DOMAIN r : r[i] = r[j] => i = j
      BY <2>1 DEF r
    <3>6. \A j \in 1..(n + 1) : j = n + 1 \/ j \in 1..n
      OBVIOUS
    <3>7. \A j \in 1..n : j \in 1..(n + 1) /\ j # n + 1
      OBVIOUS
    <3>8. \A k \in DOMAIN longer : \E j \in 1..(n + 1) : longer[k] = list[j] /\ list[j] \notin D
      <4>1. n + 1 \in 1..(n + 1)
        OBVIOUS
      <4>2. QED
        BY <2>3, <3>2, <3>3, <3>5, <3>7, <4>1
    <3>9. \A j \in 1..(n + 1) : list[j] \notin D => \E k \in DOMAIN longer : longer[k] = list[j]
      BY <3>2, <3>4, <3>5, <3>6
    <3>10. ASSUME \A i, j \in 1..(n + 1) : list[i] = list[j] => i = j,
                  NEW i \in DOMAIN longer, NEW j \in DOMAIN longer, longer[i] = longer[j]
           PROVE  i = j
      <4>1. \A k \in DOMAIN r : r[k] # list[n + 1]
        BY <3>5, <3>7, <3>10
      <4>2. \A k, m \in DOMAIN r : r[k] = r[m] => k = m
        BY <3>5, <3>7, <3>10
      <4>3. QED
        BY <3>2, <3>3, <3>10, <4>1, <4>2
    <3>11. QED
      BY <3>1, <3>2, <3>8, <3>9, <3>10
  <2>4. QED
    BY <2>2, <2>3
<1>6. Kept(Len(list))
  <2>1. Len(list) \in S
    <3> HIDE DEF S
    <3>1. QED
      BY <1>2, <1>4, <1>5, SetInduction
  <2>2. Len(list) \in 0..Len(list)
    BY <1>2
  <2> HIDE DEF Kept
  <2>3. QED
    BY <2>1, <2>2
<1>7. ASSUME NEW C, Exactly(list, C)
      PROVE  Exactly(Without(list, D), C \ D)
  <2> DEFINE w == Without(list, D)
  <2>1. /\ \A k \in DOMAIN w : \E j \in 1..Len(list) : w[k] = list[j] /\ list[j] \notin D
        /\ \A j \in 1..Len(list) : list[j] \notin D => \E k \in DOMAIN w : w[k] = list[j]
        /\ (\A i, j \in 1..Len(list) : list[i] = list[j] => i = j) =>
             \A i, j \in DOMAIN w : w[i] = w[j] => i = j
    BY <1>1, <1>6
  <2>2. \A n \in 1..Len(list) : list[n] # None
    BY <1>2, AdapterAssumption
  <2>3. \A i, j \in 1..Len(list) : list[i] = list[j] => i = j
    BY <1>2, <1>7, <2>2 DEF Exactly
  <2> HIDE DEF w
  <2>4. Exactly(w, C \ D)
    BY <1>2, <1>7, <2>1, <2>2, <2>3 DEF Exactly
  <2>5. QED
    BY <2>4 DEF w
<1>8. QED
  BY <1>1, <1>6, <1>7

(* Two lists one after the other have the links of both.                   *)
LEMMA JoinedLists ==
  ASSUME NEW S, NEW list \in Seq(S), NEW rest \in Seq(S), NEW C, NEW D,
         Exactly(list, C), Exactly(rest, D), C \cap D = {}
  PROVE  /\ list \o rest \in Seq(S)
         /\ Exactly(list \o rest, C \cup D)
<1> DEFINE both == list \o rest
<1>1. /\ both \in Seq(S)
      /\ Len(both) = Len(list) + Len(rest)
      /\ \A i \in 1..Len(list) + Len(rest) :
           both[i] = IF i <= Len(list) THEN list[i] ELSE rest[i - Len(list)]
  BY ConcatProperties
<1> HIDE DEF both
<1>2. /\ DOMAIN list = 1..Len(list) /\ Len(list) \in Nat
      /\ DOMAIN rest = 1..Len(rest) /\ Len(rest) \in Nat
      /\ DOMAIN both = 1..Len(both)
  BY <1>1, LenProperties
<1>3. \A i \in DOMAIN list : i \in DOMAIN both /\ both[i] = list[i]
  BY <1>1, <1>2
<1>4. ASSUME NEW i \in DOMAIN rest
      PROVE  i + Len(list) \in DOMAIN both /\ both[i + Len(list)] = rest[i]
  <2>1. i + Len(list) \in 1..Len(list) + Len(rest) /\ ~(i + Len(list) <= Len(list))
    BY <1>2
  <2>2. (i + Len(list)) - Len(list) = i
    BY <1>2
  <2>3. QED
    BY <1>1, <1>2, <2>1, <2>2
<1>5. \A i \in DOMAIN both :
        \/ i \in DOMAIN list
        \/ i - Len(list) \in DOMAIN rest /\ both[i] = rest[i - Len(list)] /\ i \notin DOMAIN list
  BY <1>1, <1>2
<1>6. \A i, j \in DOMAIN both : i - Len(list) = j - Len(list) => i = j
  BY <1>2
<1>7. \A i \in DOMAIN both : both[i] # None => both[i] \in C \cup D
  BY <1>3, <1>5 DEF Exactly
<1>8. \A l \in C \cup D : \E i \in DOMAIN both : both[i] = l
  BY <1>3, <1>4 DEF Exactly
<1>9. ASSUME NEW i \in DOMAIN both, NEW j \in DOMAIN both, both[i] = both[j], both[i] # None
      PROVE  i = j
  <2>1. CASE i \in DOMAIN list /\ j \in DOMAIN list
    BY <1>3, <1>9, <2>1 DEF Exactly
  <2>2. CASE i \notin DOMAIN list /\ j \notin DOMAIN list
    <3>1. i - Len(list) = j - Len(list)
      BY <1>5, <1>9, <2>2 DEF Exactly
    <3>2. QED
      BY <1>6, <3>1
  <2>3. CASE i \in DOMAIN list /\ j \notin DOMAIN list
    <3>1. both[i] \in C /\ both[j] \in D
      BY <1>3, <1>5, <1>9, <2>3 DEF Exactly
    <3>2. QED
      BY <1>9, <3>1
  <2>4. CASE i \notin DOMAIN list /\ j \in DOMAIN list
    <3>1. both[i] \in D /\ both[j] \in C
      BY <1>3, <1>5, <1>9, <2>4 DEF Exactly
    <3>2. QED
      BY <1>9, <3>1
  <2>5. QED
    BY <2>1, <2>2, <2>3, <2>4
<1>10. Exactly(both, C \cup D)
  BY <1>7, <1>8, <1>9 DEF Exactly
<1>11. QED
  BY <1>1, <1>10 DEF both

LEMMA ExactSet ==
  ASSUME NEW list, NEW C, Exactly(list, C)
  PROVE  /\ ToSet(list) \ {None} = C \ {None}
         /\ None \notin C => Once(list, C)
<1>1. ToSet(list) \ {None} = C \ {None}
  BY DEF Exactly, ToSet
<1>2. ASSUME None \notin C, NEW l \in C
      PROVE  Cardinality({i \in DOMAIN list : list[i] = l}) = 1
  <2>1. PICK i \in DOMAIN list : list[i] = l
    BY DEF Exactly
  <2>2. {j \in DOMAIN list : list[j] = l} = {i}
    BY <1>2, <2>1 DEF Exactly
  <2>3. QED
    BY <2>2, FS_Singleton
<1>3. QED
  BY <1>1, <1>2 DEF Once

(* A list that has each link at most once is no longer than there are.     *)
LEMMA ExactLength ==
  ASSUME NEW C, C \subseteq Link, NEW list \in Seq(Link \cup {None}),
         Exactly(list, C), \A i \in DOMAIN list : list[i] # None
  PROVE  Len(list) <= Cardinality(C) /\ Len(list) \in Nat /\ Cardinality(C) \in Nat
<1>1. DOMAIN list = 1..Len(list) /\ Len(list) \in Nat /\ list \in [1..Len(list) -> Link \cup {None}]
  BY LenProperties
<1>2. list \in [1..Len(list) -> C]
  BY <1>1 DEF Exactly
<1>3. list \in Injection(1..Len(list), C)
  BY <1>1, <1>2 DEF Exactly, Injection, IsInjective
<1>4. IsFiniteSet(C)
  BY AdapterAssumption, FS_Subset
<1>5. Cardinality(1..Len(list)) <= Cardinality(C)
  BY <1>3, <1>4, FS_Injection
<1>6. Cardinality(1..Len(list)) = Len(list)
  <2>1. 1 \in Int /\ Len(list) \in Int
    BY <1>1
  <2>2. Cardinality(1..Len(list)) = IF 1 > Len(list) THEN 0 ELSE Len(list) - 1 + 1
    BY <2>1, FS_Interval
  <2>3. QED
    BY <1>1, <2>2
<1>7. Cardinality(C) \in Nat
  BY <1>4, FS_CardinalityType
<1>8. QED
  BY <1>1, <1>5, <1>6, <1>7

(***************************************************************************)
(* The inductive invariant.  An id is given once because a list has each   *)
(* link once, and the list does not outgrow the links because it grows     *)
(* only when it has no vacant place; a connection that waits is nobody's   *)
(* link yet; and the ingress of the message in hand is still there.        *)
(***************************************************************************)
LinksInv ==
  /\ link \in [Link -> LinkState]
  /\ slot \in Seq(Link \cup {None}) /\ polled \in Seq(Link \cup {None})
  /\ listeners \in Seq(Link) /\ owned \in Seq(Link)
  /\ Exactly(slot, {l \in Present : ~link[l].listens})
  /\ Exactly(listeners, {l \in Present : link[l].listens})
  /\ Exactly(polled, Present) /\ Exactly(owned, Present)
  /\ Len(slot) <= Cardinality(Link)
  /\ \A l \in Link : link[l].name = None => link[l] = Gone
  /\ \A k, l \in Present : link[k].name = link[l].name => k = l

SocketsInv ==
  /\ input \in [Link -> 0..MaxInput]
  /\ waiting \in [Link -> SUBSET Link]
  /\ peer \in [Link -> {"up", "ended", "reset"}]
  /\ \A k, l \in Link : l \in waiting[k] =>
       l \notin Present /\ \A j \in Link : l \in waiting[j] => j = k

ThreadInv ==
  /\ phase \in Phase /\ at \in Nat /\ next \in Nat /\ read \in Link \cup {None}
  /\ phase = "Process" => next - 1 \in SlotsOf(Link)

HoldersInv == routes \subseteq 1..Cardinality(Link) /\ pending \subseteq 1..Cardinality(Link)

AdapterInv == LinksInv /\ SocketsInv /\ ThreadInv /\ HoldersInv

(* What reading, polling and sending do to a link leaves it the link it is.*)
SameLinks(old) ==
  /\ old \in [Link -> LinkState]
  /\ \A l \in Link : /\ old[l].name = link[l].name /\ old[l].listens = link[l].listens
                     /\ link[l] = Gone => old[l] = Gone

LEMMA PresentLinks ==
  ASSUME LinksInv
  PROVE  /\ Present \subseteq Link /\ None \notin Present
         /\ \A l \in Link : l \in Present <=> link[l].name # None
         /\ \A l \in Present : link[l].name \in Name
<1>1. \A l \in Link : link[l] \in LinkState
  BY DEF LinksInv
<1>2. QED
  BY <1>1, AdapterAssumption DEF LinksInv, Present, Gone, LinkState

LEMMA SlotIds ==
  ASSUME LinksInv
  PROVE  /\ DOMAIN slot = 1..Len(slot) /\ Len(slot) \in Nat
         /\ SlotsOf(Link) \subseteq 1..Cardinality(Link)
         /\ \A i \in SlotsOf(Link) : slot[i] \in Present /\ ~link[slot[i]].listens
         /\ \A i \in DOMAIN slot : slot[i] # None => i \in SlotsOf(Link)
<1>1. DOMAIN slot = 1..Len(slot) /\ Len(slot) \in Nat /\ \A i \in 1..Len(slot) : slot[i] \in Link \cup {None}
  BY LenProperties DEF LinksInv
<1>2. Len(slot) <= Cardinality(Link) /\ Cardinality(Link) \in Nat
  BY AdapterAssumption, FS_CardinalityType DEF LinksInv
<1>3. QED
  BY <1>1, <1>2, AdapterAssumption DEF LinksInv, SlotsOf, Exactly, Present

(* The search by name sees every link that is there.                       *)
LEMMA FreeName ==
  ASSUME LinksInv, NEW n, ~NameTaken(n)
  PROVE  \A k \in Present : link[k].name # n
<1> DEFINE A == {l \in Present : link[l].listens}
           B == {l \in Present : ~link[l].listens}
           S == Link \cup {None}
<1>1. listeners \in Seq(S)
  <2>1. listeners \in Seq(Link) /\ Seq(Link) \subseteq Seq(S)
    BY SeqMonotonic DEF LinksInv
  <2>2. QED
    BY <2>1
<1>2. slot \in Seq(S) /\ Exactly(listeners, A) /\ Exactly(slot, B) /\ A \cap B = {}
  BY DEF LinksInv
<1>3. A \cup B = Present /\ None \notin Present
  BY PresentLinks
<1> HIDE DEF A, B, S
<1>4. Exactly(listeners \o slot, A \cup B)
  BY <1>1, <1>2, JoinedLists
<1>5. ToSet(listeners \o slot) \ {None} = Present
  BY <1>3, <1>4, ExactSet
<1>6. QED
  BY <1>5 DEF NameTaken

LEMMA LinksSame ==
  ASSUME LinksInv, SameLinks(link'), UNCHANGED table
  PROVE  LinksInv' /\ Present' = Present
<1>1. slot' = slot /\ listeners' = listeners /\ polled' = polled /\ owned' = owned
  BY DEF table
<1>2. \A l \in Link : /\ link'[l].name = link[l].name /\ link'[l].listens = link[l].listens
                      /\ link'[l] = Gone <=> link[l] = Gone
  BY DEF SameLinks, LinksInv, Gone
<1>3. Present' = Present
  BY <1>2 DEF Present
<1>4. \A l \in Present : l \in Link
  BY DEF Present
<1>5. /\ {l \in Present : ~link[l].listens}' = {l \in Present : ~link[l].listens}
      /\ {l \in Present : link[l].listens}' = {l \in Present : link[l].listens}
  BY <1>2, <1>3, <1>4
<1>6. link' \in [Link -> LinkState]
  BY DEF SameLinks
<1>7. /\ \A l \in Link : link'[l].name = None => link'[l] = Gone
      /\ \A k, l \in Present' : link'[k].name = link'[l].name => k = l
  <2>1. /\ \A l \in Link : link[l].name = None => link[l] = Gone
        /\ \A k, l \in Present : link[k].name = link[l].name => k = l
    BY DEF LinksInv
  <2>2. \A l \in Link : link'[l].name = None => link'[l] = Gone
    BY <1>2, <2>1
  <2>3. \A k, l \in Present : link'[k].name = link[k].name /\ link'[l].name = link[l].name
    BY <1>2, <1>4
  <2>4. QED
    BY <1>3, <2>1, <2>2, <2>3
<1>8. QED
  BY <1>1, <1>3, <1>5, <1>6, <1>7 DEF LinksInv

LEMMA LinksClosed ==
  ASSUME LinksInv, NEW C, NEW old, SameLinks(old), CloseLinks(C, old)
  PROVE  /\ LinksInv'
         /\ Present' = Present \ C
         /\ DOMAIN slot' = DOMAIN slot
         /\ \A i \in DOMAIN slot : slot'[i] = IF slot[i] \in C THEN None ELSE slot[i]
<1>1. link' = [l \in Link |-> IF l \in C THEN Gone ELSE old[l]]
  BY DEF CloseLinks
<1>2. /\ slot' = Blanked(slot, C) /\ polled' = Blanked(polled, C)
      /\ listeners' = Without(listeners, C) /\ owned' = Without(owned, C)
  BY DEF CloseLinks, Unpolled
<1>3. link' \in [Link -> LinkState]
  <2>1. Gone \in LinkState
    BY DEF Gone, LinkState
  <2>2. QED
    BY <1>1, <2>1 DEF SameLinks
<1>4. \A l \in Link : IF l \in C THEN link'[l] = Gone
                      ELSE /\ link'[l].name = link[l].name /\ link'[l].listens = link[l].listens
                           /\ link'[l] = Gone <=> link[l] = Gone
  BY <1>1 DEF SameLinks, LinksInv, Gone
<1>5. Present' = Present \ C
  BY <1>4 DEF Present
<1>6. \A l \in Present : l \in Link
  BY DEF Present
<1>7. /\ {l \in Present : ~link[l].listens}' = {l \in Present : ~link[l].listens} \ C
      /\ {l \in Present : link[l].listens}' = {l \in Present : link[l].listens} \ C
  BY <1>4, <1>5, <1>6
<1> DEFINE A == {l \in Present : link[l].listens}
           B == {l \in Present : ~link[l].listens}
<1>8. /\ slot' \in Seq(Link \cup {None}) /\ Len(slot') = Len(slot) /\ DOMAIN slot' = DOMAIN slot
      /\ \A i \in DOMAIN slot : slot'[i] = IF slot[i] \in C THEN None ELSE slot[i]
      /\ Exactly(slot', B \ C)
  <2>1. slot \in Seq(Link \cup {None}) /\ Exactly(slot, B) /\ B \subseteq Link
    BY <1>6 DEF LinksInv
  <2> HIDE DEF B
  <2>2. QED
    BY <1>2, <2>1, BlankedList
<1>9. polled' \in Seq(Link \cup {None}) /\ Exactly(polled', Present \ C)
  <2>1. polled \in Seq(Link \cup {None}) /\ Exactly(polled, Present) /\ Present \subseteq Link
    BY <1>6 DEF LinksInv
  <2>2. QED
    BY <1>2, <2>1, BlankedList
<1>10. listeners' \in Seq(Link) /\ Exactly(listeners', A \ C)
  <2>1. listeners \in Seq(Link) /\ Exactly(listeners, A)
    BY DEF LinksInv
  <2> HIDE DEF A
  <2>2. QED
    BY <1>2, <2>1, WithoutList
<1>11. owned' \in Seq(Link) /\ Exactly(owned', Present \ C)
  <2>1. owned \in Seq(Link) /\ Exactly(owned, Present)
    BY DEF LinksInv
  <2>2. QED
    BY <1>2, <2>1, WithoutList
<1>12. /\ \A l \in Link : link'[l].name = None => link'[l] = Gone
       /\ \A k, l \in Present' : link'[k].name = link'[l].name => k = l
  BY <1>4, <1>5, <1>6 DEF LinksInv
<1>13. Len(slot') <= Cardinality(Link)
  BY <1>8 DEF LinksInv
<1>14. LinksInv'
  BY <1>3, <1>5, <1>7, <1>8, <1>9, <1>10, <1>11, <1>12, <1>13 DEF LinksInv
<1>15. QED
  BY <1>5, <1>8, <1>14

LEMMA LinksAdded ==
  ASSUME LinksInv, NEW l \in Link, l \notin Present, NEW n \in Name, ~NameTaken(n),
         NEW listens \in BOOLEAN, NEW old, SameLinks(old), AddLink(l, n, listens, old)
  PROVE  /\ LinksInv'
         /\ Present' = Present \cup {l}
         /\ link'[l].name = n
         /\ \A k \in Link : k # l => link'[k].name = link[k].name
         /\ DOMAIN slot \subseteq DOMAIN slot'
         /\ \A i \in DOMAIN slot' : slot'[i] = l => i \notin SlotsOf(Link)
         /\ \A i \in DOMAIN slot' : slot'[i] # l => i \in DOMAIN slot /\ slot'[i] = slot[i]
         /\ \A i \in SlotsOf(Link) : slot'[i] = slot[i]
<1> DEFINE A == {k \in Present : link[k].listens}
           B == {k \in Present : ~link[k].listens}
           S == Link \cup {None}
<1>1. /\ link' = [old EXCEPT ![l] = [name |-> n, listens |-> listens, events |-> {}]]
      /\ listens => listeners' = Append(listeners, l) /\ slot' = slot
      /\ ~listens => listeners' = listeners /\ slot' = Placed(slot, l)
      /\ polled' = Placed(polled, l) /\ owned' = Append(owned, l)
  BY DEF AddLink
<1>2. /\ Present \subseteq Link /\ None \notin Present /\ l # None /\ n # None
      /\ slot \in Seq(S) /\ Exactly(slot, B) /\ B \subseteq Link /\ l \notin B /\ l \in S
      /\ listeners \in Seq(Link) /\ Exactly(listeners, A) /\ A \subseteq Link /\ l \notin A
      /\ polled \in Seq(S) /\ Exactly(polled, Present)
      /\ owned \in Seq(Link) /\ Exactly(owned, Present)
  BY AdapterAssumption, PresentLinks DEF LinksInv
<1>3. link' \in [Link -> LinkState]
  <2>1. [name |-> n, listens |-> listens, events |-> {}] \in LinkState
    BY DEF LinkState
  <2>2. QED
    BY <1>1, <2>1 DEF SameLinks
<1>4. /\ link'[l].name = n /\ link'[l].listens = listens /\ link'[l] # Gone
      /\ \A k \in Link : k # l => /\ link'[k].name = link[k].name
                                  /\ link'[k].listens = link[k].listens
                                  /\ link'[k] = Gone <=> link[k] = Gone
  <2>1. link'[l] = [name |-> n, listens |-> listens, events |-> {}] /\ link'[l] # Gone
    BY <1>1, <1>2 DEF SameLinks, Gone
  <2>2. \A k \in Link : k # l => link'[k] = old[k]
    BY <1>1 DEF SameLinks
  <2>3. \A k \in Link : /\ old[k].name = link[k].name /\ old[k].listens = link[k].listens
                        /\ old[k] = Gone <=> link[k] = Gone
    BY DEF SameLinks, LinksInv, Gone
  <2>4. QED
    BY <2>1, <2>2, <2>3
<1>5. Present' = Present \cup {l}
  BY <1>2, <1>4 DEF Present
<1>6. /\ listens => {k \in Present : link[k].listens}' = A \cup {l} /\ {k \in Present : ~link[k].listens}' = B
      /\ ~listens => {k \in Present : link[k].listens}' = A /\ {k \in Present : ~link[k].listens}' = B \cup {l}
  <2>1. \A k \in Present' : k \in Link /\ (k = l \/ k \in Present)
    BY <1>2, <1>5
  <2>2. QED
    BY <1>2, <1>4, <1>5, <2>1
<1> HIDE DEF A, B
<1>7. polled' \in Seq(S) /\ Exactly(polled', Present \cup {l})
  BY <1>1, <1>2, PlacedList
<1>8. owned' \in Seq(Link) /\ Exactly(owned', Present \cup {l})
  BY <1>1, <1>2, AppendedList
<1>9. /\ listeners' \in Seq(Link)
      /\ IF listens THEN Exactly(listeners', A \cup {l}) ELSE Exactly(listeners', A)
  <2>1. CASE listens
    <3>1. Append(listeners, l) \in Seq(Link) /\ Exactly(Append(listeners, l), A \cup {l})
      BY <1>2, AppendedList
    <3>2. listeners' = Append(listeners, l)
      BY <1>1, <2>1
    <3>3. QED
      BY <2>1, <3>1, <3>2
  <2>2. CASE ~listens
    BY <1>1, <1>2, <2>2
  <2>3. QED
    BY <2>1, <2>2
<1>10. CASE listens
  <2>1. slot' = slot
    BY <1>1, <1>10
  <2>2. \A i \in DOMAIN slot : slot[i] # l
    BY <1>2 DEF Exactly
  <2>3. LinksInv'
    <3>1. \A j, k \in Present' : link'[j].name = link'[k].name => j = k
      BY <1>2, <1>4, <1>5, FreeName DEF LinksInv
    <3>2. QED
      BY <1>2, <1>3, <1>4, <1>5, <1>6, <1>7, <1>8, <1>9, <1>10, <2>1, <3>1 DEF LinksInv
  <2>4. QED
    BY <1>4, <1>5, <2>1, <2>2, <2>3
<1>11. CASE ~listens
  <2>1. slot' = Placed(slot, l) /\ listeners' = listeners
    BY <1>1, <1>11
  <2>2. slot' \in Seq(S) /\ Exactly(slot', B \cup {l}) /\ DOMAIN slot \subseteq DOMAIN slot'
    BY <1>2, <2>1, PlacedList
  <2>3. PICK i \in DOMAIN slot' :
          /\ slot'[i] = l
          /\ i \in DOMAIN slot => slot[i] = None
          /\ \A j \in DOMAIN slot' : j # i => j \in DOMAIN slot /\ slot'[j] = slot[j]
    <3>1. slot \in Seq(Link \cup {None}) /\ l \in Link
      BY <1>2
    <3> HIDE DEF A, B, S
    <3>2. \E i \in DOMAIN Placed(slot, l) :
            /\ Placed(slot, l)[i] = l
            /\ i \in DOMAIN slot => slot[i] = None
            /\ \A j \in DOMAIN Placed(slot, l) : j # i => j \in DOMAIN slot /\ Placed(slot, l)[j] = slot[j]
      BY <3>1, PlacedList
    <3>3. QED
      BY <2>1, <3>2
  <2>4. i \notin SlotsOf(Link)
    BY <2>3, AdapterAssumption DEF SlotsOf
  <2>5. \A j \in DOMAIN slot' : slot'[j] = l => j = i
    BY <1>2, <2>2, <2>3 DEF Exactly
  <2>6. Len(slot') <= Cardinality(Link)
    <3>1. CASE Len(slot') = Len(slot)
      BY <3>1 DEF LinksInv
    <3>2. CASE slot' = Append(slot, l) /\ \A j \in DOMAIN slot : slot[j] # None
      <4>1. \A j \in DOMAIN slot' : slot'[j] # None
        BY <1>2, <2>3, <3>2
      <4>2. B \cup {l} \subseteq Link
        BY <1>2
      <4>3. Len(slot') <= Cardinality(B \cup {l}) /\ Len(slot') \in Nat /\ Cardinality(B \cup {l}) \in Nat
        BY <2>2, <4>1, <4>2, ExactLength
      <4>4. Cardinality(B \cup {l}) <= Cardinality(Link) /\ Cardinality(Link) \in Nat
        BY <4>2, AdapterAssumption, FS_Subset, FS_CardinalityType
      <4>5. QED
        BY <4>3, <4>4
    <3>3. QED
      BY <1>2, <2>1, <3>1, <3>2, PlacedList
  <2>7. LinksInv'
    <3>1. \A j, k \in Present' : link'[j].name = link'[k].name => j = k
      BY <1>2, <1>4, <1>5, FreeName DEF LinksInv
    <3>2. QED
      BY <1>2, <1>3, <1>4, <1>5, <1>6, <1>7, <1>8, <1>9, <1>11, <2>1, <2>2, <2>6, <3>1 DEF LinksInv
  <2>8. \A j \in SlotsOf(Link) : slot'[j] = slot[j]
    BY <2>2, <2>3, <2>4 DEF SlotsOf
  <2>9. QED
    BY <1>4, <1>5, <2>2, <2>3, <2>4, <2>5, <2>7, <2>8
<1>12. QED
  BY <1>10, <1>11

(* What the sockets and the holders of ids keep when links go. *)
LEMMA SocketsSame ==
  ASSUME SocketsInv, UNCHANGED sockets, Present' = Present
  PROVE  SocketsInv'
BY DEF SocketsInv, sockets

LEMMA SocketsClosed ==
  ASSUME SocketsInv, NEW C, NEW old, CloseLinks(C, old), Present' = Present \ C
  PROVE  SocketsInv'
<1>1. /\ input' = [l \in Link |-> IF l \in C THEN 0 ELSE input[l]]
      /\ waiting' = [l \in Link |-> IF l \in C THEN {} ELSE waiting[l]]
      /\ peer' = [l \in Link |-> IF l \in C THEN "up" ELSE peer[l]]
  BY DEF CloseLinks, Disconnect
<1>2. input' \in [Link -> 0..MaxInput]
  BY <1>1, AdapterAssumption DEF SocketsInv
<1>3. waiting' \in [Link -> SUBSET Link] /\ peer' \in [Link -> {"up", "ended", "reset"}]
  BY <1>1 DEF SocketsInv
<1>4. \A k, l \in Link : l \in waiting'[k] => k \notin C /\ l \in waiting[k]
  BY <1>1
<1>5. \A k, l \in Link : l \in waiting'[k] =>
        l \notin Present' /\ \A j \in Link : l \in waiting'[j] => j = k
  BY <1>4 DEF SocketsInv
<1>6. QED
  BY <1>2, <1>3, <1>5 DEF SocketsInv

LEMMA HoldersClosed ==
  ASSUME HoldersInv, NEW C, NEW old, CloseLinks(C, old)
  PROVE  HoldersInv'
BY DEF HoldersInv, CloseLinks, Forget

(* The caller's turn ends without a message in hand.                       *)
LEMMA Returned ==
  ASSUME ThreadInv, CallerHasControl, Return
  PROVE  ThreadInv' /\ (phase' = phase \/ phase' = "Search")
BY DEF ThreadInv, CallerHasControl, Return, thread, Phase

LEMMA NothingToIt ==
  ASSUME LinksInv
  PROVE  SameLinks(link)
BY DEF LinksInv, SameLinks

(* An event on links that are there.                                       *)
LEMMA EventsOnly ==
  ASSUME LinksInv, NEW C, C \subseteq Present, NEW old \in [Link -> LinkState],
         \A l \in Link : IF l \in C THEN old[l].name = link[l].name /\ old[l].listens = link[l].listens
                         ELSE old[l] = link[l]
  PROVE  SameLinks(old)
BY DEF SameLinks, LinksInv, Present

LEMMA OneLinkEvents ==
  ASSUME LinksInv, NEW l \in Present, NEW E \in SUBSET Event
  PROVE  SameLinks([link EXCEPT ![l].events = E])
<1> DEFINE old == [link EXCEPT ![l].events = E]
<1>1. l \in Link /\ link[l] \in LinkState
  BY DEF LinksInv, Present
<1>2. [link[l] EXCEPT !.events = E] \in LinkState
  BY <1>1 DEF LinkState
<1>3. old \in [Link -> LinkState]
  BY <1>2 DEF LinksInv
<1>4. \A k \in Link : IF k \in {l} THEN old[k].name = link[k].name /\ old[k].listens = link[k].listens
                      ELSE old[k] = link[k]
  BY <1>1 DEF LinksInv, LinkState
<1> HIDE DEF old
<1>5. SameLinks(old)
  BY <1>3, <1>4, EventsOnly
<1>6. QED
  BY <1>5 DEF old

LEMMA OpenKeeps ==
  ASSUME AdapterInv, NEW l \in Link, NEW n \in Name, NEW listens \in BOOLEAN, Open(l, n, listens)
  PROVE  AdapterInv'
<1>1. LinksInv /\ SocketsInv /\ ThreadInv /\ HoldersInv
  BY DEF AdapterInv
<1>2. CallerHasControl /\ Return /\ l \notin Present /\ \A k \in Link : l \notin waiting[k]
  BY DEF Open, Unmade
<1>3. UNCHANGED holders /\ UNCHANGED sockets
  BY DEF Open
<1>4. CASE NameTaken(n)
  <2>1. link' = link /\ UNCHANGED table
    BY <1>4 DEF Open
  <2>2. LinksInv' /\ Present' = Present
    BY <1>1, <2>1, NothingToIt, LinksSame
  <2>3. QED
    BY <1>1, <1>2, <1>3, <2>2, Returned, SocketsSame DEF AdapterInv, HoldersInv, holders
<1>5. CASE ~NameTaken(n)
  <2>1. AddLink(l, n, listens, link)
    BY <1>5 DEF Open
  <2>2. LinksInv' /\ Present' = Present \cup {l}
    BY <1>1, <1>2, <1>5, <2>1, NothingToIt, LinksAdded
  <2>3. SocketsInv'
    BY <1>1, <1>2, <1>3, <2>2 DEF SocketsInv, sockets
  <2>4. QED
    BY <1>1, <1>2, <1>3, <2>2, <2>3, Returned DEF AdapterInv, HoldersInv, holders
<1>6. QED
  BY <1>4, <1>5

LEMMA CloseByNameKeeps ==
  ASSUME AdapterInv, NEW n \in Name, CloseByName(n)
  PROVE  AdapterInv'
<1>1. PICK l \in Present : CloseLinks({l}, link)
  BY DEF CloseByName
<1>2. LinksInv /\ SocketsInv /\ ThreadInv /\ HoldersInv
  BY DEF AdapterInv
<1>3. LinksInv' /\ Present' = Present \ {l}
  BY <1>1, <1>2, NothingToIt, LinksClosed
<1>4. SocketsInv' /\ HoldersInv'
  BY <1>1, <1>2, <1>3, SocketsClosed, HoldersClosed
<1>5. CallerHasControl /\ Return
  BY DEF CloseByName, CallerHasControl
<1>6. QED
  BY <1>2, <1>3, <1>4, <1>5, Returned DEF AdapterInv

LEMMA IdsAreSmall ==
  ASSUME LinksInv, NEW i \in Ids
  PROVE  i \in 1..Cardinality(Link)
BY SlotIds DEF Ids

LEMMA AddRouteKeeps ==
  ASSUME AdapterInv, NEW i, AddRoute(i)
  PROVE  AdapterInv'
<1>1. LinksInv /\ SocketsInv /\ ThreadInv /\ HoldersInv
  BY DEF AdapterInv
<1>2. /\ CallerHasControl /\ Return /\ i \in Ids /\ routes' = routes \cup {i}
      /\ link' = link /\ UNCHANGED table /\ pending' = pending /\ UNCHANGED sockets
  BY DEF AddRoute
<1>3. LinksInv' /\ Present' = Present
  BY <1>1, <1>2, NothingToIt, LinksSame
<1>4. HoldersInv'
  BY <1>1, <1>2, IdsAreSmall DEF HoldersInv
<1>5. QED
  BY <1>1, <1>2, <1>3, <1>4, Returned, SocketsSame DEF AdapterInv

LEMMA DeleteRouteKeeps ==
  ASSUME AdapterInv, NEW i, DeleteRoute(i)
  PROVE  AdapterInv'
<1>1. LinksInv /\ SocketsInv /\ ThreadInv /\ HoldersInv
  BY DEF AdapterInv
<1>2. /\ CallerHasControl /\ Return /\ routes' = routes \ {i}
      /\ link' = link /\ UNCHANGED table /\ pending' = pending /\ UNCHANGED sockets
  BY DEF DeleteRoute, CallerHasControl
<1>3. LinksInv' /\ Present' = Present
  BY <1>1, <1>2, NothingToIt, LinksSame
<1>4. HoldersInv'
  BY <1>1, <1>2 DEF HoldersInv
<1>5. QED
  BY <1>1, <1>2, <1>3, <1>4, Returned, SocketsSame DEF AdapterInv

LEMMA InterestKeeps ==
  ASSUME AdapterInv, Interest
  PROVE  AdapterInv'
<1>1. LinksInv /\ SocketsInv /\ ThreadInv /\ HoldersInv
  BY DEF AdapterInv
<1>2. /\ CallerHasControl /\ Return /\ phase = "Process" /\ pending' = pending \cup {next - 1}
      /\ link' = link /\ UNCHANGED table /\ routes' = routes /\ UNCHANGED sockets
  BY DEF Interest, CallerHasControl
<1>3. LinksInv' /\ Present' = Present
  BY <1>1, <1>2, NothingToIt, LinksSame
<1>4. next - 1 \in 1..Cardinality(Link)
  BY <1>1, <1>2, SlotIds DEF ThreadInv
<1>5. HoldersInv'
  BY <1>1, <1>2, <1>4 DEF HoldersInv
<1>6. QED
  BY <1>1, <1>2, <1>3, <1>5, Returned, SocketsSame DEF AdapterInv

LEMMA FailedLinks ==
  ASSUME LinksInv, NEW i,
         link' = [l \in Link |-> IF l \in FailedSends({i} \cap SlotsOf(Link))
                    THEN [link[l] EXCEPT !.events = @ \cup {"Error"}] ELSE link[l]]
  PROVE  SameLinks(link')
<1> DEFINE C == FailedSends({i} \cap SlotsOf(Link))
<1>1. C \subseteq Present
  BY SlotIds DEF FailedSends
<1>2. \A l \in Link : link[l] \in LinkState /\ [link[l] EXCEPT !.events = @ \cup {"Error"}] \in LinkState
  <2>1. ASSUME NEW l \in Link
        PROVE  link[l] \in LinkState
    BY DEF LinksInv
  <2>2. ASSUME NEW x \in LinkState
        PROVE  [x EXCEPT !.events = @ \cup {"Error"}] \in LinkState
    BY DEF LinkState, Event
  <2>3. QED
    BY <2>1, <2>2
<1>3. \A l \in Link : /\ [link[l] EXCEPT !.events = @ \cup {"Error"}].name = link[l].name
                      /\ [link[l] EXCEPT !.events = @ \cup {"Error"}].listens = link[l].listens
  BY <1>2 DEF LinkState
<1> HIDE DEF C
<1>4. /\ link' \in [Link -> LinkState]
      /\ \A l \in Link : IF l \in C THEN link'[l].name = link[l].name /\ link'[l].listens = link[l].listens
                         ELSE link'[l] = link[l]
  BY <1>2, <1>3 DEF C
<1>5. QED
  BY <1>1, <1>4, EventsOnly

LEMMA AnswerKeeps ==
  ASSUME AdapterInv, NEW i, Answer(i)
  PROVE  AdapterInv'
<1>1. LinksInv /\ SocketsInv /\ ThreadInv /\ HoldersInv
  BY DEF AdapterInv
<1>2. /\ CallerHasControl /\ Return /\ pending' = pending \ {i}
      /\ UNCHANGED table /\ routes' = routes /\ UNCHANGED sockets
  BY DEF Answer, CallerHasControl
<1>3. SameLinks(link')
  BY <1>1, FailedLinks DEF Answer
<1>4. LinksInv' /\ Present' = Present
  BY <1>1, <1>2, <1>3, LinksSame
<1>5. HoldersInv'
  BY <1>1, <1>2 DEF HoldersInv
<1>6. QED
  BY <1>1, <1>2, <1>4, <1>5, Returned, SocketsSame DEF AdapterInv

(* Steps that only move the thread.                                        *)
LEMMA ThreadMoves ==
  ASSUME AdapterInv, ThreadInv', UNCHANGED <<link, table, holders, sockets>>
  PROVE  AdapterInv'
<1>1. LinksInv /\ SocketsInv /\ HoldersInv /\ link' = link /\ UNCHANGED table
  BY DEF AdapterInv
<1>2. LinksInv' /\ Present' = Present
  BY <1>1, NothingToIt, LinksSame
<1>3. SocketsInv' /\ HoldersInv'
  BY <1>1, <1>2, SocketsSame DEF HoldersInv, holders
<1>4. QED
  BY <1>2, <1>3 DEF AdapterInv

LEMMA IgnoreKeeps ==
  ASSUME AdapterInv, Ignore
  PROVE  AdapterInv'
<1>1. ThreadInv'
  BY DEF AdapterInv, ThreadInv, Ignore, Phase
<1>2. QED
  BY <1>1, ThreadMoves DEF Ignore

LEMMA KillKeeps ==
  ASSUME AdapterInv, Kill
  PROVE  AdapterInv'
<1>1. ThreadInv'
  BY DEF AdapterInv, ThreadInv, Kill, Phase
<1>2. QED
  BY <1>1, ThreadMoves DEF Kill

LEMMA EndOfSearchKeeps ==
  ASSUME AdapterInv, EndOfSearch
  PROVE  AdapterInv'
<1>1. ThreadInv'
  BY DEF AdapterInv, ThreadInv, EndOfSearch, GoTo, Phase
<1>2. QED
  BY <1>1, ThreadMoves DEF EndOfSearch

LEMMA EndOfListenersKeeps ==
  ASSUME AdapterInv, EndOfListeners
  PROVE  AdapterInv'
<1>1. ThreadInv'
  BY DEF AdapterInv, ThreadInv, EndOfListeners, GoTo, Phase
<1>2. QED
  BY <1>1, ThreadMoves DEF EndOfListeners

(* A traversal meets links that are there.                                 *)
LEMMA Visited ==
  ASSUME LinksInv, NEW i, (i \in DOMAIN slot /\ Visits(slot, i)) \/ (i \in DOMAIN listeners /\ Visits(listeners, i))
  PROVE  /\ i \in Nat
         /\ i \in DOMAIN slot /\ Visits(slot, i) => slot[i] \in Present /\ i \in SlotsOf(Link)
         /\ i \in DOMAIN listeners /\ Visits(listeners, i) => listeners[i] \in Present
<1>1. DOMAIN listeners = 1..Len(listeners) /\ DOMAIN slot = 1..Len(slot)
  BY LenProperties DEF LinksInv
<1>2. i \in Nat
  BY <1>1
<1>3. i \in DOMAIN slot /\ Visits(slot, i) => slot[i] # None
  BY DEF Visits, Readable
<1>4. ASSUME i \in DOMAIN listeners
      PROVE  listeners[i] \in Present
  <2>1. listeners[i] \in Link
    BY <1>4, ElementOfSeq, <1>1 DEF LinksInv
  <2>2. QED
    BY <1>4, <2>1, AdapterAssumption DEF LinksInv, Exactly
<1>5. QED
  BY <1>2, <1>3, <1>4, SlotIds

LEMMA CloseVisitedKeeps ==
  ASSUME AdapterInv, NEW list, (list = slot /\ Searching) \/ (list = listeners /\ Listening),
         CloseVisited(list)
  PROVE  AdapterInv'
<1>1. PICK i \in DOMAIN list :
        /\ Visits(list, i) /\ CloseLinks({list[i]}, link) /\ GoTo(phase, i + 1)
        /\ read' = list[i] /\ next' = next
  BY DEF CloseVisited
<1>2. LinksInv /\ SocketsInv /\ ThreadInv /\ HoldersInv
  BY DEF AdapterInv
<1>3. i \in Nat /\ list[i] \in Present
  <2>1. (i \in DOMAIN slot /\ Visits(slot, i)) \/ (i \in DOMAIN listeners /\ Visits(listeners, i))
    BY <1>1
  <2>2. QED
    BY <1>1, <1>2, <2>1, Visited
<1>4. LinksInv' /\ Present' = Present \ {list[i]}
  BY <1>1, <1>2, NothingToIt, LinksClosed
<1>5. SocketsInv' /\ HoldersInv'
  BY <1>1, <1>2, <1>4, SocketsClosed, HoldersClosed
<1>6. ThreadInv'
  <2>1. phase # "Process" /\ phase' = phase /\ at' = i + 1 /\ next' = next /\ read' \in Link
    BY <1>1, <1>2, <1>3, PresentLinks DEF GoTo, Searching, Listening
  <2>2. QED
    BY <1>2, <1>3, <2>1 DEF ThreadInv
<1>7. QED
  BY <1>4, <1>5, <1>6 DEF AdapterInv

LEMMA ReadLinkKeeps ==
  ASSUME AdapterInv, ReadLink
  PROVE  AdapterInv'
<1>1. PICK i \in DOMAIN slot :
        /\ Visits(slot, i)
        /\ link' = AfterRead(slot[i])
        /\ read' = slot[i]
        /\ input' = [input EXCEPT ![slot[i]] = IF @ = 0 THEN 0 ELSE @ - 1]
        /\ \/ GoTo(phase, i + 1) /\ next' = next
           \/ GoTo("Process", 1) /\ NextLinkToRead(i)
  BY DEF ReadLink
<1>2. LinksInv /\ SocketsInv /\ ThreadInv /\ HoldersInv
  BY DEF AdapterInv
<1>3. UNCHANGED table /\ UNCHANGED holders /\ waiting' = waiting /\ peer' = peer
  BY DEF ReadLink
<1>4. i \in Nat /\ slot[i] \in Present /\ slot[i] \in Link /\ i \in SlotsOf(Link)
  <2>1. (i \in DOMAIN slot /\ Visits(slot, i)) \/ (i \in DOMAIN listeners /\ Visits(listeners, i))
    BY <1>1
  <2>2. i \in Nat /\ slot[i] \in Present /\ i \in SlotsOf(Link)
    BY <1>1, <1>2, <2>1, Visited
  <2>3. QED
    BY <2>2 DEF Present
<1>5. SameLinks(link')
  <2>1. {"Error"} \in SUBSET Event /\ {} \in SUBSET Event
    BY DEF Event
  <2>2. link' = [link EXCEPT ![slot[i]].events = {"Error"}] \/ link' = [link EXCEPT ![slot[i]].events = {}]
    BY <1>1 DEF AfterRead
  <2>3. QED
    BY <1>2, <1>4, <2>1, <2>2, OneLinkEvents
<1>6. LinksInv' /\ Present' = Present
  BY <1>2, <1>3, <1>5, LinksSame
<1>7. input' \in [Link -> 0..MaxInput]
  <2>1. \A m \in 0..MaxInput : (IF m = 0 THEN 0 ELSE m - 1) \in 0..MaxInput
    BY AdapterAssumption
  <2>2. QED
    BY <1>1, <1>2, <1>4, <2>1 DEF SocketsInv
<1>8. SocketsInv'
  BY <1>2, <1>3, <1>6, <1>7 DEF SocketsInv
<1>9. HoldersInv'
  BY <1>2, <1>3 DEF HoldersInv, holders
<1>10. SlotsOf(Link)' = SlotsOf(Link)
  BY <1>3 DEF SlotsOf, table
<1>11. ThreadInv'
  <2>1. CASE GoTo(phase, i + 1) /\ next' = next
    BY <1>1, <1>2, <1>4, <1>10, <2>1 DEF ThreadInv, GoTo
  <2>2. CASE GoTo("Process", 1) /\ NextLinkToRead(i)
    <3>1. next' - 1 = i /\ next' \in Nat
      BY <1>4, <2>2 DEF NextLinkToRead
    <3>2. QED
      BY <1>1, <1>4, <1>10, <2>2, <3>1 DEF ThreadInv, GoTo, Phase
  <2>3. QED
    BY <1>1, <2>1, <2>2
<1>12. QED
  BY <1>6, <1>8, <1>9, <1>11 DEF AdapterInv

LEMMA AcceptKeeps ==
  ASSUME AdapterInv, Accept
  PROVE  AdapterInv'
<1>1. PICK i \in DOMAIN listeners, l \in Link, n \in Name :
        /\ Visits(listeners, i)
        /\ l \in waiting[listeners[i]]
        /\ waiting' = [waiting EXCEPT ![listeners[i]] = @ \ {l}]
        /\ IF NameTaken(n) THEN link' = Serviced(listeners[i]) /\ UNCHANGED table
           ELSE AddLink(l, n, FALSE, Serviced(listeners[i]))
        /\ GoTo(phase, i + 1)
        /\ read' = listeners[i]
  BY DEF Accept
<1>2. LinksInv /\ SocketsInv /\ ThreadInv /\ HoldersInv
  BY DEF AdapterInv
<1>3. UNCHANGED holders /\ next' = next /\ input' = input /\ peer' = peer /\ phase # "Process"
  BY DEF Accept, Listening
<1>4. i \in Nat /\ listeners[i] \in Present /\ listeners[i] \in Link
  BY <1>1, <1>2, Visited DEF Present
<1>5. SameLinks(Serviced(listeners[i]))
  <2>1. {} \in SUBSET Event
    OBVIOUS
  <2>2. QED
    BY <1>2, <1>4, <2>1, OneLinkEvents DEF Serviced
<1>6. l \notin Present /\ \A k \in Link : l \in waiting[k] => k = listeners[i]
  BY <1>1, <1>2, <1>4 DEF SocketsInv
<1>7. LinksInv' /\ (Present' = Present \/ Present' = Present \cup {l})
  <2>1. CASE NameTaken(n)
    BY <1>1, <1>2, <1>5, <2>1, LinksSame
  <2>2. CASE ~NameTaken(n)
    <3>1. AddLink(l, n, FALSE, Serviced(listeners[i]))
      BY <1>1, <2>2
    <3>2. FALSE \in BOOLEAN
      OBVIOUS
    <3>3. QED
      BY <1>2, <1>5, <1>6, <2>2, <3>1, <3>2, LinksAdded
  <2>3. QED
    BY <2>1, <2>2
<1>8. SocketsInv'
  <2>1. \A k, m \in Link : m \in waiting'[k] => m \in waiting[k] /\ m # l
    BY <1>1, <1>2, <1>4, <1>6 DEF SocketsInv
  <2>2. waiting' \in [Link -> SUBSET Link]
    BY <1>1, <1>2, <1>4 DEF SocketsInv
  <2>3. \A k, m \in Link : m \in waiting'[k] =>
          m \notin Present' /\ \A j \in Link : m \in waiting'[j] => j = k
    BY <1>2, <1>7, <2>1 DEF SocketsInv
  <2>4. QED
    BY <1>2, <1>3, <2>2, <2>3 DEF SocketsInv
<1>9. HoldersInv'
  BY <1>2, <1>3 DEF HoldersInv, holders
<1>10. ThreadInv'
  BY <1>1, <1>2, <1>3, <1>4 DEF ThreadInv, GoTo
<1>11. QED
  BY <1>7, <1>8, <1>9, <1>10 DEF AdapterInv

LEMMA AcceptFailsKeeps ==
  ASSUME AdapterInv, AcceptFails
  PROVE  AdapterInv'
<1>1. PICK i \in DOMAIN listeners :
        /\ Visits(listeners, i)
        /\ link' \in {Serviced(listeners[i]), [link EXCEPT ![listeners[i]].events = {"Error"}]}
        /\ \E withdrawn \in SUBSET waiting[listeners[i]] :
             waiting' = [waiting EXCEPT ![listeners[i]] = @ \ withdrawn]
        /\ GoTo(phase, i + 1)
        /\ read' = listeners[i]
  BY DEF AcceptFails
<1>2. LinksInv /\ SocketsInv /\ ThreadInv /\ HoldersInv
  BY DEF AdapterInv
<1>3. /\ UNCHANGED table /\ UNCHANGED holders /\ next' = next /\ input' = input /\ peer' = peer
      /\ phase # "Process"
  BY DEF AcceptFails, Listening
<1>4. i \in Nat /\ listeners[i] \in Present /\ listeners[i] \in Link
  BY <1>1, <1>2, Visited DEF Present
<1>5. SameLinks(link')
  <2>1. {} \in SUBSET Event /\ {"Error"} \in SUBSET Event
    BY DEF Event
  <2>2. QED
    BY <1>1, <1>2, <1>4, <2>1, OneLinkEvents DEF Serviced
<1>6. LinksInv' /\ Present' = Present
  BY <1>2, <1>3, <1>5, LinksSame
<1>7. waiting' \in [Link -> SUBSET Link] /\ \A k, m \in Link : m \in waiting'[k] => m \in waiting[k]
  BY <1>1, <1>2, <1>4 DEF SocketsInv
<1>8. SocketsInv'
  BY <1>2, <1>3, <1>6, <1>7 DEF SocketsInv
<1>9. HoldersInv'
  BY <1>2, <1>3 DEF HoldersInv, holders
<1>10. ThreadInv'
  BY <1>1, <1>2, <1>3, <1>4 DEF ThreadInv, GoTo
<1>11. QED
  BY <1>6, <1>8, <1>9, <1>10 DEF AdapterInv

(* poll() marks links and closes those that hung up.                       *)
LEMMA PolledLinks ==
  ASSUME LinksInv
  PROVE  /\ Watched = Present
         /\ SameLinks([l \in Link |-> IF l \in Signalled
              THEN [link[l] EXCEPT !.events = @ \cup {"Receive"}] ELSE link[l]])
<1> DEFINE old == [l \in Link |-> IF l \in Signalled
                     THEN [link[l] EXCEPT !.events = @ \cup {"Receive"}] ELSE link[l]]
<1>1. Watched = Present
  BY PresentLinks, ExactSet DEF LinksInv, Watched
<1>2. Signalled \subseteq Present
  BY <1>1 DEF Signalled
<1>3. \A l \in Link : link[l] \in LinkState /\ [link[l] EXCEPT !.events = @ \cup {"Receive"}] \in LinkState
  BY DEF LinksInv, LinkState, Event
<1>4. \A l \in Link : /\ [link[l] EXCEPT !.events = @ \cup {"Receive"}].name = link[l].name
                      /\ [link[l] EXCEPT !.events = @ \cup {"Receive"}].listens = link[l].listens
  BY <1>3 DEF LinkState
<1>5. /\ old \in [Link -> LinkState]
      /\ \A l \in Link : IF l \in Signalled THEN old[l].name = link[l].name /\ old[l].listens = link[l].listens
                         ELSE old[l] = link[l]
  BY <1>3, <1>4
<1> HIDE DEF old
<1>6. SameLinks(old)
  BY <1>2, <1>5, EventsOnly
<1>7. QED
  BY <1>1, <1>6 DEF old

LEMMA PollKeeps ==
  ASSUME AdapterInv, Poll
  PROVE  AdapterInv'
<1> DEFINE C == {l \in Watched : HasHungUp(l)}
           old == [l \in Link |-> IF l \in Signalled
                     THEN [link[l] EXCEPT !.events = @ \cup {"Receive"}] ELSE link[l]]
<1>1. CloseLinks(C, old) /\ GoTo("ListenAgain", 1) /\ next' = next /\ read' = read
  BY DEF Poll
<1>2. LinksInv /\ SocketsInv /\ ThreadInv /\ HoldersInv
  BY DEF AdapterInv
<1>3. SameLinks(old)
  BY <1>2, PolledLinks
<1> HIDE DEF C, old
<1>4. LinksInv' /\ Present' = Present \ C
  BY <1>1, <1>2, <1>3, LinksClosed
<1>5. SocketsInv' /\ HoldersInv'
  BY <1>1, <1>2, <1>4, SocketsClosed, HoldersClosed
<1>6. ThreadInv'
  BY <1>1, <1>2 DEF ThreadInv, GoTo, Phase
<1>7. QED
  BY <1>4, <1>5, <1>6 DEF AdapterInv

LEMMA DestroyStepKeeps ==
  ASSUME AdapterInv, NEW from, NEW C, NEW to, to \in Phase \ {"Process"}, DestroyStep(from, C, to)
  PROVE  AdapterInv' /\ Present' = Present \ C
<1>1. CloseLinks(C, link) /\ GoTo(to, 1) /\ next' = next /\ read' = read
  BY DEF DestroyStep
<1>2. LinksInv /\ SocketsInv /\ ThreadInv /\ HoldersInv
  BY DEF AdapterInv
<1>3. LinksInv' /\ Present' = Present \ C
  BY <1>1, <1>2, NothingToIt, LinksClosed
<1>4. SocketsInv' /\ HoldersInv'
  BY <1>1, <1>2, <1>3, SocketsClosed, HoldersClosed
<1>5. ThreadInv'
  BY <1>1, <1>2 DEF ThreadInv, GoTo
<1>6. QED
  BY <1>3, <1>4, <1>5 DEF AdapterInv

LEMMA DestroyKeeps ==
  ASSUME AdapterInv, Destroy
  PROVE  AdapterInv'
<1>1. {"CloseInstances", "DestroyModules", "Destroyed"} \subseteq Phase \ {"Process"}
  BY DEF Phase
<1>2. QED
  BY <1>1, DestroyStepKeeps DEF Destroy, DestroyModules

LEMMA EnvironmentKeeps ==
  ASSUME AdapterInv, Environment
  PROVE  AdapterInv'
<1>1. LinksInv /\ SocketsInv /\ ThreadInv /\ HoldersInv
  BY DEF AdapterInv
<1>2. link' = link /\ UNCHANGED table /\ UNCHANGED holders /\ UNCHANGED thread
  BY DEF Environment, Arrive, Connect, HangUp
<1>3. LinksInv' /\ Present' = Present
  BY <1>1, <1>2, NothingToIt, LinksSame
<1>4. HoldersInv'
  BY <1>1, <1>2 DEF HoldersInv, holders
<1>5. ThreadInv'
  BY <1>1, <1>2 DEF ThreadInv, thread, table, SlotsOf
<1>6. ASSUME NEW l \in Link, Arrive(l)
      PROVE  SocketsInv'
  <2>1. /\ input' = [input EXCEPT ![l] = @ + 1] /\ input[l] < MaxInput
        /\ waiting' = waiting /\ peer' = peer
    BY <1>6 DEF Arrive
  <2>2. input[l] + 1 \in 0..MaxInput
    BY <1>1, <2>1, AdapterAssumption DEF SocketsInv
  <2>3. QED
    BY <1>1, <1>3, <2>1, <2>2 DEF SocketsInv
<1>7. ASSUME NEW l \in Link, NEW k \in Link, Connect(l, k)
      PROVE  SocketsInv'
  <2>1. /\ waiting' = [waiting EXCEPT ![k] = @ \cup {l}]
        /\ l \notin Present /\ \A j \in Link : l \notin waiting[j]
        /\ input' = input /\ peer' = peer
    BY <1>7 DEF Connect, Unmade
  <2>2. waiting' \in [Link -> SUBSET Link]
    BY <1>1, <2>1 DEF SocketsInv
  <2>3. \A j, m \in Link : m \in waiting'[j] <=> (m \in waiting[j] \/ (j = k /\ m = l))
    BY <1>1, <2>1 DEF SocketsInv
  <2>4. \A j, m \in Link : m \in waiting'[j] =>
          m \notin Present /\ \A i \in Link : m \in waiting'[i] => i = j
    BY <1>1, <2>1, <2>3 DEF SocketsInv
  <2>5. QED
    BY <1>1, <1>3, <2>1, <2>2, <2>4 DEF SocketsInv
<1>8. ASSUME NEW l \in Link, NEW how \in {"ended", "reset"}, HangUp(l, how)
      PROVE  SocketsInv'
  <2>1. peer' = [peer EXCEPT ![l] = how] /\ input' = input /\ waiting' = waiting
    BY <1>8 DEF HangUp
  <2>2. peer' \in [Link -> {"up", "ended", "reset"}]
    BY <1>1, <2>1 DEF SocketsInv
  <2>3. QED
    BY <1>1, <1>3, <2>1, <2>2 DEF SocketsInv
<1>9. SocketsInv'
  BY <1>6, <1>7, <1>8 DEF Environment
<1>10. QED
  BY <1>3, <1>4, <1>5, <1>9 DEF AdapterInv

LEMMA AdapterInitially == Init => AdapterInv
<1> SUFFICES ASSUME Init
             PROVE  AdapterInv
  OBVIOUS
<1>1. Present = {}
  BY DEF Init, Present
<1>2. <<>> \in Seq(Link) /\ <<>> \in Seq(Link \cup {None}) /\ DOMAIN <<>> = {} /\ Len(<<>>) = 0
  BY EmptySeq
<1>3. Cardinality(Link) \in Nat
  BY AdapterAssumption, FS_CardinalityType
<1>4. Gone \in LinkState
  BY DEF Gone, LinkState
<1>5. \A C : C = {} => Exactly(<<>>, C)
  BY <1>2 DEF Exactly
<1>6. LinksInv
  <2>1. {l \in Present : ~link[l].listens} = {} /\ {l \in Present : link[l].listens} = {}
    BY <1>1
  <2>2. link \in [Link -> LinkState] /\ \A l \in Link : link[l] = Gone
    BY <1>4 DEF Init
  <2>3. slot = <<>> /\ listeners = <<>> /\ polled = <<>> /\ owned = <<>>
    BY DEF Init
  <2>4. Len(slot) <= Cardinality(Link)
    BY <1>2, <1>3, <2>3
  <2>5. QED
    BY <1>1, <1>2, <1>5, <2>1, <2>2, <2>3, <2>4 DEF LinksInv
<1>7. SocketsInv
  BY AdapterAssumption DEF Init, SocketsInv
<1>8. ThreadInv /\ HoldersInv
  BY DEF Init, ThreadInv, HoldersInv, Phase
<1>9. QED
  BY <1>6, <1>7, <1>8 DEF AdapterInv

LEMMA AdapterStep ==
  ASSUME AdapterInv, [Next]_vars
  PROVE  AdapterInv'
<1>1. CASE Caller
  <2>1. ASSUME NEW l \in Link, NEW n \in Name, NEW listens \in BOOLEAN, Open(l, n, listens)
        PROVE  AdapterInv'
    BY <2>1, OpenKeeps
  <2>2. ASSUME NEW n \in Name, CloseByName(n)
        PROVE  AdapterInv'
    BY <2>2, CloseByNameKeeps
  <2>3. ASSUME NEW i \in 1..Cardinality(Link), AddRoute(i) \/ DeleteRoute(i) \/ Answer(i)
        PROVE  AdapterInv'
    BY <2>3, AddRouteKeeps, DeleteRouteKeeps, AnswerKeeps
  <2>4. ASSUME Interest \/ Ignore \/ Kill
        PROVE  AdapterInv'
    BY <2>4, InterestKeeps, IgnoreKeeps, KillKeeps
  <2>5. QED
    BY <1>1, <2>1, <2>2, <2>3, <2>4 DEF Caller
<1>2. CASE Receive
  <2>1. ASSUME CloseLink \/ CloseListener
        PROVE  AdapterInv'
    BY <2>1, CloseVisitedKeeps DEF CloseLink, CloseListener
  <2>2. ASSUME ReadLink \/ Accept \/ AcceptFails \/ Poll \/ EndOfSearch \/ EndOfListeners
        PROVE  AdapterInv'
    BY <2>2, ReadLinkKeeps, AcceptKeeps, AcceptFailsKeeps, PollKeeps,
       EndOfSearchKeeps, EndOfListenersKeeps
  <2>3. QED
    BY <1>2, <2>1, <2>2 DEF Receive
<1>3. CASE Destroy
  BY <1>3, DestroyKeeps
<1>4. CASE Environment
  BY <1>4, EnvironmentKeeps
<1>5. CASE UNCHANGED vars
  <2>1. UNCHANGED <<link, table, holders, sockets>> /\ UNCHANGED thread /\ UNCHANGED table
    BY <1>5 DEF vars
  <2>2. ThreadInv'
    BY <2>1 DEF AdapterInv, ThreadInv, thread, table, SlotsOf
  <2>3. QED
    BY <2>1, <2>2, ThreadMoves
<1>6. QED
  BY <1>1, <1>2, <1>3, <1>4, <1>5 DEF Next

(* However many links come and go, the adapter is in a state of the        *)
(* invariant.                                                              *)
THEOREM AdapterInvariant == Spec => []AdapterInv
<1>1. Init => AdapterInv
  BY AdapterInitially
<1>2. AdapterInv /\ [Next]_vars => AdapterInv'
  BY AdapterStep
<1>3. QED
  BY <1>1, <1>2, PTL DEF Spec

(* What the adapter keeps has its type: in particular every id in the FIB  *)
(* and the PIT is one of as many ids as there are links, since the list of *)
(* links takes a vacant place before it grows.                             *)
THEOREM TypeCorrect == Spec => []TypeOK
<1>1. AdapterInv => TypeOK
  BY DEF AdapterInv, LinksInv, SocketsInv, ThreadInv, HoldersInv, TypeOK
<1>2. QED
  BY <1>1, AdapterInvariant, PTL

(* The four lists agree on the links there are, and have each once, for    *)
(* any number of links.                                                    *)
THEOREM ListsAlwaysAgree == Spec => []ListsAgree
<1>1. ASSUME AdapterInv
      PROVE  ListsAgree
  <2> DEFINE A == {l \in Present : link[l].listens}
             B == {l \in Present : ~link[l].listens}
             S == Link \cup {None}
  <2>1. LinksInv
    BY <1>1 DEF AdapterInv
  <2>2. None \notin Present /\ A \cup B = Present /\ A \cap B = {}
    BY <2>1, PresentLinks
  <2>3. /\ slot \in Seq(S) /\ Exactly(slot, B) /\ Exactly(listeners, A)
        /\ Exactly(polled, Present) /\ Exactly(owned, Present)
    BY <2>1 DEF LinksInv
  <2>4. listeners \in Seq(Link) /\ owned \in Seq(Link) /\ listeners \in Seq(S)
    <3>1. listeners \in Seq(Link) /\ owned \in Seq(Link) /\ Seq(Link) \subseteq Seq(S)
      BY <2>1, SeqMonotonic DEF LinksInv
    <3>2. QED
      BY <3>1
  <2>5. None \notin ToSet(listeners) /\ None \notin ToSet(owned)
    BY <2>4, ElementOfSeq, LenProperties, AdapterAssumption DEF ToSet
  <2> HIDE DEF A, B, S
  <2>6. /\ ToSet(slot) \ {None} = B /\ ToSet(listeners) = A
        /\ Watched = Present /\ ToSet(owned) = Present
    <3>1. ToSet(polled) \ {None} = Present \ {None} /\ ToSet(owned) \ {None} = Present \ {None}
      BY <2>3, ExactSet
    <3>2. ToSet(slot) \ {None} = B \ {None} /\ ToSet(listeners) \ {None} = A \ {None}
      BY <2>3, ExactSet
    <3>3. QED
      BY <2>2, <2>5, <3>1, <3>2 DEF Watched
  <2>7. Exactly(slot \o listeners, Present)
    <3>1. B \cap A = {} /\ B \cup A = Present
      BY <2>2
    <3>2. QED
      BY <2>3, <2>4, <3>1, JoinedLists
  <2>8. Once(slot \o listeners, Present) /\ Once(polled, Present) /\ Once(owned, Present)
    BY <2>2, <2>3, <2>7, ExactSet
  <2>9. QED
    BY <2>6, <2>8 DEF ListsAgree, A, B
<1>2. QED
  BY <1>1, AdapterInvariant, PTL

(***************************************************************************)
(* The adapter is the table of links.  As long as nobody names an id out   *)
(* of thin air, the ids that routes and pending interests hold are those   *)
(* of links: a close drops them before the id can be given again.          *)
(***************************************************************************)
IdsInv == routes \cup pending \subseteq SlotsOf(Link)

Held(u) == IF u = "route" THEN routes ELSE pending

Kinds == {"route", "pending"}

LEMMA UsersByKind ==
  ASSUME NEW l
  PROVE  /\ UsersOf(l) = {u \in Kinds : \E i \in DOMAIN slot : slot[i] = l /\ i \in Held(u)}
         /\ UsersOf(l)' = {u \in Kinds : \E i \in DOMAIN slot' : slot'[i] = l /\ i \in Held(u)'}
BY DEF UsersOf, SlotsOf, Held, Kinds

LEMMA SameUsers ==
  ASSUME NEW l, \A u \in Kinds : (\E i \in DOMAIN slot' : slot'[i] = l /\ i \in Held(u)')
                             <=> (\E i \in DOMAIN slot : slot[i] = l /\ i \in Held(u))
  PROVE  UsersOf(l)' = UsersOf(l)
BY UsersByKind

LEMMA SameHeld ==
  ASSUME UNCHANGED holders
  PROVE  \A u \in Kinds : Held(u)' = Held(u)
BY DEF holders, Held

(* A step that changes no list, no id and no name is none of the table.    *)
LEMMA TableStutters ==
  ASSUME LinksInv, SameLinks(link'), UNCHANGED table, UNCHANGED holders,
         phase' = "Destroyed" <=> phase = "Destroyed", IdsInv
  PROVE  IdsInv' /\ UNCHANGED Table!vars
<1>1. slot' = slot /\ routes' = routes /\ pending' = pending
  BY DEF table, holders
<1>2. [l \in Link |-> link[l].name]' = [l \in Link |-> link[l].name]
  BY DEF SameLinks
<1>3. [l \in Link |-> UsersOf(l)]' = [l \in Link |-> UsersOf(l)]
  BY <1>1 DEF UsersOf, SlotsOf
<1>4. (phase = "Destroyed")' = (phase = "Destroyed")
  OBVIOUS
<1>5. IdsInv'
  BY <1>1 DEF IdsInv, SlotsOf
<1>6. QED
  BY <1>2, <1>3, <1>4, <1>5 DEF Table!vars

LEMMA TableOpens ==
  ASSUME LinksInv, IdsInv, NEW l \in Link, l \notin Present, NEW n \in Name, ~NameTaken(n),
         NEW listens \in BOOLEAN, NEW old, SameLinks(old), AddLink(l, n, listens, old),
         UNCHANGED holders, phase # "Destroyed", phase' # "Destroyed"
  PROVE  IdsInv' /\ Table!Open(l, n)
<1>1. /\ link'[l].name = n
      /\ \A k \in Link : k # l => link'[k].name = link[k].name
      /\ DOMAIN slot \subseteq DOMAIN slot'
      /\ \A i \in DOMAIN slot' : slot'[i] = l => i \notin SlotsOf(Link)
      /\ \A i \in DOMAIN slot' : slot'[i] # l => i \in DOMAIN slot /\ slot'[i] = slot[i]
      /\ \A i \in SlotsOf(Link) : slot'[i] = slot[i]
  BY LinksAdded
<1>2. IdsInv'
  BY <1>1 DEF IdsInv, holders, SlotsOf
<1>3. \A k \in Link : link[k].name # None => link[k].name # n
  BY FreeName, PresentLinks
<1>4. [k \in Link |-> link[k].name]' = [[k \in Link |-> link[k].name] EXCEPT ![l] = n]
  BY <1>1
<1>5. \A k \in Link : UsersOf(k)' = UsersOf(k)
  <2>1. ASSUME NEW k \in Link, NEW u \in Kinds
        PROVE  (\E i \in DOMAIN slot' : slot'[i] = k /\ i \in Held(u)')
           <=> (\E i \in DOMAIN slot : slot[i] = k /\ i \in Held(u))
    <3>1. Held(u)' = Held(u)
      BY SameHeld
    <3>2. Held(u) \subseteq SlotsOf(Link)
      BY DEF Held, IdsInv
    <3>3. ASSUME NEW i \in DOMAIN slot', slot'[i] = k, i \in Held(u)
          PROVE  i \in DOMAIN slot /\ slot[i] = k
      BY <1>1, <3>2, <3>3
    <3>4. ASSUME NEW i \in DOMAIN slot, slot[i] = k, i \in Held(u)
          PROVE  i \in DOMAIN slot' /\ slot'[i] = k
      BY <1>1, <3>2, <3>4
    <3>5. QED
      BY <3>1, <3>3, <3>4
  <2>2. QED
    BY <2>1, SameUsers
<1>6. [k \in Link |-> UsersOf(k)]' = [k \in Link |-> UsersOf(k)]
  BY <1>5
<1>7. l \in Link /\ [k \in Link |-> link[k].name][l] = None
  BY PresentLinks
<1>8. (phase = "Destroyed") = FALSE /\ (phase' = "Destroyed") = FALSE
  OBVIOUS
<1>9. Table!Open(l, n)
  BY <1>3, <1>4, <1>6, <1>7, <1>8 DEF Table!Open, Table!Present
<1>10. QED
  BY <1>2, <1>9

(* A close, and what is left of the ids and of the names after it.         *)
LEMMA TableLoses ==
  ASSUME LinksInv, IdsInv, NEW C \in SUBSET Link, NEW old, SameLinks(old), CloseLinks(C, old)
  PROVE  /\ IdsInv'
         /\ [l \in Link |-> link[l].name]' = [l \in Link |-> IF l \in C THEN None ELSE link[l].name]
         /\ [l \in Link |-> UsersOf(l)]' = [l \in Link |-> IF l \in C THEN {} ELSE UsersOf(l)]
<1>1. /\ link' = [l \in Link |-> IF l \in C THEN Gone ELSE old[l]]
      /\ routes' = routes \ SlotsOf(C) /\ pending' = pending \ SlotsOf(C)
  BY DEF CloseLinks, Forget
<1>2. /\ DOMAIN slot' = DOMAIN slot
      /\ \A i \in DOMAIN slot : slot'[i] = IF slot[i] \in C THEN None ELSE slot[i]
  BY LinksClosed
<1>3. [l \in Link |-> link[l].name]' = [l \in Link |-> IF l \in C THEN None ELSE link[l].name]
  BY <1>1 DEF SameLinks, Gone
<1>4. IdsInv'
  BY <1>1, <1>2 DEF IdsInv, SlotsOf
<1>5. None \notin Link
  BY AdapterAssumption
<1>6. \A l \in Link : UsersOf(l)' = IF l \in C THEN {} ELSE UsersOf(l)
  <2>1. ASSUME NEW l \in C
        PROVE  UsersOf(l)' = {}
    <3>1. \A i \in DOMAIN slot' : slot'[i] # l
      BY <1>2, <1>5
    <3>2. QED
      BY <3>1, UsersByKind
  <2>2. ASSUME NEW l \in Link \ C
        PROVE  UsersOf(l)' = UsersOf(l)
    <3>1. \A i \in DOMAIN slot : slot'[i] = l <=> slot[i] = l
      BY <1>2, <1>5
    <3>2. \A u \in Kinds : Held(u)' = Held(u) \ SlotsOf(C)
      BY <1>1 DEF Held
    <3>3. \A i \in DOMAIN slot : slot[i] = l => i \notin SlotsOf(C)
      BY DEF SlotsOf
    <3>4. \A u \in Kinds : (\E i \in DOMAIN slot' : slot'[i] = l /\ i \in Held(u)')
                       <=> (\E i \in DOMAIN slot : slot[i] = l /\ i \in Held(u))
      BY <1>2, <3>1, <3>2, <3>3
    <3>5. QED
      BY <3>4, SameUsers
  <2>3. QED
    BY <2>1, <2>2
<1>7. QED
  BY <1>3, <1>4, <1>6

LEMMA TableCloses ==
  ASSUME LinksInv, IdsInv, NEW C \in SUBSET Present, NEW old, SameLinks(old), CloseLinks(C, old),
         phase' = "Destroyed" <=> phase = "Destroyed"
  PROVE  IdsInv' /\ Table!Next
<1>1. C \subseteq Link /\ C \in SUBSET Link
  BY DEF Present
<1>2. /\ IdsInv'
      /\ [l \in Link |-> link[l].name]' = [l \in Link |-> IF l \in C THEN None ELSE link[l].name]
      /\ [l \in Link |-> UsersOf(l)]' = [l \in Link |-> IF l \in C THEN {} ELSE UsersOf(l)]
  BY <1>1, TableLoses
<1>3. C \subseteq {l \in Link : [k \in Link |-> link[k].name][l] # None}
  BY PresentLinks
<1>4. (phase = "Destroyed")' = (phase = "Destroyed")
  OBVIOUS
<1>5. Table!Close(C)
  BY <1>2, <1>3, <1>4 DEF Table!Close, Table!Present
<1>6. QED
  BY <1>1, <1>2, <1>5 DEF Table!Next

(* The last step closes what the loops before it have missed.              *)
LEMMA TableStops ==
  ASSUME LinksInv, IdsInv, DestroyModules
  PROVE  IdsInv' /\ Table!Next
<1>1. CloseLinks(ToSet(owned), link) /\ phase' = "Destroyed"
  BY DEF DestroyModules, DestroyStep, GoTo
<1>2. ToSet(owned) = Present
  <2>1. ToSet(owned) \ {None} = Present \ {None} /\ None \notin Present
    BY ExactSet, PresentLinks DEF LinksInv
  <2>2. None \notin ToSet(owned)
    BY ElementOfSeq, LenProperties, AdapterAssumption DEF LinksInv, ToSet
  <2>3. QED
    BY <2>1, <2>2
<1>3. Present \in SUBSET Link
  BY DEF Present
<1>4. /\ IdsInv'
      /\ [l \in Link |-> link[l].name]' = [l \in Link |-> IF l \in Present THEN None ELSE link[l].name]
      /\ [l \in Link |-> UsersOf(l)]' = [l \in Link |-> IF l \in Present THEN {} ELSE UsersOf(l)]
  BY <1>1, <1>2, <1>3, NothingToIt, TableLoses
<1>5. \A l \in Link : l \notin Present => link[l].name = None /\ UsersOf(l) = {}
  <2>1. ASSUME NEW l \in Link, l \notin Present
        PROVE  UsersOf(l) = {}
    <3>1. \A i \in DOMAIN slot : slot[i] # l
      BY <2>1, SlotIds DEF SlotsOf
    <3>2. QED
      BY <3>1, UsersByKind
  <2>2. QED
    BY <2>1, PresentLinks
<1>6. /\ [l \in Link |-> link[l].name]' = [l \in Link |-> None]
      /\ [l \in Link |-> UsersOf(l)]' = [l \in Link |-> {}]
  BY <1>4, <1>5
<1>7. (phase = "Destroyed")' = TRUE
  BY <1>1
<1>8. Table!Stop
  BY <1>6, <1>7 DEF Table!Stop
<1>9. QED
  BY <1>4, <1>8 DEF Table!Next

(* An id of a link is held by one more user, or by one less: no other link *)
(* has the id.                                                             *)
LEMMA TableHolds ==
  ASSUME LinksInv, IdsInv, NEW i \in SlotsOf(Link), NEW u \in Kinds,
         slot' = slot, \A l \in Link : link'[l].name = link[l].name,
         phase # "Destroyed", phase' # "Destroyed",
         \A v \in Kinds : Held(v)' = IF v = u THEN Held(v) \cup {i} ELSE Held(v)
  PROVE  IdsInv' /\ Table!Next
<1> DEFINE l0 == slot[i]
<1>1. i \in DOMAIN slot /\ l0 \in Link /\ l0 \in Present /\ link[l0].name # None
  BY SlotIds, PresentLinks DEF SlotsOf
<1>2. "route" \in Kinds /\ "pending" \in Kinds
  BY DEF Kinds
<1>3. IdsInv'
  <2>1. /\ routes' \subseteq routes \cup {i} /\ pending' \subseteq pending \cup {i}
    BY <1>2 DEF Held
  <2>2. SlotsOf(Link)' = SlotsOf(Link)
    BY DEF SlotsOf
  <2>3. QED
    BY <2>1, <2>2 DEF IdsInv
<1> HIDE DEF l0
<1>4. \A l \in Link : UsersOf(l)' = IF l = l0 THEN UsersOf(l) \cup {u} ELSE UsersOf(l)
  <2>1. ASSUME NEW l \in Link, NEW v \in Kinds
        PROVE  (\E j \in DOMAIN slot' : slot'[j] = l /\ j \in Held(v)')
           <=> ((\E j \in DOMAIN slot : slot[j] = l /\ j \in Held(v)) \/ (l = l0 /\ v = u))
    BY <1>1 DEF l0
  <2>2. ASSUME NEW l \in Link
        PROVE  UsersOf(l)' = IF l = l0 THEN UsersOf(l) \cup {u} ELSE UsersOf(l)
    <3>1. /\ UsersOf(l) = {v \in Kinds : \E j \in DOMAIN slot : slot[j] = l /\ j \in Held(v)}
          /\ UsersOf(l)' = {v \in Kinds : \E j \in DOMAIN slot' : slot'[j] = l /\ j \in Held(v)'}
      BY UsersByKind
    <3>2. \A v \in Kinds : v \in UsersOf(l)' <=> (v \in UsersOf(l) \/ (l = l0 /\ v = u))
      BY <2>1, <3>1
    <3>3. UsersOf(l) \subseteq Kinds /\ UsersOf(l)' \subseteq Kinds
      BY <3>1
    <3>4. QED
      BY <3>2, <3>3
  <2>3. QED
    BY <2>2
<1>5. [l \in Link |-> UsersOf(l)]' = [[l \in Link |-> UsersOf(l)] EXCEPT ![l0] = @ \cup {u}]
  BY <1>1, <1>4
<1>6. [l \in Link |-> link[l].name]' = [l \in Link |-> link[l].name]
  OBVIOUS
<1>7. (phase = "Destroyed") = FALSE /\ (phase' = "Destroyed") = FALSE
  OBVIOUS
<1>8. Table!Use(l0, u)
  BY <1>1, <1>5, <1>6, <1>7 DEF Table!Use, Table!Present
<1>9. QED
  BY <1>1, <1>3, <1>8 DEF Table!Next, Kinds

LEMMA TableDrops ==
  ASSUME LinksInv, IdsInv, NEW i \in SlotsOf(Link), NEW u \in Kinds,
         slot' = slot, \A l \in Link : link'[l].name = link[l].name,
         phase' = "Destroyed" <=> phase = "Destroyed",
         \A v \in Kinds : Held(v)' = IF v = u THEN Held(v) \ {i} ELSE Held(v)
  PROVE  IdsInv' /\ Table!Next
<1> DEFINE l0 == slot[i]
<1>1. i \in DOMAIN slot /\ l0 \in Link /\ l0 # None
  BY SlotIds, AdapterAssumption DEF SlotsOf
<1>2. "route" \in Kinds /\ "pending" \in Kinds
  BY DEF Kinds
<1>3. IdsInv'
  <2>1. /\ routes' \subseteq routes /\ pending' \subseteq pending
    BY <1>2 DEF Held
  <2>2. SlotsOf(Link)' = SlotsOf(Link)
    BY DEF SlotsOf
  <2>3. QED
    BY <2>1, <2>2 DEF IdsInv
<1>4. \A j \in DOMAIN slot : slot[j] = l0 => j = i
  BY <1>1 DEF LinksInv, Exactly
<1>5. i \in DOMAIN slot /\ slot[i] = l0
  BY <1>1
<1> HIDE DEF l0
<1>6. \A l \in Link : UsersOf(l)' = IF l = l0 THEN UsersOf(l) \ {u} ELSE UsersOf(l)
  <2>1. ASSUME NEW l \in Link, NEW v \in Kinds
        PROVE  (\E j \in DOMAIN slot' : slot'[j] = l /\ j \in Held(v)')
           <=> ((\E j \in DOMAIN slot : slot[j] = l /\ j \in Held(v)) /\ ~(l = l0 /\ v = u))
    BY <1>4, <1>5
  <2>2. ASSUME NEW l \in Link
        PROVE  UsersOf(l)' = IF l = l0 THEN UsersOf(l) \ {u} ELSE UsersOf(l)
    <3>1. /\ UsersOf(l) = {v \in Kinds : \E j \in DOMAIN slot : slot[j] = l /\ j \in Held(v)}
          /\ UsersOf(l)' = {v \in Kinds : \E j \in DOMAIN slot' : slot'[j] = l /\ j \in Held(v)'}
      BY UsersByKind
    <3>2. \A v \in Kinds : v \in UsersOf(l)' <=> (v \in UsersOf(l) /\ ~(l = l0 /\ v = u))
      BY <2>1, <3>1
    <3>3. UsersOf(l) \subseteq Kinds /\ UsersOf(l)' \subseteq Kinds
      BY <3>1
    <3>4. QED
      BY <3>2, <3>3
  <2>3. QED
    BY <2>2
<1>7. [l \in Link |-> UsersOf(l)]' = [[l \in Link |-> UsersOf(l)] EXCEPT ![l0] = @ \ {u}]
  BY <1>1, <1>6
<1>8. [l \in Link |-> link[l].name]' = [l \in Link |-> link[l].name]
  OBVIOUS
<1>9. (phase = "Destroyed")' = (phase = "Destroyed")
  OBVIOUS
<1>10. Table!Drop(l0, u)
  BY <1>7, <1>8, <1>9 DEF Table!Drop
<1>11. QED
  BY <1>1, <1>3, <1>10 DEF Table!Next, Kinds

TableStep == IdsInv' /\ [Table!Next]_(Table!vars)

LEMMA CallerRefines ==
  ASSUME ~StrayRoutes, AdapterInv, IdsInv, Caller
  PROVE  TableStep
<1>1. LinksInv /\ ThreadInv
  BY DEF AdapterInv
<1>2. CallerHasControl => phase # "Destroyed"
  BY DEF CallerHasControl
<1>3. (CallerHasControl /\ Return) => phase' # "Destroyed"
  BY DEF CallerHasControl, Return, thread
<1>4. ASSUME NEW l \in Link, NEW n \in Name, NEW listens \in BOOLEAN, Open(l, n, listens)
      PROVE  TableStep
  <2>1. l \notin Present /\ UNCHANGED holders /\ phase # "Destroyed" /\ phase' # "Destroyed"
    BY <1>2, <1>3, <1>4 DEF Open, Unmade
  <2>2. CASE NameTaken(n)
    <3>1. link' = link /\ UNCHANGED table
      BY <1>4, <2>2 DEF Open
    <3>2. SameLinks(link')
      BY <1>1, <3>1, NothingToIt
    <3>3. QED
      BY <1>1, <2>1, <3>1, <3>2, TableStutters DEF TableStep
  <2>3. CASE ~NameTaken(n)
    <3>1. AddLink(l, n, listens, link) /\ SameLinks(link)
      BY <1>1, <1>4, <2>3, NothingToIt DEF Open
    <3>2. IdsInv' /\ Table!Open(l, n)
      BY <1>1, <2>1, <2>3, <3>1, TableOpens
    <3>3. QED
      BY <3>2 DEF TableStep, Table!Next
  <2>4. QED
    BY <2>2, <2>3
<1>5. ASSUME NEW n \in Name, CloseByName(n)
      PROVE  TableStep
  <2>1. PICK l \in Present : CloseLinks({l}, link)
    BY <1>5 DEF CloseByName
  <2>2. SameLinks(link) /\ {l} \in SUBSET Present
    BY <1>1, NothingToIt
  <2>3. phase' = "Destroyed" <=> phase = "Destroyed"
    BY <1>2, <1>3, <1>5 DEF CloseByName, CallerHasControl
  <2>4. QED
    BY <1>1, <2>1, <2>2, <2>3, TableCloses DEF TableStep
<1>6. ASSUME NEW i \in 1..Cardinality(Link), AddRoute(i)
      PROVE  TableStep
  <2>1. /\ i \in SlotsOf(Link) /\ link' = link /\ UNCHANGED table
        /\ routes' = routes \cup {i} /\ pending' = pending
        /\ phase # "Destroyed" /\ phase' # "Destroyed"
    BY <1>2, <1>3, <1>6 DEF AddRoute, Ids
  <2>2. slot' = slot /\ \A l \in Link : link'[l].name = link[l].name
    BY <2>1 DEF table
  <2>3. "route" \in Kinds /\ \A v \in Kinds : Held(v)' = IF v = "route" THEN Held(v) \cup {i} ELSE Held(v)
    BY <2>1 DEF Held, Kinds
  <2>4. QED
    BY <1>1, <2>1, <2>2, <2>3, TableHolds DEF TableStep
<1>7. ASSUME NEW i \in 1..Cardinality(Link), DeleteRoute(i)
      PROVE  TableStep
  <2>1. /\ i \in SlotsOf(Link) /\ link' = link /\ UNCHANGED table
        /\ routes' = routes \ {i} /\ pending' = pending
        /\ phase' = "Destroyed" <=> phase = "Destroyed"
    BY <1>2, <1>3, <1>7 DEF DeleteRoute, CallerHasControl, IdsInv
  <2>2. slot' = slot /\ \A l \in Link : link'[l].name = link[l].name
    BY <2>1 DEF table
  <2>3. "route" \in Kinds /\ \A v \in Kinds : Held(v)' = IF v = "route" THEN Held(v) \ {i} ELSE Held(v)
    BY <2>1 DEF Held, Kinds
  <2>4. QED
    BY <1>1, <2>1, <2>2, <2>3, TableDrops DEF TableStep
<1>8. ASSUME NEW i \in 1..Cardinality(Link), Answer(i)
      PROVE  TableStep
  <2>1. /\ i \in SlotsOf(Link) /\ UNCHANGED table
        /\ pending' = pending \ {i} /\ routes' = routes
        /\ phase' = "Destroyed" <=> phase = "Destroyed"
    BY <1>2, <1>3, <1>8 DEF Answer, CallerHasControl, IdsInv
  <2>2. SameLinks(link')
    BY <1>1, <1>8, FailedLinks DEF Answer
  <2>3. slot' = slot /\ \A l \in Link : link'[l].name = link[l].name
    BY <2>1, <2>2 DEF table, SameLinks
  <2>4. "pending" \in Kinds /\ \A v \in Kinds : Held(v)' = IF v = "pending" THEN Held(v) \ {i} ELSE Held(v)
    BY <2>1 DEF Held, Kinds
  <2>5. QED
    BY <1>1, <2>1, <2>3, <2>4, TableDrops DEF TableStep
<1>9. ASSUME Interest
      PROVE  TableStep
  <2>1. /\ next - 1 \in SlotsOf(Link) /\ link' = link /\ UNCHANGED table
        /\ routes' = routes /\ pending' = pending \cup {next - 1}
        /\ phase # "Destroyed" /\ phase' # "Destroyed"
    BY <1>1, <1>2, <1>3, <1>9 DEF Interest, ThreadInv, CallerHasControl
  <2>2. slot' = slot /\ \A l \in Link : link'[l].name = link[l].name
    BY <2>1 DEF table
  <2>3. /\ "pending" \in Kinds
        /\ \A v \in Kinds : Held(v)' = IF v = "pending" THEN Held(v) \cup {next - 1} ELSE Held(v)
    BY <2>1 DEF Held, Kinds
  <2>4. QED
    BY <1>1, <2>1, <2>2, <2>3, TableHolds DEF TableStep
<1>10. ASSUME Ignore \/ Kill
       PROVE  TableStep
  <2>1. /\ link' = link /\ UNCHANGED table /\ UNCHANGED holders
        /\ phase' = "Destroyed" <=> phase = "Destroyed"
    BY <1>2, <1>10 DEF Ignore, Kill
  <2>2. SameLinks(link')
    BY <1>1, <2>1, NothingToIt
  <2>3. QED
    BY <1>1, <2>1, <2>2, TableStutters DEF TableStep
<1>11. QED
  BY <1>4, <1>5, <1>6, <1>7, <1>8, <1>9, <1>10 DEF Caller

LEMMA ReceiveRefines ==
  ASSUME AdapterInv, IdsInv, Receive
  PROVE  TableStep
<1>1. LinksInv /\ SocketsInv
  BY DEF AdapterInv
<1>2. ASSUME NEW list, (list = slot /\ Searching) \/ (list = listeners /\ Listening), CloseVisited(list)
      PROVE  TableStep
  <2>1. PICK i \in DOMAIN list : Visits(list, i) /\ CloseLinks({list[i]}, link) /\ GoTo(phase, i + 1)
    BY <1>2 DEF CloseVisited
  <2>2. (i \in DOMAIN slot /\ Visits(slot, i)) \/ (i \in DOMAIN listeners /\ Visits(listeners, i))
    BY <1>2, <2>1
  <2>3. {list[i]} \in SUBSET Present
    BY <1>1, <1>2, <2>1, <2>2, Visited
  <2>4. SameLinks(link) /\ phase' = phase
    BY <1>1, <2>1, NothingToIt DEF GoTo
  <2>5. QED
    BY <1>1, <2>1, <2>3, <2>4, TableCloses DEF TableStep
<1>3. CASE CloseLink \/ CloseListener
  BY <1>2, <1>3 DEF CloseLink, CloseListener
<1>4. CASE ReadLink
  <2>1. PICK i \in DOMAIN slot :
          /\ Visits(slot, i)
          /\ link' = AfterRead(slot[i])
          /\ GoTo(phase, i + 1) \/ GoTo("Process", 1)
    BY <1>4 DEF ReadLink
  <2>2. (i \in DOMAIN slot /\ Visits(slot, i)) \/ (i \in DOMAIN listeners /\ Visits(listeners, i))
    BY <2>1
  <2>3. slot[i] \in Present
    BY <1>1, <2>1, <2>2, Visited
  <2>4. SameLinks(link')
    <3>1. {"Error"} \in SUBSET Event /\ {} \in SUBSET Event
      BY DEF Event
    <3>2. link' = [link EXCEPT ![slot[i]].events = {"Error"}] \/ link' = [link EXCEPT ![slot[i]].events = {}]
      BY <2>1 DEF AfterRead
    <3>3. QED
      BY <1>1, <2>3, <3>1, <3>2, OneLinkEvents
  <2>5. UNCHANGED table /\ UNCHANGED holders /\ (phase' = "Destroyed" <=> phase = "Destroyed")
    BY <1>4, <2>1 DEF ReadLink, Searching, GoTo
  <2>6. QED
    BY <1>1, <2>4, <2>5, TableStutters DEF TableStep
<1>5. CASE Accept
  <2>1. PICK i \in DOMAIN listeners, l \in Link, n \in Name :
          /\ Visits(listeners, i)
          /\ l \in waiting[listeners[i]]
          /\ IF NameTaken(n) THEN link' = Serviced(listeners[i]) /\ UNCHANGED table
             ELSE AddLink(l, n, FALSE, Serviced(listeners[i]))
          /\ GoTo(phase, i + 1)
    BY <1>5 DEF Accept
  <2>2. (i \in DOMAIN slot /\ Visits(slot, i)) \/ (i \in DOMAIN listeners /\ Visits(listeners, i))
    BY <2>1
  <2>3. listeners[i] \in Present /\ listeners[i] \in Link
    BY <1>1, <2>1, <2>2, Visited, PresentLinks
  <2>4. SameLinks(Serviced(listeners[i]))
    <3>1. {} \in SUBSET Event
      OBVIOUS
    <3>2. QED
      BY <1>1, <2>3, <3>1, OneLinkEvents DEF Serviced
  <2>5. l \notin Present
    BY <1>1, <2>1, <2>3 DEF SocketsInv
  <2>6. UNCHANGED holders /\ phase # "Destroyed" /\ phase' # "Destroyed"
    BY <1>5, <2>1 DEF Accept, Listening, GoTo
  <2>7. CASE NameTaken(n)
    BY <1>1, <2>1, <2>4, <2>6, <2>7, TableStutters DEF TableStep
  <2>8. CASE ~NameTaken(n)
    <3>1. AddLink(l, n, FALSE, Serviced(listeners[i])) /\ FALSE \in BOOLEAN
      BY <2>1, <2>8
    <3>2. IdsInv' /\ Table!Open(l, n)
      BY <1>1, <2>4, <2>5, <2>6, <2>8, <3>1, TableOpens
    <3>3. QED
      BY <3>2 DEF TableStep, Table!Next
  <2>9. QED
    BY <2>7, <2>8
<1>6. CASE AcceptFails
  <2>1. PICK i \in DOMAIN listeners :
          /\ Visits(listeners, i)
          /\ link' \in {Serviced(listeners[i]), [link EXCEPT ![listeners[i]].events = {"Error"}]}
          /\ GoTo(phase, i + 1)
    BY <1>6 DEF AcceptFails
  <2>2. (i \in DOMAIN slot /\ Visits(slot, i)) \/ (i \in DOMAIN listeners /\ Visits(listeners, i))
    BY <2>1
  <2>3. listeners[i] \in Present
    BY <1>1, <2>1, <2>2, Visited
  <2>4. SameLinks(link')
    <3>1. {} \in SUBSET Event /\ {"Error"} \in SUBSET Event
      BY DEF Event
    <3>2. QED
      BY <1>1, <2>1, <2>3, <3>1, OneLinkEvents DEF Serviced
  <2>5. UNCHANGED table /\ UNCHANGED holders /\ phase' = phase
    BY <1>6, <2>1 DEF AcceptFails, GoTo
  <2>6. QED
    BY <1>1, <2>4, <2>5, TableStutters DEF TableStep
<1>7. CASE EndOfSearch \/ EndOfListeners
  <2>1. /\ link' = link /\ UNCHANGED table /\ UNCHANGED holders
        /\ phase' = "Destroyed" <=> phase = "Destroyed"
    BY <1>7 DEF EndOfSearch, EndOfListeners, Searching, Listening, GoTo
  <2>2. SameLinks(link')
    BY <1>1, <2>1, NothingToIt
  <2>3. QED
    BY <1>1, <2>1, <2>2, TableStutters DEF TableStep
<1>8. CASE Poll
  <2> DEFINE C == {l \in Watched : HasHungUp(l)}
             old == [l \in Link |-> IF l \in Signalled
                       THEN [link[l] EXCEPT !.events = @ \cup {"Receive"}] ELSE link[l]]
  <2>1. CloseLinks(C, old) /\ phase = "Poll" /\ phase' = "ListenAgain"
    BY <1>8 DEF Poll, GoTo
  <2>2. SameLinks(old) /\ C \in SUBSET Present
    BY <1>1, PolledLinks
  <2> HIDE DEF C, old
  <2>3. phase' = "Destroyed" <=> phase = "Destroyed"
    BY <2>1
  <2>4. QED
    BY <1>1, <2>1, <2>2, <2>3, TableCloses DEF TableStep
<1>9. QED
  BY <1>3, <1>4, <1>5, <1>6, <1>7, <1>8 DEF Receive

LEMMA DestroyRefines ==
  ASSUME AdapterInv, IdsInv, Destroy
  PROVE  TableStep
<1>1. LinksInv /\ SameLinks(link)
  BY NothingToIt DEF AdapterInv
<1>2. ASSUME NEW from, NEW C, NEW to, C \in SUBSET Present, DestroyStep(from, C, to),
             from # "Destroyed", to # "Destroyed"
      PROVE  TableStep
  <2>1. CloseLinks(C, link) /\ (phase' = "Destroyed" <=> phase = "Destroyed")
    BY <1>2 DEF DestroyStep, GoTo
  <2>2. QED
    BY <1>1, <1>2, <2>1, TableCloses DEF TableStep
<1>3. EverySecond(listeners) \in SUBSET Present
  <2>1. \A i \in DOMAIN listeners : listeners[i] \in Link
    BY ElementOfSeq, LenProperties, <1>1 DEF LinksInv
  <2>2. QED
    BY <1>1, <2>1, AdapterAssumption DEF EverySecond, LinksInv, Exactly
<1>4. ToSet(slot) \ {None} \in SUBSET Present
  BY <1>1, ExactSet DEF LinksInv
<1>5. QED
  BY <1>1, <1>2, <1>3, <1>4, TableStops DEF Destroy, TableStep

LEMMA OthersRefine ==
  ASSUME AdapterInv, IdsInv, Environment \/ UNCHANGED vars
  PROVE  TableStep
<1>1. link' = link /\ UNCHANGED table /\ UNCHANGED holders /\ phase' = phase
  BY DEF Environment, Arrive, Connect, HangUp, thread, vars
<1>2. LinksInv /\ SameLinks(link')
  BY <1>1, NothingToIt DEF AdapterInv
<1>3. QED
  BY <1>1, <1>2, TableStutters DEF TableStep

(* The adapter implements the table of links when the ids it is given come *)
(* from its own links: an id is given again as soon as a link is gone, and *)
(* yet no route and no pending interest ever passes from one link to the   *)
(* next.                                                                   *)
THEOREM AdapterImplementsLinkTable == ~StrayRoutes => (Spec => ImplementsLinkTable)
<1> SUFFICES ASSUME ~StrayRoutes
             PROVE  Spec => ImplementsLinkTable
  OBVIOUS
<1>1. Init => IdsInv
  BY DEF Init, IdsInv
<1>2. Init => Table!Init
  <2> SUFFICES ASSUME Init
               PROVE  Table!Init
    OBVIOUS
  <2>1. \A l \in Link : link[l].name = None /\ UsersOf(l) = {}
    BY DEF Init, Gone, UsersOf, SlotsOf
  <2>2. (phase = "Destroyed") = FALSE
    BY DEF Init
  <2>3. QED
    BY <2>1, <2>2 DEF Table!Init
<1>3. AdapterInv /\ IdsInv /\ [Next]_vars => IdsInv' /\ [Table!Next]_(Table!vars)
  BY CallerRefines, ReceiveRefines, DestroyRefines, OthersRefine DEF Next, TableStep
<1>4. QED
  BY <1>1, <1>2, <1>3, AdapterInvariant, PTL DEF Spec, ImplementsLinkTable, Table!Spec
=============================================================================
