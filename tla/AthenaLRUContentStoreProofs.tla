-------------------- MODULE AthenaLRUContentStoreProofs --------------------
(***************************************************************************)
(* What the content store keeps to, for every set of content objects and   *)
(* every size of the store: the linked list, the index and the byte count  *)
(* agree, and the store is the cache that ContentCache describes.          *)
(***************************************************************************)
EXTENDS AthenaLRUContentStore, FiniteSetTheorems, SequenceTheorems, TLAPS

(***************************************************************************)
(* Natural numbers                                                         *)
(***************************************************************************)

(* A set that has 0, and n + 1 with n, has every natural number.           *)
LEMMA SetInduction ==
  ASSUME NEW S, 0 \in S, \A n \in Nat : n \in S => n + 1 \in S
  PROVE  \A n \in Nat : n \in S
<1> SUFFICES ASSUME Nat \ S # {}
             PROVE  FALSE
  OBVIOUS
<1>1. PICK n \in Nat \ S : \A m \in Nat \ S : ~(<<m, n>> \in OpToRel(<, Nat))
  BY NatLessThanWellFounded, WFMin
<1>2. n # 0 /\ n - 1 \in Nat /\ n - 1 < n
  OBVIOUS
<1>3. n - 1 \in S
  BY <1>1, <1>2 DEF OpToRel
<1>4. (n - 1) + 1 = n
  OBVIOUS
<1>5. QED
  BY <1>2, <1>3, <1>4

LEMMA LeastOf ==
  ASSUME NEW S, S \subseteq Nat, S # {}
  PROVE  \E i \in S : \A j \in S : i <= j
<1>1. PICK n \in S : \A m \in S : ~(<<m, n>> \in OpToRel(<, Nat))
  BY NatLessThanWellFounded, WFMin
<1>2. \A j \in S : ~(j < n)
  BY <1>1 DEF OpToRel
<1>3. \A j \in S : n <= j
  BY <1>2
<1>4. QED
  BY <1>3

(* The entries are numbered from 1 to the size of the largest store.       *)
LEMMA Largest ==
  /\ Max(Capacity) \in Capacity /\ Max(Capacity) \in Nat
  /\ \A size \in Capacity : size \in Nat /\ size <= Max(Capacity)
  /\ Entry = 1 .. Max(Capacity) /\ None \notin Entry
<1>1. \E x \in Capacity : \A y \in Capacity : x >= y
  BY ContentAssumption
<1>2. Max(Capacity) \in Capacity /\ \A y \in Capacity : Max(Capacity) >= y
  BY <1>1 DEF Max
<1>3. QED
  BY <1>2, ContentAssumption DEF Entry

(***************************************************************************)
(* The linked list                                                         *)
(***************************************************************************)

List == [head : Pointer, tail : Pointer, next : [Entry -> Pointer], prev : [Entry -> Pointer]]

(* An entry each, the most recent first.                                   *)
Each(s) == s \in Seq(Entry) /\ \A i, j \in 1 .. Len(s) : s[i] = s[j] => i = j

Members(s) == {s[i] : i \in 1 .. Len(s)}

There(s, i) == IF i \in 1 .. Len(s) THEN s[i] ELSE None

(* The pointers of the list L lead through s, forwards and backwards.      *)
Linked(L, s) ==
  /\ L \in List
  /\ L.head = There(s, 1) /\ L.tail = There(s, Len(s))
  /\ \A i \in 1 .. Len(s) : L.next[s[i]] = There(s, i + 1) /\ L.prev[s[i]] = There(s, i - 1)

(* s with another entry in front, and without the one at a place.          *)
Fronted(s, e) == [i \in 1 .. Len(s) + 1 |-> IF i = 1 THEN e ELSE s[i - 1]]

Dropped(s, k) == [i \in 1 .. Len(s) - 1 |-> IF i < k THEN s[i] ELSE s[i + 1]]

LEMMA SequenceOf ==
  ASSUME NEW S, NEW n \in Nat, NEW f \in [1 .. n -> S]
  PROVE  f \in Seq(S) /\ Len(f) = n
<1>1. f \in Seq(S)
  BY SeqDef
<1>2. Len(f) \in Nat /\ 1 .. Len(f) = 1 .. n
  BY <1>1, LenProperties
<1>3. QED
  BY <1>1, <1>2

LEMMA EachAt ==
  ASSUME NEW s, Each(s)
  PROVE  /\ Len(s) \in Nat /\ s \in [1 .. Len(s) -> Entry]
         /\ \A i \in 1 .. Len(s) : s[i] \in Entry /\ s[i] # None /\ s[i] \in Members(s)
         /\ \A e \in Members(s) : \E i \in 1 .. Len(s) : s[i] = e
         /\ \A i \in 1 .. Len(s) : There(s, i) = s[i]
         /\ \A i \in Int : i \notin 1 .. Len(s) => There(s, i) = None
<1>1. Len(s) \in Nat /\ s \in [1 .. Len(s) -> Entry]
  BY LenProperties DEF Each
<1>2. QED
  BY <1>1, Largest DEF Members, There

LEMMA FrontedIs ==
  ASSUME NEW s, Each(s), NEW e \in Entry, e \notin Members(s)
  PROVE  /\ Each(Fronted(s, e)) /\ Len(Fronted(s, e)) = Len(s) + 1
         /\ Fronted(s, e)[1] = e
         /\ \A i \in 1 .. Len(s) : Fronted(s, e)[i + 1] = s[i]
         /\ Members(Fronted(s, e)) = Members(s) \cup {e}
<1> DEFINE t == Fronted(s, e)
<1>1. Len(s) \in Nat /\ s \in [1 .. Len(s) -> Entry] /\ \A i \in 1 .. Len(s) : s[i] # e
  BY EachAt
<1>2. /\ t \in [1 .. Len(s) + 1 -> Entry]
      /\ t[1] = e /\ \A i \in 1 .. Len(s) : t[i + 1] = s[i]
      /\ \A i \in 1 .. Len(s) + 1 : i # 1 => i - 1 \in 1 .. Len(s) /\ t[i] = s[i - 1]
  BY <1>1 DEF Fronted
<1>3. t \in Seq(Entry) /\ Len(t) = Len(s) + 1
  BY <1>1, <1>2, SequenceOf
<1> HIDE DEF t
<1>4. ASSUME NEW i \in 1 .. Len(s) + 1, NEW j \in 1 .. Len(s) + 1, t[i] = t[j]
      PROVE  i = j
  <2>1. CASE i = 1 \/ j = 1
    BY <1>1, <1>2, <1>4, <2>1
  <2>2. CASE i # 1 /\ j # 1
    <3>1. i - 1 \in 1 .. Len(s) /\ j - 1 \in 1 .. Len(s) /\ s[i - 1] = s[j - 1]
      BY <1>2, <1>4, <2>2
    <3>2. i - 1 = j - 1
      BY <3>1 DEF Each
    <3>3. QED
      BY <1>1, <3>2
  <2>3. QED
    BY <2>1, <2>2
<1>5. Members(t) = Members(s) \cup {e}
  <2>1. \A x \in Members(t) : x \in Members(s) \cup {e}
    BY <1>2, <1>3 DEF Members
  <2>2. e \in Members(t)
    BY <1>1, <1>2, <1>3 DEF Members
  <2>3. \A i \in 1 .. Len(s) : i + 1 \in 1 .. Len(t)
    BY <1>1, <1>3
  <2>4. \A x \in Members(s) : x \in Members(t)
    BY <1>2, <2>3 DEF Members
  <2>5. QED
    BY <2>1, <2>2, <2>4
<1>6. QED
  BY <1>2, <1>3, <1>4, <1>5 DEF Each, t

LEMMA DroppedIs ==
  ASSUME NEW s, Each(s), NEW k \in 1 .. Len(s)
  PROVE  /\ Each(Dropped(s, k)) /\ Len(Dropped(s, k)) = Len(s) - 1
         /\ \A i \in 1 .. Len(s) - 1 : Dropped(s, k)[i] = IF i < k THEN s[i] ELSE s[i + 1]
         /\ Members(Dropped(s, k)) = Members(s) \ {s[k]}
<1> DEFINE t    == Dropped(s, k)
           n    == Len(s) - 1
           j(i) == IF i < k THEN i ELSE i + 1
<1>1. /\ Len(s) \in Nat /\ s \in [1 .. Len(s) -> Entry] /\ n \in Nat /\ k \in Nat /\ n + 1 = Len(s)
      /\ \A h, i \in 1 .. Len(s) : s[h] = s[i] => h = i
  BY EachAt DEF Each
<1>2. \A i \in 1 .. n : j(i) \in 1 .. Len(s) /\ j(i) # k
  BY <1>1
<1>3. t \in [1 .. n -> Entry] /\ \A i \in 1 .. n : t[i] = s[j(i)]
  <2>1. t = [i \in 1 .. n |-> IF i < k THEN s[i] ELSE s[i + 1]]
    BY DEF Dropped
  <2>2. \A i \in 1 .. n : s[j(i)] = (IF i < k THEN s[i] ELSE s[i + 1]) /\ s[j(i)] \in Entry
    BY <1>1, <1>2
  <2> HIDE DEF j, n, t
  <2>3. QED
    BY <2>1, <2>2
<1>4. t \in Seq(Entry) /\ Len(t) = n
  <2> HIDE DEF n, t
  <2>1. QED
    BY <1>1, <1>3, SequenceOf
<1>5. \A h, i \in 1 .. n : j(h) = j(i) => h = i
  BY <1>1
<1>6. \A x \in 1 .. Len(s) : x # k => \E i \in 1 .. n : j(i) = x
  <2> SUFFICES ASSUME NEW x \in 1 .. Len(s), x # k
               PROVE  \E i \in 1 .. n : j(i) = x
    OBVIOUS
  <2>1. CASE x < k
    BY <1>1, <2>1
  <2>2. CASE x > k
    <3>1. x - 1 \in 1 .. n /\ j(x - 1) = x
      BY <1>1, <2>2
    <3>2. QED
      BY <3>1
  <2>3. QED
    BY <1>1, <2>1, <2>2
<1>7. \A i \in 1 .. n : t[i] = IF i < k THEN s[i] ELSE s[i + 1]
  BY <1>3
<1> HIDE DEF j, n, t
<1>8. Each(t)
  <2>1. ASSUME NEW h \in 1 .. n, NEW i \in 1 .. n, t[h] = t[i]
        PROVE  h = i
    <3>1. j(h) = j(i)
      BY <1>1, <1>2, <1>3, <2>1
    <3>2. QED
      BY <1>5, <3>1
  <2>2. QED
    BY <1>4, <2>1 DEF Each
<1>9. Members(t) = Members(s) \ {s[k]}
  <2>1. \A x \in Members(t) : x \in Members(s) /\ x # s[k]
    BY <1>1, <1>2, <1>3, <1>4 DEF Members
  <2>2. ASSUME NEW x \in Members(s), x # s[k]
        PROVE  x \in Members(t)
    <3>1. PICK h \in 1 .. Len(s) : x = s[h]
      BY DEF Members
    <3>2. PICK i \in 1 .. n : j(i) = h
      BY <1>6, <2>2, <3>1
    <3>3. QED
      BY <1>3, <1>4, <3>1, <3>2 DEF Members
  <2>3. QED
    BY <2>1, <2>2
<1>10. QED
  BY <1>4, <1>7, <1>8, <1>9 DEF t, n

(* There are as many entries in a sequence as it is long. *)
LEMMA MembersCount ==
  ASSUME NEW s, Each(s)
  PROVE  IsFiniteSet(Members(s)) /\ Cardinality(Members(s)) = Len(s)
<1>1. Len(s) \in Nat /\ s \in [1 .. Len(s) -> Members(s)]
  BY EachAt
<1>2. s \in Bijection(1 .. Len(s), Members(s))
  BY <1>1, EachAt DEF Bijection, Injection, Surjection, IsInjective, Each
<1>3. IsFiniteSet(1 .. Len(s)) /\ Cardinality(1 .. Len(s)) = Len(s)
  BY <1>1, FS_Interval
<1>4. QED
  BY <1>2, <1>3, FS_Bijection DEF ExistsBijection

(* What the pointers of a linked list are, entry by entry. *)
LEMMA LinkedAt ==
  ASSUME NEW L, NEW s, Each(s), Linked(L, s)
  PROVE  /\ L.head = IF Len(s) = 0 THEN None ELSE s[1]
         /\ L.tail = IF Len(s) = 0 THEN None ELSE s[Len(s)]
         /\ \A i \in 1 .. Len(s) :
              /\ L.next[s[i]] = IF i = Len(s) THEN None ELSE s[i + 1]
              /\ L.prev[s[i]] = IF i = 1 THEN None ELSE s[i - 1]
<1>1. Len(s) \in Nat
  BY EachAt
<1>2. QED
  BY <1>1 DEF Linked, There

LEMMA LinkedIf ==
  ASSUME NEW L \in List, NEW s, Each(s),
         L.head = IF Len(s) = 0 THEN None ELSE s[1],
         L.tail = IF Len(s) = 0 THEN None ELSE s[Len(s)],
         \A i \in 1 .. Len(s) : /\ L.next[s[i]] = IF i = Len(s) THEN None ELSE s[i + 1]
                                /\ L.prev[s[i]] = IF i = 1 THEN None ELSE s[i - 1]
  PROVE  Linked(L, s)
<1>1. Len(s) \in Nat
  BY EachAt
<1>2. QED
  BY <1>1 DEF Linked, There

LEMMA ListFields ==
  ASSUME NEW L \in List
  PROVE  /\ L.head \in Pointer /\ L.tail \in Pointer
         /\ L.next \in [Entry -> Pointer] /\ L.prev \in [Entry -> Pointer]
  BY DEF List

LEMMA AddHeadLinked ==
  ASSUME NEW L, NEW s, Each(s), Linked(L, s), NEW e \in Entry, e \notin Members(s)
  PROVE  Linked(AddHead(L, e), Fronted(s, e))
<1> DEFINE t == Fronted(s, e)
           A == AddHead(L, e)
           n == Len(s)
<1>1. /\ n \in Nat /\ \A i \in 1 .. n : s[i] \in Entry /\ s[i] # None /\ s[i] # e
      /\ \A i, j \in 1 .. n : s[i] = s[j] => i = j
  BY EachAt DEF Each
<1>2. Each(t) /\ Len(t) = n + 1 /\ t[1] = e /\ \A i \in 1 .. n : t[i + 1] = s[i]
  BY FrontedIs
<1>3. L \in List /\ L.head \in Pointer /\ L.tail \in Pointer
      /\ L.next \in [Entry -> Pointer] /\ L.prev \in [Entry -> Pointer]
  BY ListFields DEF Linked
<1>4. /\ A.head = e
      /\ A.tail = IF L.tail = None THEN e ELSE L.tail
      /\ A.next = [L.next EXCEPT ![e] = L.head]
      /\ A.prev = [x \in Entry |-> IF x = e THEN None ELSE IF x = L.head THEN e ELSE L.prev[x]]
      /\ A = [head |-> A.head, tail |-> A.tail, next |-> A.next, prev |-> A.prev]
  BY DEF AddHead
<1>5. /\ L.head = IF n = 0 THEN None ELSE s[1]
      /\ L.tail = IF n = 0 THEN None ELSE s[n]
      /\ \A i \in 1 .. n : /\ L.next[s[i]] = IF i = n THEN None ELSE s[i + 1]
                           /\ L.prev[s[i]] = IF i = 1 THEN None ELSE s[i - 1]
  BY LinkedAt
<1> HIDE DEF t, A, n
<1>6. /\ A.next[e] = L.head /\ A.prev[e] = None
      /\ \A x \in Entry : x # e => /\ A.next[x] = L.next[x]
                                   /\ A.prev[x] = IF x = L.head THEN e ELSE L.prev[x]
  BY <1>3, <1>4
<1>7. A \in List
  <2>1. A.next \in [Entry -> Pointer] /\ A.prev \in [Entry -> Pointer]
    BY <1>3, <1>4 DEF Pointer
  <2>2. A.head \in Pointer /\ A.tail \in Pointer
    BY <1>3, <1>4 DEF Pointer
  <2>3. QED
    BY <1>4, <2>1, <2>2 DEF List
<1>8. A.tail = t[Len(t)] /\ A.head = t[1] /\ Len(t) # 0
  <2>1. CASE n = 0
    BY <1>1, <1>2, <1>4, <1>5, <2>1
  <2>2. CASE n # 0
    <3>1. n \in 1 .. n
      BY <1>1, <2>2
    <3>2. QED
      BY <1>1, <1>2, <1>4, <1>5, <2>2, <3>1
  <2>3. QED
    BY <2>1, <2>2
<1>9. ASSUME NEW i \in 1 .. Len(t)
      PROVE  /\ A.next[t[i]] = IF i = Len(t) THEN None ELSE t[i + 1]
             /\ A.prev[t[i]] = IF i = 1 THEN None ELSE t[i - 1]
  <2>1. CASE i = 1
    <3>1. CASE n = 0
      BY <1>2, <1>5, <1>6, <2>1, <3>1
    <3>2. CASE n # 0
      <4>1. 1 \in 1 .. n /\ t[1 + 1] = s[1] /\ i # Len(t)
        BY <1>1, <1>2, <2>1, <3>2
      <4>2. QED
        BY <1>2, <1>5, <1>6, <2>1, <3>2, <4>1
    <3>3. QED
      BY <3>1, <3>2
  <2>2. CASE i # 1
    <3>1. PICK h \in 1 .. n : i = h + 1
      <4>1. i - 1 \in 1 .. n /\ i = (i - 1) + 1
        BY <1>1, <1>2, <2>2
      <4>2. QED
        BY <4>1
    <3>2. t[i] = s[h] /\ s[h] \in Entry /\ s[h] # e /\ i - 1 = h
      BY <1>1, <1>2, <3>1
    <3>3. A.next[t[i]] = IF i = Len(t) THEN None ELSE t[i + 1]
      <4>1. i = Len(t) <=> h = n
        BY <1>1, <1>2, <3>1
      <4>2. h # n => h + 1 \in 1 .. n
        BY <1>1
      <4>3. h # n => t[i + 1] = s[h + 1]
        BY <1>2, <3>1, <4>2
      <4>4. QED
        BY <1>5, <1>6, <3>2, <4>1, <4>3
    <3>4. A.prev[t[i]] = t[i - 1]
      <4>1. CASE h = 1
        BY <1>1, <1>2, <1>5, <1>6, <3>2, <4>1
      <4>2. CASE h # 1
        <5>1. h - 1 \in 1 .. n /\ (h - 1) + 1 = h /\ 1 \in 1 .. n
          BY <1>1, <4>2
        <5>2. s[h] # L.head
          BY <1>1, <1>5, <4>2, <5>1
        <5>3. t[h] = s[h - 1]
          BY <1>2, <5>1
        <5>4. QED
          BY <1>5, <1>6, <3>2, <4>2, <5>2, <5>3
      <4>3. QED
        BY <4>1, <4>2
    <3>5. QED
      BY <2>2, <3>3, <3>4
  <2>3. QED
    BY <2>1, <2>2
<1>10. Linked(A, t)
  BY <1>2, <1>7, <1>8, <1>9, LinkedIf
<1>11. QED
  BY <1>10 DEF A, t

LEMMA UnlinkLinked ==
  ASSUME NEW L, NEW s, Each(s), Linked(L, s), NEW k \in 1 .. Len(s)
  PROVE  Linked(Unlink(L, s[k]), Dropped(s, k))
<1> DEFINE t == Dropped(s, k)
           e == s[k]
           U == Unlink(L, e)
           n == Len(s)
<1>1. /\ n \in Nat /\ k \in 1 .. n /\ e = s[k] /\ \A i \in 1 .. n : s[i] \in Entry /\ s[i] # None
      /\ \A i, j \in 1 .. n : s[i] = s[j] => i = j
  BY EachAt DEF Each
<1>2. /\ Each(t) /\ Len(t) = n - 1
      /\ \A i \in 1 .. n - 1 : t[i] = IF i < k THEN s[i] ELSE s[i + 1]
  BY DroppedIs
<1>3. L \in List /\ L.head \in Pointer /\ L.tail \in Pointer
      /\ L.next \in [Entry -> Pointer] /\ L.prev \in [Entry -> Pointer]
  BY ListFields DEF Linked
<1>4. /\ U.head = IF L.head = e THEN L.next[e] ELSE L.head
      /\ U.tail = IF L.tail = e THEN L.prev[e] ELSE L.tail
      /\ U.next = [x \in Entry |->
           IF x = e THEN None ELSE IF x = L.prev[e] THEN L.next[e] ELSE L.next[x]]
      /\ U.prev = [x \in Entry |->
           IF x = e THEN None ELSE IF x = L.next[e] THEN L.prev[e] ELSE L.prev[x]]
      /\ U = [head |-> U.head, tail |-> U.tail, next |-> U.next, prev |-> U.prev]
  BY DEF Unlink
<1>5. /\ L.head = IF n = 0 THEN None ELSE s[1]
      /\ L.tail = IF n = 0 THEN None ELSE s[n]
      /\ \A i \in 1 .. n : /\ L.next[s[i]] = IF i = n THEN None ELSE s[i + 1]
                           /\ L.prev[s[i]] = IF i = 1 THEN None ELSE s[i - 1]
  BY LinkedAt
<1> HIDE DEF t, e, U, n
<1>6. /\ L.next[e] = IF k = n THEN None ELSE s[k + 1]
      /\ L.prev[e] = IF k = 1 THEN None ELSE s[k - 1]
      /\ L.head = s[1] /\ L.tail = s[n] /\ 1 \in 1 .. n /\ n \in 1 .. n
      /\ e \in Entry
  BY <1>1, <1>5
<1>7. U \in List
  <2>1. U.next \in [Entry -> Pointer] /\ U.prev \in [Entry -> Pointer]
    BY <1>3, <1>4, <1>6 DEF Pointer
  <2>2. U.head \in Pointer /\ U.tail \in Pointer
    BY <1>3, <1>4, <1>6
  <2>3. QED
    BY <1>4, <2>1, <2>2 DEF List
<1>8. U.head = IF Len(t) = 0 THEN None ELSE t[1]
  <2>1. CASE k = 1
    <3>1. U.head = IF n = 1 THEN None ELSE s[2]
      BY <1>1, <1>4, <1>6, <2>1
    <3>2. n # 1 => 1 \in 1 .. n - 1
      BY <1>1
    <3>3. QED
      BY <1>1, <1>2, <2>1, <3>1, <3>2
  <2>2. CASE k # 1
    <3>1. s[1] # e /\ 1 \in 1 .. n - 1 /\ 1 < k
      BY <1>1, <1>6, <2>2
    <3>2. QED
      BY <1>1, <1>2, <1>4, <1>6, <3>1
  <2>3. QED
    BY <2>1, <2>2
<1>9. U.tail = IF Len(t) = 0 THEN None ELSE t[Len(t)]
  <2>1. CASE k = n
    <3>1. U.tail = IF n = 1 THEN None ELSE s[n - 1]
      BY <1>1, <1>4, <1>6, <2>1
    <3>2. n # 1 => n - 1 \in 1 .. n - 1 /\ n - 1 < k
      BY <1>1, <2>1
    <3>3. QED
      BY <1>1, <1>2, <3>1, <3>2
  <2>2. CASE k # n
    <3>1. s[n] # e /\ n - 1 \in 1 .. n - 1 /\ ~(n - 1 < k) /\ (n - 1) + 1 = n
      BY <1>1, <1>6, <2>2
    <3>2. QED
      BY <1>1, <1>2, <1>4, <1>6, <3>1
  <2>3. QED
    BY <2>1, <2>2
<1>10. ASSUME NEW h \in 1 .. n, h # k
       PROVE  /\ s[h] \in Entry
              /\ U.next[s[h]] = IF h = k - 1 THEN L.next[e] ELSE L.next[s[h]]
              /\ U.prev[s[h]] = IF h = k + 1 THEN L.prev[e] ELSE L.prev[s[h]]
  <2>1. s[h] \in Entry /\ s[h] # e /\ s[h] # None
    BY <1>1, <1>10
  <2>2. s[h] = L.prev[e] <=> h = k - 1
    <3>1. CASE k = 1
      BY <1>1, <1>6, <2>1, <3>1
    <3>2. CASE k # 1
      <4>1. k - 1 \in 1 .. n /\ L.prev[e] = s[k - 1]
        BY <1>1, <1>6, <3>2
      <4>2. QED
        BY <1>1, <4>1
    <3>3. QED
      BY <3>1, <3>2
  <2>3. s[h] = L.next[e] <=> h = k + 1
    <3>1. CASE k = n
      BY <1>1, <1>6, <2>1, <3>1
    <3>2. CASE k # n
      <4>1. k + 1 \in 1 .. n /\ L.next[e] = s[k + 1]
        BY <1>1, <1>6, <3>2
      <4>2. QED
        BY <1>1, <4>1
    <3>3. QED
      BY <3>1, <3>2
  <2>4. QED
    BY <1>4, <2>1, <2>2, <2>3
<1>11. ASSUME NEW i \in 1 .. Len(t)
       PROVE  /\ U.next[t[i]] = IF i = Len(t) THEN None ELSE t[i + 1]
              /\ U.prev[t[i]] = IF i = 1 THEN None ELSE t[i - 1]
  <2>1. i \in 1 .. n - 1 /\ i \in Nat /\ k \in Nat
    BY <1>1, <1>2
  <2>2. /\ i + 1 \in 1 .. n /\ i \in 1 .. n
        /\ i # n - 1 => i + 1 \in 1 .. n - 1
        /\ i # 1 => i - 1 \in 1 .. n - 1
    BY <1>1, <2>1
  <2>3. /\ t[i] = IF i < k THEN s[i] ELSE s[i + 1]
        /\ i # n - 1 => t[i + 1] = IF i + 1 < k THEN s[i + 1] ELSE s[(i + 1) + 1]
        /\ i # 1 => t[i - 1] = IF i - 1 < k THEN s[i - 1] ELSE s[(i - 1) + 1]
    BY <1>2, <2>1, <2>2
  <2>4. CASE i < k
    <3>1. /\ t[i] = s[i] /\ i # k
          /\ U.next[s[i]] = IF i = k - 1 THEN L.next[e] ELSE L.next[s[i]]
          /\ U.prev[s[i]] = L.prev[s[i]]
      <4>1. t[i] = s[i] /\ i # k /\ i # k + 1
        BY <2>1, <2>3, <2>4
      <4>2. QED
        BY <1>10, <2>2, <4>1
    <3>2. U.prev[t[i]] = IF i = 1 THEN None ELSE t[i - 1]
      <4>1. i # 1 => t[i - 1] = s[i - 1]
        BY <2>1, <2>3, <2>4
      <4>2. QED
        BY <1>5, <2>2, <3>1, <4>1
    <3>3. U.next[t[i]] = IF i = Len(t) THEN None ELSE t[i + 1]
      <4>1. CASE i = k - 1
        <5>1. U.next[t[i]] = IF k = n THEN None ELSE s[k + 1]
          BY <1>6, <3>1, <4>1
        <5>2. (k = n <=> i = Len(t)) /\ (i # n - 1 => t[i + 1] = s[k + 1])
          BY <1>1, <1>2, <2>1, <2>3, <4>1
        <5>3. QED
          BY <1>1, <1>2, <5>1, <5>2
      <4>2. CASE i # k - 1
        <5>1. U.next[t[i]] = s[i + 1]
          BY <1>1, <1>5, <2>1, <2>2, <2>4, <3>1, <4>2
        <5>2. i # Len(t) /\ i # n - 1 /\ t[i + 1] = s[i + 1]
          BY <1>1, <1>2, <2>1, <2>3, <2>4, <4>2
        <5>3. QED
          BY <5>1, <5>2
      <4>3. QED
        BY <4>1, <4>2
    <3>4. QED
      BY <3>2, <3>3
  <2>5. CASE ~(i < k)
    <3>1. /\ t[i] = s[i + 1] /\ i + 1 # k
          /\ U.next[s[i + 1]] = L.next[s[i + 1]]
          /\ U.prev[s[i + 1]] = IF i = k THEN L.prev[e] ELSE L.prev[s[i + 1]]
      <4>1. t[i] = s[i + 1] /\ i + 1 # k /\ i + 1 # k - 1 /\ (i + 1 = k + 1 <=> i = k)
        BY <2>1, <2>3, <2>5
      <4>2. QED
        BY <1>10, <2>2, <4>1
    <3>2. U.next[t[i]] = IF i = Len(t) THEN None ELSE t[i + 1]
      <4>1. (i + 1 = n <=> i = Len(t)) /\ (i # n - 1 <=> i # Len(t))
        BY <1>1, <1>2, <2>1
      <4>2. i # n - 1 => t[i + 1] = s[(i + 1) + 1]
        BY <2>1, <2>3, <2>5
      <4>3. QED
        BY <1>5, <2>2, <3>1, <4>1, <4>2
    <3>3. U.prev[t[i]] = IF i = 1 THEN None ELSE t[i - 1]
      <4>1. CASE i = k
        <5>1. U.prev[t[i]] = IF k = 1 THEN None ELSE s[k - 1]
          BY <1>6, <3>1, <4>1
        <5>2. i # 1 => t[i - 1] = s[k - 1]
          BY <2>1, <2>3, <4>1
        <5>3. QED
          BY <4>1, <5>1, <5>2
      <4>2. CASE i # k
        <5>1. U.prev[t[i]] = s[(i + 1) - 1] /\ (i + 1) - 1 = i
          BY <1>5, <2>1, <2>2, <3>1, <4>2
        <5>2. i # 1 /\ t[i - 1] = s[(i - 1) + 1] /\ (i - 1) + 1 = i
          BY <1>1, <2>1, <2>3, <2>5, <4>2
        <5>3. QED
          BY <5>1, <5>2
      <4>3. QED
        BY <4>1, <4>2
    <3>4. QED
      BY <3>2, <3>3
  <2>6. QED
    BY <2>4, <2>5
<1>12. Linked(U, t)
  BY <1>2, <1>7, <1>8, <1>9, <1>11, LinkedIf
<1>13. QED
  BY <1>12 DEF U, t, e

(* The sequence in which the entry at place k has come to the front. *)
Moved(s, k) == Fronted(Dropped(s, k), s[k])

LEMMA MovedIs ==
  ASSUME NEW s, Each(s), NEW k \in 1 .. Len(s)
  PROVE  /\ Each(Moved(s, k)) /\ Len(Moved(s, k)) = Len(s)
         /\ Moved(s, k)[1] = s[k]
         /\ \A i \in 2 .. Len(s) : Moved(s, k)[i] = IF i <= k THEN s[i - 1] ELSE s[i]
         /\ Members(Moved(s, k)) = Members(s)
<1> DEFINE d == Dropped(s, k)
           e == s[k]
           n == Len(s)
<1>1. n \in Nat /\ k \in Nat /\ e \in Entry /\ e \in Members(s)
  BY EachAt
<1>2. /\ Each(d) /\ Len(d) = n - 1 /\ Members(d) = Members(s) \ {e}
      /\ \A i \in 1 .. n - 1 : d[i] = IF i < k THEN s[i] ELSE s[i + 1]
  BY DroppedIs
<1> HIDE DEF d, e, n
<1>3. /\ Each(Fronted(d, e)) /\ Len(Fronted(d, e)) = Len(d) + 1
      /\ Fronted(d, e)[1] = e
      /\ \A i \in 1 .. Len(d) : Fronted(d, e)[i + 1] = d[i]
      /\ Members(Fronted(d, e)) = Members(d) \cup {e}
  BY <1>1, <1>2, FrontedIs
<1>4. Moved(s, k) = Fronted(d, e)
  BY DEF Moved, d, e
<1>5. ASSUME NEW i \in 2 .. n
      PROVE  Fronted(d, e)[i] = IF i <= k THEN s[i - 1] ELSE s[i]
  <2>1. i - 1 \in 1 .. n - 1 /\ (i - 1) + 1 = i /\ (i - 1 < k <=> i <= k)
    BY <1>1
  <2>2. Fronted(d, e)[i] = d[i - 1]
    BY <1>2, <1>3, <2>1
  <2>3. QED
    BY <1>2, <2>1, <2>2
<1>6. Len(d) + 1 = n /\ Members(d) \cup {e} = Members(s)
  BY <1>1, <1>2
<1>7. QED
  BY <1>3, <1>4, <1>5, <1>6 DEF n, e

LEMMA MoveLinked ==
  ASSUME NEW L, NEW s, Each(s), Linked(L, s), NEW k \in 1 .. Len(s)
  PROVE  Linked(MoveToHead(L, s[k]), Moved(s, k))
<1> DEFINE t == Moved(s, k)
           e == s[k]
           M == MoveToHead(L, e)
           n == Len(s)
<1>1. /\ n \in Nat /\ k \in 1 .. n /\ e = s[k] /\ \A i \in 1 .. n : s[i] \in Entry /\ s[i] # None
      /\ \A i, j \in 1 .. n : s[i] = s[j] => i = j
  BY EachAt DEF Each
<1>2. /\ Each(t) /\ Len(t) = n /\ t[1] = e
      /\ \A i \in 2 .. n : t[i] = IF i <= k THEN s[i - 1] ELSE s[i]
  BY MovedIs
<1>3. L \in List /\ L.head \in Pointer /\ L.tail \in Pointer
      /\ L.next \in [Entry -> Pointer] /\ L.prev \in [Entry -> Pointer]
  BY ListFields DEF Linked
<1>4. /\ L.head = e => M = L
      /\ L.head # e =>
           /\ M.head = e
           /\ M.tail = IF L.tail = e THEN L.prev[e] ELSE L.tail
           /\ M.next = [x \in Entry |->
                IF x = e THEN L.head
                ELSE IF x = L.prev[e] THEN IF L.tail = e THEN None ELSE L.next[e]
                ELSE L.next[x]]
           /\ M.prev = [x \in Entry |->
                IF x = e THEN None
                ELSE IF x = L.head THEN e
                ELSE IF x = L.next[e] THEN L.prev[e]
                ELSE L.prev[x]]
           /\ M = [head |-> M.head, tail |-> M.tail, next |-> M.next, prev |-> M.prev]
  BY DEF MoveToHead
<1>5. /\ L.head = IF n = 0 THEN None ELSE s[1]
      /\ L.tail = IF n = 0 THEN None ELSE s[n]
      /\ \A i \in 1 .. n : /\ L.next[s[i]] = IF i = n THEN None ELSE s[i + 1]
                           /\ L.prev[s[i]] = IF i = 1 THEN None ELSE s[i - 1]
  BY LinkedAt
<1>0. Linked(L, s) /\ Each(s) /\ Len(s) = n
  OBVIOUS
<1> HIDE DEF t, e, M, n
<1>6. /\ L.next[e] = IF k = n THEN None ELSE s[k + 1]
      /\ L.prev[e] = IF k = 1 THEN None ELSE s[k - 1]
      /\ L.head = s[1] /\ L.tail = s[n] /\ 1 \in 1 .. n /\ n \in 1 .. n
      /\ e \in Entry
      /\ (L.head = e <=> k = 1) /\ (L.tail = e <=> k = n)
  BY <1>1, <1>5
<1>7. CASE k = 1
  <2>1. \A i \in 1 .. Len(t) : t[i] = s[i]
    <3>1. \A i \in 1 .. n : i # 1 => i \in 2 .. n /\ ~(i <= k)
      BY <1>1, <1>7
    <3>2. QED
      BY <1>1, <1>2, <1>7, <3>1
  <2>2. s \in Seq(Entry) /\ t \in Seq(Entry) /\ Len(t) = Len(s)
    BY <1>0, <1>2 DEF Each
  <2>3. t = s
    BY <2>1, <2>2, SeqEqual
  <2>4. QED
    BY <1>0, <1>4, <1>6, <1>7, <2>3 DEF M, t, e
<1>8. CASE k # 1
  <2>1. L.head # e /\ k - 1 \in 1 .. n /\ L.prev[e] = s[k - 1] /\ k \in 2 .. n /\ 2 \in 2 .. n
    BY <1>1, <1>6, <1>8
  <2>2. M \in List
    <3>1. M.next \in [Entry -> Pointer] /\ M.prev \in [Entry -> Pointer]
      BY <1>3, <1>4, <1>6, <2>1 DEF Pointer
    <3>2. M.head \in Pointer /\ M.tail \in Pointer
      BY <1>3, <1>4, <1>6, <2>1 DEF Pointer
    <3>3. QED
      BY <1>4, <2>1, <3>1, <3>2 DEF List
  <2>3. M.head = t[1] /\ M.tail = t[n]
    <3>1. n \in 2 .. n
      BY <1>1, <2>1
    <3>2. t[n] = IF n = k THEN s[n - 1] ELSE s[n]
      BY <1>1, <1>2, <3>1
    <3>3. QED
      BY <1>2, <1>4, <1>6, <2>1, <3>2
  <2>4. M.next[e] = s[1] /\ M.prev[e] = None
    BY <1>4, <1>6, <2>1
  <2>5. ASSUME NEW h \in 1 .. n, h # k
        PROVE  /\ s[h] \in Entry
               /\ M.next[s[h]] = IF h = k - 1 THEN L.next[e] ELSE L.next[s[h]]
               /\ M.prev[s[h]] = IF h = 1 THEN e ELSE IF h = k + 1 THEN L.prev[e] ELSE L.prev[s[h]]
    <3>1. s[h] \in Entry /\ s[h] # e /\ s[h] # None
      BY <1>1, <2>5
    <3>2. s[h] = L.prev[e] <=> h = k - 1
      BY <1>1, <2>1
    <3>3. s[h] = L.next[e] <=> h = k + 1
      <4>1. CASE k = n
        BY <1>1, <1>6, <3>1, <4>1
      <4>2. CASE k # n
        <5>1. k + 1 \in 1 .. n /\ L.next[e] = s[k + 1]
          BY <1>1, <1>6, <4>2
        <5>2. QED
          BY <1>1, <5>1
      <4>3. QED
        BY <4>1, <4>2
    <3>4. s[h] = L.head <=> h = 1
      BY <1>1, <1>6
    <3>5. L.tail = e => L.next[e] = None
      BY <1>6
    <3>6. QED
      BY <1>4, <2>1, <3>1, <3>2, <3>3, <3>4, <3>5
  <2>6. ASSUME NEW i \in 1 .. Len(t)
        PROVE  /\ M.next[t[i]] = IF i = Len(t) THEN None ELSE t[i + 1]
               /\ M.prev[t[i]] = IF i = 1 THEN None ELSE t[i - 1]
    <3>1. /\ i \in 1 .. n /\ i \in Nat /\ k \in Nat
          /\ i # n => i + 1 \in 2 .. n
          /\ i # 1 => i \in 2 .. n /\ i - 1 \in 1 .. n
      BY <1>1, <1>2
    <3>2. CASE i = 1
      <4>1. i # n /\ t[i + 1] = s[1]
        BY <1>1, <1>2, <2>1, <3>2
      <4>2. QED
        BY <1>2, <2>4, <3>2, <4>1
    <3>3. CASE i # 1 /\ i <= k
      <4>1. t[i] = s[i - 1] /\ i - 1 # k /\ i - 1 # k + 1 /\ (i - 1 = k - 1 <=> i = k) /\ i - 1 # n
        BY <1>1, <1>2, <3>1, <3>3
      <4>2. M.next[t[i]] = IF i = Len(t) THEN None ELSE t[i + 1]
        <5>1. CASE i = k
          <6>1. M.next[t[i]] = IF k = n THEN None ELSE s[k + 1]
            BY <1>6, <2>5, <3>1, <3>3, <4>1, <5>1
          <6>2. i # n => t[i + 1] = s[i + 1]
            BY <1>2, <3>1, <5>1
          <6>3. QED
            BY <1>2, <5>1, <6>1, <6>2
        <5>2. CASE i # k
          <6>1. M.next[t[i]] = s[(i - 1) + 1] /\ (i - 1) + 1 = i
            BY <1>5, <2>5, <3>1, <3>3, <4>1, <5>2
          <6>2. i # n /\ t[i + 1] = s[(i + 1) - 1] /\ (i + 1) - 1 = i
            BY <1>1, <1>2, <3>1, <3>3, <5>2
          <6>3. QED
            BY <1>2, <6>1, <6>2
        <5>3. QED
          BY <5>1, <5>2
      <4>3. M.prev[t[i]] = t[i - 1]
        <5>1. CASE i = 2
          <6>1. M.prev[s[1]] = e /\ i - 1 = 1
            BY <1>6, <1>8, <2>5, <5>1
          <6>2. QED
            BY <1>2, <4>1, <6>1
        <5>2. CASE i # 2
          <6>1. i - 1 # 1 /\ i - 1 \in 2 .. n /\ i - 1 <= k
            BY <3>1, <3>3, <5>2
          <6>2. M.prev[t[i]] = s[(i - 1) - 1]
            BY <1>5, <2>5, <3>1, <3>3, <4>1, <6>1
          <6>3. t[i - 1] = s[(i - 1) - 1]
            BY <1>2, <6>1
          <6>4. QED
            BY <6>2, <6>3
        <5>3. QED
          BY <5>1, <5>2
      <4>4. QED
        BY <3>3, <4>2, <4>3
    <3>4. CASE i # 1 /\ ~(i <= k)
      <4>1. t[i] = s[i] /\ i # k /\ i # k - 1 /\ i # 1
        BY <1>1, <1>2, <3>1, <3>4
      <4>2. M.next[t[i]] = IF i = Len(t) THEN None ELSE t[i + 1]
        <5>1. M.next[t[i]] = IF i = n THEN None ELSE s[i + 1]
          BY <1>5, <2>5, <3>1, <4>1
        <5>2. i # n => t[i + 1] = s[i + 1]
          BY <1>2, <3>1, <3>4
        <5>3. QED
          BY <1>2, <5>1, <5>2
      <4>3. M.prev[t[i]] = t[i - 1]
        <5>1. i - 1 \in 2 .. n
          BY <1>1, <2>1, <3>1, <3>4
        <5>2. CASE i = k + 1
          <6>1. M.prev[t[i]] = s[k - 1]
            BY <2>1, <2>5, <3>1, <4>1, <5>2
          <6>2. i - 1 = k /\ i - 1 <= k
            BY <3>1, <5>2
          <6>3. QED
            BY <1>2, <5>1, <6>1, <6>2
        <5>3. CASE i # k + 1
          <6>1. M.prev[t[i]] = s[i - 1]
            BY <1>5, <2>5, <3>1, <4>1, <5>3
          <6>2. ~(i - 1 <= k)
            BY <3>1, <3>4, <5>3
          <6>3. QED
            BY <1>2, <5>1, <6>1, <6>2
        <5>4. QED
          BY <5>2, <5>3
      <4>4. QED
        BY <3>4, <4>2, <4>3
    <3>5. QED
      BY <3>2, <3>3, <3>4
  <2>7. Len(t) # 0
    BY <1>1, <1>2
  <2>8. Linked(M, t)
    BY <1>2, <2>2, <2>3, <2>6, <2>7, LinkedIf
  <2>9. QED
    BY <2>8 DEF M, t, e
<1>9. QED
  BY <1>7, <1>8

(***************************************************************************)
(* The byte count                                                          *)
(***************************************************************************)

Stored == [Entry -> Content \cup {None}]

(* The bytes up to each entry.                                             *)
SumsOf(stored, F) ==
  F = [n \in 0 .. Max(Capacity) |-> IF n = 0 THEN 0 ELSE F[n - 1] + Size(stored[n])]

LEMMA SumsExist ==
  ASSUME NEW stored
  PROVE  \E F : SumsOf(stored, F) /\ Bytes(stored) = F[Max(Capacity)]
<1> DEFINE Sum(r, n) == r + Size(stored[n])
           Upto(F, m) == F = [n \in 0 .. m |-> IF n = 0 THEN 0 ELSE Sum(F[n - 1], n)]
           S == {m \in Nat : \E F : Upto(F, m)}
<1>1. 0 \in S
  <2>1. Upto([n \in 0 .. 0 |-> 0], 0)
    OBVIOUS
  <2>2. QED
    BY <2>1
<1>2. ASSUME NEW m \in Nat, m \in S
      PROVE  m + 1 \in S
  <2>1. PICK F : Upto(F, m)
    <3> HIDE DEF Upto
    <3>1. QED
      BY <1>2
  <2> DEFINE G == [n \in 0 .. (m + 1) |-> IF n = m + 1 THEN Sum(F[m], m + 1) ELSE F[n]]
  <2> HIDE DEF Sum
  <2>2. \A n \in 0 .. m : F[n] = IF n = 0 THEN 0 ELSE Sum(F[n - 1], n)
    BY <2>1
  <2>3. ASSUME NEW n \in 0 .. (m + 1)
        PROVE  G[n] = IF n = 0 THEN 0 ELSE Sum(G[n - 1], n)
    <3>1. CASE n = m + 1
      <4>1. G[m] = F[m] /\ n - 1 = m /\ n # 0 /\ G[n] = Sum(F[m], m + 1)
        BY <3>1
      <4> HIDE DEF G
      <4>2. QED
        BY <3>1, <4>1
    <3>2. CASE n # m + 1 /\ n # 0
      <4>1. n \in 0 .. m /\ n - 1 \in 0 .. m /\ n - 1 # m + 1 /\ n - 1 \in 0 .. (m + 1)
        BY <3>2
      <4>2. G[n] = F[n] /\ G[n - 1] = F[n - 1]
        BY <3>2, <4>1
      <4> HIDE DEF G
      <4>3. QED
        BY <2>2, <3>2, <4>1, <4>2
    <3>3. CASE n # m + 1 /\ n = 0
      <4>1. G[n] = F[n] /\ n \in 0 .. m
        BY <3>3
      <4> HIDE DEF G
      <4>2. QED
        BY <2>2, <3>3, <4>1
    <3>4. QED
      BY <3>1, <3>2, <3>3
  <2>4. G = [n \in 0 .. (m + 1) |-> G[n]]
    OBVIOUS
  <2>5. Upto(G, m + 1)
    <3> HIDE DEF G
    <3>1. QED
      BY <2>3, <2>4
  <2>6. QED
    <3> HIDE DEF G, Upto
    <3>1. QED
      BY <2>5
<1>3. Max(Capacity) \in S
  <2> HIDE DEF S
  <2>1. QED
    BY <1>1, <1>2, SetInduction, Largest
<1> DEFINE P(F) == F = [n \in 0 .. Max(Capacity) |-> IF n = 0 THEN 0 ELSE F[n - 1] + Size(stored[n])]
           K == CHOOSE F : P(F)
<1>4. \E F : P(F)
  BY <1>3
<1>5. P(K)
  <2> HIDE DEF P
  <2>1. QED
    BY <1>4
<1>6. Bytes(stored) = K[Max(Capacity)]
  BY DEF Bytes
<1> HIDE DEF K
<1>7. QED
  BY <1>5, <1>6 DEF SumsOf

LEMMA SizeIs ==
  ASSUME NEW stored \in Stored, NEW e \in Entry
  PROVE  /\ Size(stored[e]) \in Nat
         /\ stored[e] # None => Size(stored[e]) = stored[e].size /\ Size(stored[e]) >= 1
         /\ stored[e] = None => Size(stored[e]) = 0
  BY ContentAssumption DEF Stored, Size

(* The sum, and what it is when every entry, or none, is in use.           *)
LEMMA BytesTotal ==
  ASSUME NEW stored \in Stored
  PROVE  /\ Bytes(stored) \in Nat
         /\ (\A e \in Entry : stored[e] # None) => Bytes(stored) >= Max(Capacity)
         /\ (\A e \in Entry : stored[e] = None) => Bytes(stored) = 0
<1>1. PICK F : SumsOf(stored, F) /\ Bytes(stored) = F[Max(Capacity)]
  BY SumsExist
<1> DEFINE m == Max(Capacity)
           Good(n) ==
             /\ F[n] \in Nat
             /\ (\A e \in Entry : stored[e] # None) => F[n] >= n
             /\ (\A e \in Entry : stored[e] = None) => F[n] = 0
           S == {n \in Nat : n \in 0 .. m => Good(n)}
<1>2. m \in Nat /\ Entry = 1 .. m
  BY Largest
<1>3. F[0] = 0 /\ \A n \in 1 .. m : F[n] = F[n - 1] + Size(stored[n])
  <2>1. \A n \in 0 .. m : F[n] = IF n = 0 THEN 0 ELSE F[n - 1] + Size(stored[n])
    BY <1>1 DEF SumsOf
  <2>2. 0 \in 0 .. m /\ \A n \in 1 .. m : n \in 0 .. m /\ n # 0
    BY <1>2
  <2>3. QED
    BY <2>1, <2>2
<1>4. 0 \in S
  BY <1>3
<1>5. ASSUME NEW n \in Nat, n \in S
      PROVE  n + 1 \in S
  <2> SUFFICES ASSUME n + 1 \in 0 .. m
               PROVE  Good(n + 1)
    <3> HIDE DEF Good
    <3>1. QED
      BY <1>5
  <2>1. n \in 0 .. m /\ n + 1 \in 1 .. m /\ (n + 1) - 1 = n /\ n + 1 \in Entry
    BY <1>2
  <2>2. Good(n)
    <3> HIDE DEF Good
    <3>1. QED
      BY <1>5, <2>1
  <2>3. F[n + 1] = F[n] + Size(stored[n + 1])
    BY <1>3, <2>1
  <2>4. QED
    BY <2>1, <2>2, <2>3, SizeIs
<1>6. m \in S
  <2> HIDE DEF S, m
  <2>1. QED
    BY <1>2, <1>4, <1>5, SetInduction
<1>7. Good(m)
  <2>1. m \in 0 .. m
    BY <1>2
  <2> HIDE DEF Good
  <2>2. QED
    BY <1>6, <2>1
<1>8. QED
  BY <1>1, <1>7

(* Putting something else in one entry changes the sum by the difference.  *)
LEMMA BytesChange ==
  ASSUME NEW old \in Stored, NEW new \in Stored, NEW e \in Entry,
         \A x \in Entry : x # e => new[x] = old[x]
  PROVE  Bytes(new) = Bytes(old) - Size(old[e]) + Size(new[e])
<1>1. PICK F : SumsOf(old, F) /\ Bytes(old) = F[Max(Capacity)]
  BY SumsExist
<1>2. PICK G : SumsOf(new, G) /\ Bytes(new) = G[Max(Capacity)]
  BY SumsExist
<1> DEFINE m == Max(Capacity)
           Differ(n) ==
             /\ F[n] \in Nat /\ G[n] \in Nat
             /\ n < e => G[n] = F[n]
             /\ n >= e => G[n] = F[n] - Size(old[e]) + Size(new[e])
           S == {n \in Nat : n \in 0 .. m => Differ(n)}
<1>3. m \in Nat /\ Entry = 1 .. m /\ e \in Nat /\ e >= 1
  BY Largest
<1>4. /\ F[0] = 0 /\ \A n \in 1 .. m : F[n] = F[n - 1] + Size(old[n])
      /\ G[0] = 0 /\ \A n \in 1 .. m : G[n] = G[n - 1] + Size(new[n])
  <2>1. \A n \in 0 .. m : /\ F[n] = IF n = 0 THEN 0 ELSE F[n - 1] + Size(old[n])
                          /\ G[n] = IF n = 0 THEN 0 ELSE G[n - 1] + Size(new[n])
    BY <1>1, <1>2 DEF SumsOf
  <2>2. 0 \in 0 .. m /\ \A n \in 1 .. m : n \in 0 .. m /\ n # 0
    BY <1>3
  <2>3. QED
    BY <2>1, <2>2
<1>5. 0 \in S
  BY <1>3, <1>4
<1>6. ASSUME NEW n \in Nat, n \in S
      PROVE  n + 1 \in S
  <2> SUFFICES ASSUME n + 1 \in 0 .. m
               PROVE  Differ(n + 1)
    <3> HIDE DEF Differ
    <3>1. QED
      BY <1>6
  <2>1. n \in 0 .. m /\ n + 1 \in 1 .. m /\ (n + 1) - 1 = n /\ n + 1 \in Entry
    BY <1>3
  <2>2. Differ(n)
    <3> HIDE DEF Differ
    <3>1. QED
      BY <1>6, <2>1
  <2>3. F[n + 1] = F[n] + Size(old[n + 1]) /\ G[n + 1] = G[n] + Size(new[n + 1])
    BY <1>4, <2>1
  <2>4. Size(old[n + 1]) \in Nat /\ Size(new[n + 1]) \in Nat /\ Size(old[e]) \in Nat /\ Size(new[e]) \in Nat
    BY <2>1, SizeIs
  <2>5. n + 1 # e => new[n + 1] = old[n + 1]
    BY <2>1
  <2>6. CASE n + 1 = e
    <3>1. n < e /\ ~(n + 1 < e) /\ n + 1 >= e
      BY <1>3, <2>6
    <3>2. G[n] = F[n] /\ F[n] \in Nat
      BY <2>2, <3>1
    <3>3. F[n + 1] = F[n] + Size(old[e]) /\ G[n + 1] = F[n] + Size(new[e])
      BY <2>3, <2>6, <3>2
    <3>4. G[n + 1] = F[n + 1] - Size(old[e]) + Size(new[e]) /\ F[n + 1] \in Nat /\ G[n + 1] \in Nat
      BY <2>4, <3>2, <3>3
    <3>5. QED
      BY <3>1, <3>4
  <2>7. CASE n + 1 # e
    <3>1. G[n + 1] = G[n] + Size(old[n + 1]) /\ F[n] \in Nat /\ G[n] \in Nat
      BY <2>2, <2>3, <2>5, <2>7
    <3>2. F[n + 1] \in Nat /\ G[n + 1] \in Nat
      BY <2>3, <2>4, <3>1
    <3>3. CASE n < e
      <4>1. ~(n + 1 >= e)
        BY <1>3, <2>7, <3>3
      <4>2. G[n + 1] = F[n + 1]
        BY <2>2, <2>3, <3>1, <3>3
      <4>3. QED
        BY <3>2, <4>1, <4>2
    <3>4. CASE ~(n < e)
      <4>1. n >= e /\ ~(n + 1 < e)
        BY <1>3, <3>4
      <4>2. G[n] = F[n] - Size(old[e]) + Size(new[e])
        BY <2>2, <4>1
      <4>3. G[n + 1] = F[n + 1] - Size(old[e]) + Size(new[e])
        BY <2>3, <2>4, <3>1, <4>2
      <4>4. QED
        BY <3>2, <4>1, <4>3
    <3>5. QED
      BY <3>3, <3>4
  <2>8. QED
    BY <2>6, <2>7
<1>7. m \in S
  <2> HIDE DEF S, m
  <2>1. QED
    BY <1>3, <1>5, <1>6, SetInduction
<1>8. Differ(m)
  <2>1. m \in 0 .. m
    BY <1>3
  <2> HIDE DEF Differ
  <2>2. QED
    BY <1>7, <2>1
<1>9. QED
  BY <1>1, <1>2, <1>3, <1>8

(***************************************************************************)
(* Entries, list and index                                                 *)
(***************************************************************************)

(* The entries in use are those of s, the list L leads through them, and   *)
(* the table tells of entries that exist and have the name.                *)
Agree(stored, L, table, s) ==
  /\ stored \in Stored /\ table \in [Name -> Pointer]
  /\ Each(s) /\ Members(s) = {e \in Entry : stored[e] # None}
  /\ Linked(L, s)
  /\ \A n \in Name : table[n] # None => stored[table[n]] # None /\ stored[table[n]].name = n

(* An entry in use has a place in the list, and its content a name.        *)
LEMMA InUse ==
  ASSUME NEW stored, NEW L, NEW table, NEW s, Agree(stored, L, table, s)
  PROVE  /\ Len(s) \in Nat
         /\ \A i \in 1 .. Len(s) : /\ s[i] \in Entry /\ s[i] # None
                                   /\ stored[s[i]] # None /\ stored[s[i]] \in Content
                                   /\ stored[s[i]].name \in Name
         /\ \A e \in Entry : stored[e] # None => \E i \in 1 .. Len(s) : s[i] = e
         /\ \A n \in Name : table[n] # None => \E i \in 1 .. Len(s) : s[i] = table[n]
<1>1. Each(s) /\ stored \in Stored /\ Members(s) = {e \in Entry : stored[e] # None}
  BY DEF Agree
<1>2. /\ Len(s) \in Nat
      /\ \A i \in 1 .. Len(s) : s[i] \in Entry /\ s[i] # None /\ s[i] \in Members(s)
      /\ \A e \in Members(s) : \E i \in 1 .. Len(s) : s[i] = e
  BY <1>1, EachAt
<1>3. \A i \in 1 .. Len(s) : stored[s[i]] # None /\ stored[s[i]] \in Content
  BY <1>1, <1>2 DEF Stored
<1>4. \A i \in 1 .. Len(s) : stored[s[i]].name \in Name
  BY <1>3, ContentAssumption
<1>5. \A e \in Entry : stored[e] # None => \E i \in 1 .. Len(s) : s[i] = e
  BY <1>1, <1>2
<1>6. \A n \in Name : table[n] # None => \E i \in 1 .. Len(s) : s[i] = table[n]
  BY <1>5 DEF Agree, Pointer
<1>7. QED
  BY <1>2, <1>3, <1>4, <1>5, <1>6

(* A new entry is listed in front and found under its name.                *)
LEMMA AgreeAdded ==
  ASSUME NEW stored, NEW L, NEW table, NEW s, Agree(stored, L, table, s),
         NEW c \in Content, NEW e \in Entry, stored[e] = None
  PROVE  Agree([stored EXCEPT ![e] = c], AddHead(L, e), [table EXCEPT ![c.name] = e], Fronted(s, e))
<1> DEFINE E == [stored EXCEPT ![e] = c]
           T == [table EXCEPT ![c.name] = e]
           t == Fronted(s, e)
<1>1. /\ stored \in Stored /\ table \in [Name -> Pointer]
      /\ Each(s) /\ Members(s) = {x \in Entry : stored[x] # None} /\ Linked(L, s)
      /\ \A n \in Name : table[n] # None => stored[table[n]] # None /\ stored[table[n]].name = n
  BY DEF Agree
<1>2. c.name \in Name /\ c # None /\ e # None
  BY ContentAssumption, Largest
<1>3. /\ E \in Stored /\ E[e] = c /\ \A x \in Entry : x # e => E[x] = stored[x]
  BY <1>1 DEF Stored
<1>4. /\ T \in [Name -> Pointer] /\ T[c.name] = e /\ \A n \in Name : n # c.name => T[n] = table[n]
  BY <1>1, <1>2 DEF Pointer
<1>5. e \notin Members(s)
  BY <1>1
<1>6. Each(t) /\ Members(t) = Members(s) \cup {e}
  BY <1>1, <1>5, FrontedIs
<1>7. Linked(AddHead(L, e), t)
  BY <1>1, <1>5, AddHeadLinked
<1> HIDE DEF E, T, t
<1>8. Members(t) = {x \in Entry : E[x] # None}
  BY <1>1, <1>2, <1>3, <1>6
<1>9. ASSUME NEW n \in Name, T[n] # None
      PROVE  E[T[n]] # None /\ E[T[n]].name = n
  <2>1. CASE n = c.name
    BY <1>2, <1>3, <1>4, <2>1
  <2>2. CASE n # c.name
    <3>1. T[n] = table[n] /\ table[n] \in Entry /\ stored[table[n]] # None /\ stored[table[n]].name = n
      BY <1>1, <1>4, <1>9, <2>2 DEF Pointer
    <3>2. E[table[n]] = stored[table[n]]
      BY <1>3, <3>1
    <3>3. QED
      BY <3>1, <3>2
  <2>3. QED
    BY <2>1, <2>2
<1>10. QED
  BY <1>3, <1>4, <1>6, <1>7, <1>8, <1>9 DEF Agree, E, T, t

(* An entry that is purged leaves the list, and its name the index.        *)
LEMMA AgreePurged ==
  ASSUME NEW stored, NEW L, NEW table, NEW s, Agree(stored, L, table, s), NEW k \in 1 .. Len(s)
  PROVE  Agree([stored EXCEPT ![s[k]] = None], Unlink(L, s[k]),
               [table EXCEPT ![stored[s[k]].name] = None], Dropped(s, k))
<1> DEFINE e == s[k]
           E == [stored EXCEPT ![e] = None]
           T == [table EXCEPT ![stored[e].name] = None]
           t == Dropped(s, k)
<1>1. /\ stored \in Stored /\ table \in [Name -> Pointer]
      /\ Each(s) /\ Members(s) = {x \in Entry : stored[x] # None} /\ Linked(L, s)
      /\ \A n \in Name : table[n] # None => stored[table[n]] # None /\ stored[table[n]].name = n
  BY DEF Agree
<1>2. e \in Entry /\ stored[e] # None /\ stored[e].name \in Name
  BY InUse
<1>3. E \in Stored /\ E[e] = None /\ \A x \in Entry : x # e => E[x] = stored[x]
  BY <1>1, <1>2 DEF Stored
<1>4. /\ T \in [Name -> Pointer] /\ T[stored[e].name] = None
      /\ \A n \in Name : n # stored[e].name => T[n] = table[n]
  BY <1>1, <1>2 DEF Pointer
<1>5. Each(t) /\ Members(t) = Members(s) \ {e}
  BY <1>1, DroppedIs
<1>6. Linked(Unlink(L, e), t)
  BY <1>1, UnlinkLinked
<1> HIDE DEF E, T, t, e
<1>7. Members(t) = {x \in Entry : E[x] # None}
  BY <1>1, <1>2, <1>3, <1>5
<1>8. ASSUME NEW n \in Name, T[n] # None
      PROVE  E[T[n]] # None /\ E[T[n]].name = n
  <2>1. n # stored[e].name
    BY <1>4, <1>8
  <2>2. T[n] = table[n] /\ table[n] \in Entry /\ stored[table[n]] # None /\ stored[table[n]].name = n
    BY <1>1, <1>4, <1>8, <2>1 DEF Pointer
  <2>3. table[n] # e
    BY <2>1, <2>2
  <2>4. QED
    BY <1>3, <2>2, <2>3
<1>9. QED
  BY <1>3, <1>4, <1>5, <1>6, <1>7, <1>8 DEF Agree, E, T, t, e

(* An entry that is used comes to the front.                               *)
LEMMA AgreeMoved ==
  ASSUME NEW stored, NEW L, NEW table, NEW s, Agree(stored, L, table, s), NEW k \in 1 .. Len(s)
  PROVE  Agree(stored, MoveToHead(L, s[k]), table, Moved(s, k))
<1>1. Each(s) /\ Linked(L, s)
  BY DEF Agree
<1>2. Each(Moved(s, k)) /\ Members(Moved(s, k)) = Members(s)
  BY <1>1, MovedIs
<1>3. Linked(MoveToHead(L, s[k]), Moved(s, k))
  BY <1>1, MoveLinked
<1>4. QED
  BY <1>2, <1>3 DEF Agree

(* The list of no entry. *)
LEMMA AgreeEmpty ==
  Agree([e \in Entry |-> None], EmptyList, [n \in Name |-> None], <<>>)
<1>1. Each(<<>>) /\ Members(<<>>) = {} /\ Len(<<>>) = 0
  BY DEF Each, Members
<1>2. [e \in Entry |-> None] \in [Entry -> Pointer]
  BY DEF Pointer
<1>3. EmptyList \in List
  BY <1>2 DEF EmptyList, List, Pointer
<1>4. EmptyList.head = None /\ EmptyList.tail = None
  BY DEF EmptyList
<1>5. Linked(EmptyList, <<>>)
  <2>1. \A i \in 1 .. Len(<<>>) : FALSE
    BY <1>1
  <2>2. QED
    BY <1>1, <1>3, <1>4, <2>1, LinkedIf
<1>6. QED
  BY <1>1, <1>5 DEF Agree, Stored, Pointer

(***************************************************************************)
(* The operations on the store                                             *)
(***************************************************************************)

(* The store in the order of the list. *)
Listed(s) ==
  /\ Agree(entry, lru, tableByName, s)
  /\ numEntries = Len(s)
  /\ currentSize = Bytes(entry)

(* A put that makes room is of content that can be stored.                 *)
Limits ==
  /\ maxSize \in Capacity /\ currentSize <= maxSize
  /\ now \in 0 .. MaxTime
  /\ putting \in Content \cup {None}
  /\ putting # None => /\ putting.size <= maxSize
                       /\ putting.expiry # None => putting.expiry > now

StoreInv == (\E s : Listed(s)) /\ Limits

LEMMA PurgeKeeps ==
  ASSUME NEW s, Listed(s), NEW k \in 1 .. Len(s), Purge(s[k])
  PROVE  /\ Listed(Dropped(s, k))'
         /\ currentSize \in Nat /\ currentSize' \in Nat /\ currentSize' <= currentSize
         /\ numEntries' = numEntries - 1
         /\ entry' = [entry EXCEPT ![s[k]] = None]
         /\ tableByName' = [tableByName EXCEPT ![entry[s[k]].name] = None]
<1> DEFINE e == s[k]
<1>1. Agree(entry, lru, tableByName, s) /\ numEntries = Len(s) /\ currentSize = Bytes(entry)
  BY DEF Listed
<1>2. /\ tableByName' = [tableByName EXCEPT ![entry[e].name] = None]
      /\ currentSize' = currentSize - entry[e].size
      /\ lru' = Unlink(lru, e)
      /\ numEntries' = numEntries - 1
      /\ entry' = [entry EXCEPT ![e] = None]
  BY DEF Purge, Unindexed
<1>3. Agree(entry', lru', tableByName', Dropped(s, k))
  BY <1>1, <1>2, AgreePurged
<1>4. /\ e \in Entry /\ entry[e] # None /\ entry \in Stored /\ entry' \in Stored
      /\ \A x \in Entry : x # e => entry'[x] = entry[x]
  BY <1>1, <1>2, <1>3, InUse DEF Agree, Stored
<1>5. entry'[e] = None
  BY <1>2, <1>4 DEF Stored
<1> HIDE DEF e
<1>6. Bytes(entry') = Bytes(entry) - Size(entry[e]) + Size(entry'[e])
  BY <1>4, BytesChange
<1>7. /\ Bytes(entry) \in Nat /\ Bytes(entry') \in Nat /\ Size(entry'[e]) = 0
      /\ Size(entry[e]) = entry[e].size /\ Size(entry[e]) >= 1 /\ Size(entry[e]) \in Nat
  BY <1>4, <1>5, BytesTotal, SizeIs
<1>8. currentSize' = Bytes(entry') /\ currentSize' <= currentSize
  BY <1>1, <1>2, <1>6, <1>7
<1>9. Len(Dropped(s, k)) = Len(s) - 1
  BY <1>1, DroppedIs DEF Agree
<1>10. QED
  BY <1>1, <1>2, <1>3, <1>7, <1>8, <1>9 DEF Listed, e

(* Where there is room for content there is an entry that is free.         *)
LEMMA FreeEntry ==
  ASSUME NEW s, Listed(s), Limits, NEW c \in Content, Fits(c)
  PROVE  Min(Entry \ Used) \in Entry /\ entry[Min(Entry \ Used)] = None
<1>1. entry \in Stored /\ currentSize = Bytes(entry)
  BY DEF Listed, Agree
<1>2. Bytes(entry) \in Nat /\ ((\A e \in Entry : entry[e] # None) => Bytes(entry) >= Max(Capacity))
  BY <1>1, BytesTotal
<1>3. c.size \in Nat /\ c.size >= 1
  BY ContentAssumption
<1>4. maxSize \in Nat /\ maxSize <= Max(Capacity) /\ Max(Capacity) \in Nat
  BY Largest DEF Limits
<1>5. c.size + Bytes(entry) <= maxSize
  BY <1>1 DEF Fits
<1>6. ~(Bytes(entry) >= Max(Capacity))
  BY <1>2, <1>3, <1>4, <1>5
<1>7. Entry \ Used # {} /\ Entry \ Used \subseteq Nat
  BY <1>2, <1>6, Largest DEF Used
<1>8. \E i \in Entry \ Used : \A j \in Entry \ Used : i <= j
  BY <1>7, LeastOf
<1>9. Min(Entry \ Used) \in Entry \ Used
  BY <1>8 DEF Min
<1>10. QED
  BY <1>9 DEF Used

(* To put an entry in front and drop another is to drop it first.          *)
LEMMA DroppedFronted ==
  ASSUME NEW s, Each(s), NEW e \in Entry, e \notin Members(s), NEW k \in 1 .. Len(s)
  PROVE  Dropped(Fronted(s, e), k + 1) = Fronted(Dropped(s, k), e)
<1> DEFINE n == Len(s)
           f == Fronted(s, e)
           d == Dropped(s, k)
<1>1. n \in Nat /\ k \in 1 .. n
  BY EachAt
<1>2. /\ Len(f) = n + 1 /\ f[1] = e /\ \A i \in 1 .. n : f[i + 1] = s[i]
      /\ \A i \in 1 .. n + 1 : i # 1 => f[i] = s[i - 1]
  BY <1>1, FrontedIs DEF Fronted
<1>3. Len(d) = n - 1 /\ \A i \in 1 .. n - 1 : d[i] = IF i < k THEN s[i] ELSE s[i + 1]
  BY DroppedIs
<1> HIDE DEF n, f, d
<1>4. Dropped(f, k + 1) = [i \in 1 .. n |-> IF i < k + 1 THEN f[i] ELSE f[i + 1]]
  <2>1. (n + 1) - 1 = n
    BY <1>1
  <2>2. QED
    BY <1>2, <2>1 DEF Dropped
<1>5. Fronted(d, e) = [i \in 1 .. n |-> IF i = 1 THEN e ELSE d[i - 1]]
  <2>1. (n - 1) + 1 = n
    BY <1>1
  <2>2. QED
    BY <1>3, <2>1 DEF Fronted
<1>6. ASSUME NEW i \in 1 .. n
      PROVE  (IF i < k + 1 THEN f[i] ELSE f[i + 1]) = (IF i = 1 THEN e ELSE d[i - 1])
  <2>1. CASE i = 1
    BY <1>1, <1>2, <2>1
  <2>2. CASE i # 1 /\ i < k + 1
    <3>1. f[i] = s[i - 1]
      BY <1>1, <1>2, <2>2
    <3>2. d[i - 1] = s[i - 1]
      BY <1>1, <1>3, <2>2
    <3>3. QED
      BY <2>2, <3>1, <3>2
  <2>3. CASE i # 1 /\ ~(i < k + 1)
    <3>1. f[i + 1] = s[i]
      BY <1>2
    <3>2. i - 1 \in 1 .. n - 1 /\ ~(i - 1 < k) /\ (i - 1) + 1 = i
      BY <1>1, <2>3
    <3>3. d[i - 1] = s[i]
      BY <1>3, <3>2
    <3>4. QED
      BY <2>3, <3>1, <3>3
  <2>4. QED
    BY <2>1, <2>2, <2>3
<1>7. QED
  BY <1>4, <1>5, <1>6 DEF f, d

(* c in an entry that was free, in front; the one with the name that was   *)
(* found is gone, and then the name finds none.                            *)
InsertedNew(s, c, e) ==
  /\ tableByName[c.name] = None
  /\ Listed(Fronted(s, e))'
  /\ entry' = [entry EXCEPT ![e] = c]
  /\ tableByName' = [tableByName EXCEPT ![c.name] = e]

InsertedFor(s, c, e, k) ==
  /\ tableByName[c.name] = s[k]
  /\ entry[s[k]] # None /\ entry[s[k]].name = c.name
  /\ Listed(Fronted(Dropped(s, k), e))'
  /\ entry' = [entry EXCEPT ![e] = c, ![s[k]] = None]
  /\ tableByName' = [tableByName EXCEPT ![c.name] = None]

LEMMA InsertKeeps ==
  ASSUME NEW s, Listed(s), Limits, NEW c \in Content, Fits(c), Insert(c)
  PROVE  /\ \E e \in Entry : /\ entry[e] = None /\ e \notin Members(s)
                             /\ \/ InsertedNew(s, c, e)
                                \/ \E k \in 1 .. Len(s) : InsertedFor(s, c, e, k)
         /\ currentSize' \in Nat /\ currentSize' <= currentSize + c.size
<1>0. PICK e : e = Min(Entry \ Used)
  OBVIOUS
<1> DEFINE old == tableByName[c.name]
           E == [entry EXCEPT ![e] = c]
           T == [tableByName EXCEPT ![c.name] = e]
           L == AddHead(lru, e)
           f == Fronted(s, e)
<1>1. Agree(entry, lru, tableByName, s) /\ numEntries = Len(s) /\ currentSize = Bytes(entry)
  BY DEF Listed
<1>2. /\ entry \in Stored /\ tableByName \in [Name -> Pointer] /\ Each(s)
      /\ Members(s) = {x \in Entry : entry[x] # None}
      /\ \A n \in Name : tableByName[n] # None =>
           entry[tableByName[n]] # None /\ entry[tableByName[n]].name = n
  BY <1>1 DEF Agree
<1>3. e \in Entry /\ entry[e] = None
  BY <1>0, FreeEntry
<1>4. e \notin Members(s)
  BY <1>2, <1>3
<1>5. c.name \in Name /\ c # None /\ c.size \in Nat /\ c.size >= 1
  BY ContentAssumption
<1>6. Agree(E, L, T, f)
  BY <1>1, <1>3, AgreeAdded
<1>7. /\ E \in Stored /\ E[e] = c /\ \A x \in Entry : x # e => E[x] = entry[x]
      /\ T \in [Name -> Pointer] /\ T[c.name] = e
  BY <1>2, <1>3, <1>5 DEF Stored, Pointer
<1>8. /\ Bytes(E) = Bytes(entry) + c.size
      /\ Bytes(entry) \in Nat /\ Bytes(E) \in Nat
  <2> HIDE DEF E
  <2>1. Bytes(E) = Bytes(entry) - Size(entry[e]) + Size(E[e])
    BY <1>2, <1>3, <1>7, BytesChange
  <2>2. Size(entry[e]) = 0 /\ Size(E[e]) = c.size
    BY <1>2, <1>3, <1>5, <1>7, SizeIs
  <2>3. Bytes(entry) \in Nat /\ Bytes(E) \in Nat
    BY <1>2, <1>7, BytesTotal
  <2>4. QED
    BY <1>5, <2>1, <2>2, <2>3
<1>9. Len(f) = Len(s) + 1 /\ Len(s) \in Nat /\ \A i \in 1 .. Len(s) : f[i + 1] = s[i]
  BY <1>2, <1>3, <1>4, FrontedIs, EachAt
<1>10. CASE old = None
  <2>1. /\ lru' = L /\ tableByName' = T /\ entry' = E
        /\ currentSize' = currentSize + c.size /\ numEntries' = numEntries + 1
    BY <1>0, <1>10 DEF Insert
  <2> HIDE DEF L, T, E, f
  <2>2. Agree(entry', lru', tableByName', f) /\ numEntries' = Len(f) /\ currentSize' = Bytes(entry')
    BY <1>1, <1>6, <1>8, <1>9, <2>1
  <2>3. Listed(f)'
    BY <2>2 DEF Listed, f
  <2>4. InsertedNew(s, c, e)
    BY <1>10, <2>1, <2>3 DEF InsertedNew, f, E, T
  <2>5. currentSize' \in Nat /\ currentSize' <= currentSize + c.size
    BY <1>1, <1>5, <1>8, <2>1
  <2>6. QED
    BY <1>3, <1>4, <2>4, <2>5
<1>11. CASE old # None
  <2>1. PICK k \in 1 .. Len(s) : s[k] = old
    BY <1>1, <1>5, <1>11, InUse
  <2>2. entry[old] # None /\ entry[old].name = c.name /\ old \in Entry /\ old # e
    BY <1>2, <1>3, <1>5, <1>11 DEF Pointer
  <2>3. /\ lru' = Unlink(L, old) /\ tableByName' = [T EXCEPT ![entry[old].name] = None]
        /\ entry' = [entry EXCEPT ![e] = c, ![old] = None]
        /\ currentSize' = currentSize - entry[old].size + c.size /\ numEntries' = numEntries
    BY <1>0, <1>11 DEF Insert, Unindexed
  <2>4. E[old] = entry[old]
    BY <1>7, <2>2
  <2>5. entry' = [E EXCEPT ![old] = None] /\ tableByName' = [T EXCEPT ![E[old].name] = None]
    BY <2>3, <2>4
  <2>6. tableByName' = [tableByName EXCEPT ![c.name] = None]
    BY <1>2, <1>5, <2>2, <2>3
  <2>7. k + 1 \in 1 .. Len(f) /\ f[k + 1] = old
    BY <1>9, <2>1
  <2> HIDE DEF E, T, L, f, old
  <2>8. Agree(entry', lru', tableByName', Dropped(f, k + 1))
    <3>1. Agree([E EXCEPT ![f[k + 1]] = None], Unlink(L, f[k + 1]),
                [T EXCEPT ![E[f[k + 1]].name] = None], Dropped(f, k + 1))
      BY <1>6, <2>7, AgreePurged
    <3>2. QED
      BY <2>3, <2>5, <2>7, <3>1
  <2>9. Dropped(f, k + 1) = Fronted(Dropped(s, k), e)
    BY <1>2, <1>3, <1>4, DroppedFronted DEF f
  <2>10. Len(Dropped(f, k + 1)) = Len(s)
    <3>1. Len(Dropped(f, k + 1)) = Len(f) - 1
      BY <1>6, <2>7, DroppedIs DEF Agree
    <3>2. QED
      BY <1>9, <3>1
  <2>11. entry' \in Stored
    BY <2>8 DEF Agree
  <2>12. entry'[old] = None /\ \A x \in Entry : x # old => entry'[x] = E[x]
    BY <1>7, <2>2, <2>5 DEF Stored
  <2>13. Bytes(entry') = Bytes(E) - Size(E[old]) + Size(entry'[old])
    BY <1>7, <2>2, <2>11, <2>12, BytesChange
  <2>14. /\ Size(entry'[old]) = 0
         /\ Size(E[old]) = entry[old].size /\ Size(E[old]) \in Nat
    BY <1>7, <2>2, <2>4, <2>11, <2>12, SizeIs
  <2>15. Bytes(entry') \in Nat
    BY <2>11, BytesTotal
  <2>16. currentSize' = Bytes(entry') /\ currentSize' \in Nat /\ currentSize' <= currentSize + c.size
    BY <1>1, <1>5, <1>8, <2>3, <2>13, <2>14, <2>15
  <2>17. Agree(entry', lru', tableByName', Fronted(Dropped(s, k), e)) /\ numEntries' = Len(Fronted(Dropped(s, k), e))
    BY <1>1, <2>3, <2>8, <2>9, <2>10
  <2>18. Listed(Fronted(Dropped(s, k), e))'
    BY <2>16, <2>17 DEF Listed
  <2>19. InsertedFor(s, c, e, k)
    BY <2>1, <2>2, <2>3, <2>6, <2>18 DEF InsertedFor, old
  <2>20. QED
    BY <1>3, <1>4, <2>16, <2>19
<1>12. QED
  BY <1>10, <1>11

LEMMA InitStoreInv == Init => StoreInv
<1> SUFFICES ASSUME Init
             PROVE  StoreInv
  OBVIOUS
<1>1. /\ entry = [e \in Entry |-> None] /\ lru = EmptyList
      /\ tableByName = [n \in Name |-> None] /\ currentSize = 0 /\ numEntries = 0
      /\ maxSize \in Capacity /\ now = 0 /\ putting = None
  BY DEF Init
<1>2. Agree(entry, lru, tableByName, <<>>)
  BY <1>1, AgreeEmpty
<1>3. Bytes(entry) = 0
  <2>1. entry \in Stored /\ \A e \in Entry : entry[e] = None
    BY <1>1 DEF Stored
  <2>2. QED
    BY <2>1, BytesTotal
<1>4. Listed(<<>>)
  BY <1>1, <1>2, <1>3 DEF Listed
<1>5. Limits
  <2>1. maxSize \in Nat /\ 0 \in 0 .. MaxTime /\ putting \in Content \cup {None}
    BY <1>1, ContentAssumption
  <2>2. QED
    BY <1>1, <2>1 DEF Limits
<1>6. QED
  BY <1>4, <1>5 DEF StoreInv

(* The limits are kept where the store gets smaller.                       *)
LEMMA LimitsKept ==
  ASSUME Limits, UNCHANGED <<maxSize, now, putting>>, currentSize \in Nat,
         currentSize' \in Nat, currentSize' <= currentSize
  PROVE  Limits'
<1>1. maxSize \in Nat
  BY Largest DEF Limits
<1>2. currentSize' <= maxSize
  BY <1>1 DEF Limits
<1>3. QED
  BY <1>2 DEF Limits

LEMMA ListedKept ==
  ASSUME NEW s, Listed(s), UNCHANGED <<entry, lru, tableByName, currentSize, numEntries>>
  PROVE  Listed(s)'
  BY DEF Listed

(* An entry that exists can be purged.                                     *)
LEMMA PurgeStoreInv ==
  ASSUME StoreInv, NEW e \in Entry, entry[e] # None, Purge(e), UNCHANGED <<maxSize, now, putting>>
  PROVE  StoreInv'
<1>1. PICK s : Listed(s)
  BY DEF StoreInv
<1>2. PICK k \in 1 .. Len(s) : s[k] = e
  BY <1>1, InUse DEF Listed
<1>3. /\ Listed(Dropped(s, k))'
      /\ currentSize \in Nat /\ currentSize' \in Nat /\ currentSize' <= currentSize
  BY <1>1, <1>2, PurgeKeeps
<1>4. Limits'
  BY <1>3, LimitsKept DEF StoreInv
<1>5. QED
  BY <1>3, <1>4 DEF StoreInv

LEMMA InsertStoreInv ==
  ASSUME StoreInv, NEW c \in Content, Fits(c), Insert(c), UNCHANGED <<maxSize, now>>,
         putting' = None
  PROVE  StoreInv'
<1>1. PICK s : Listed(s)
  BY DEF StoreInv
<1>2. PICK e \in Entry : \/ InsertedNew(s, c, e)
                         \/ \E k \in 1 .. Len(s) : InsertedFor(s, c, e, k)
  BY <1>1, InsertKeeps DEF StoreInv
<1>3. \E t : Listed(t)'
  BY <1>2 DEF InsertedNew, InsertedFor
<1>4. Limits'
  <2>1. currentSize' \in Nat /\ currentSize' <= currentSize + c.size
    BY <1>1, InsertKeeps DEF StoreInv
  <2>2. maxSize \in Nat /\ c.size \in Nat /\ currentSize \in Nat
    BY <1>1, Largest, ContentAssumption, BytesTotal DEF StoreInv, Limits, Listed, Agree
  <2>3. currentSize' <= maxSize
    BY <2>1, <2>2 DEF Fits
  <2>4. QED
    BY <2>3 DEF StoreInv, Limits
<1>5. QED
  BY <1>3, <1>4 DEF StoreInv

(* What the list ends with, and what the index finds, exists.              *)
LEMMA LeastUsedIs ==
  ASSUME NEW s, Listed(s), LeastUsed # None
  PROVE  Len(s) \in 1 .. Len(s) /\ LeastUsed = s[Len(s)]
<1>1. Each(s) /\ Linked(lru, s) /\ Len(s) \in Nat
  BY InUse DEF Listed, Agree
<1>2. lru.tail = IF Len(s) = 0 THEN None ELSE s[Len(s)]
  BY <1>1, LinkedAt
<1>3. QED
  BY <1>1, <1>2 DEF LeastUsed

LEMMA FoundIs ==
  ASSUME StoreInv, NEW n \in Name, tableByName[n] # None
  PROVE  /\ tableByName[n] \in Entry /\ entry[tableByName[n]] # None
         /\ entry[tableByName[n]].name = n
  BY DEF StoreInv, Listed, Agree, Pointer

LEMMA EarliestExists ==
  ASSUME NEW e \in Earliest
  PROVE  e \in Entry /\ entry[e] # None /\ entry[e].expiry # None
  BY DEF Earliest, Used

LEMMA NextStoreInv == StoreInv /\ [Next]_vars => StoreInv'
<1> SUFFICES ASSUME StoreInv, [Next]_vars
             PROVE  StoreInv'
  OBVIOUS
<1>1. PICK s : Listed(s)
  BY DEF StoreInv
<1>2. Limits /\ Len(s) \in Nat
  BY <1>1, InUse DEF StoreInv, Listed
<1>3. ASSUME NEW c \in Content, PutRefused(c)
      PROVE  StoreInv'
  <2>1. UNCHANGED <<entry, lru, tableByName, currentSize, numEntries, maxSize, now, putting>>
    BY <1>3 DEF PutRefused
  <2>2. Listed(s)' /\ Limits'
    BY <1>1, <1>2, <2>1, ListedKept DEF Limits
  <2>3. QED
    BY <2>2 DEF StoreInv
<1>4. ASSUME NEW c \in Content, Put(c)
      PROVE  StoreInv'
  <2>1. Fits(c) /\ Insert(c) /\ UNCHANGED <<maxSize, now>> /\ putting' = None
    BY <1>4 DEF Put
  <2>2. QED
    BY <2>1, InsertStoreInv
<1>5. ASSUME NEW c \in Content, PutMakesRoom(c)
      PROVE  StoreInv'
  <2>1. /\ ~Uncacheable(c) /\ ~Impossible(c) /\ putting' = c
        /\ UNCHANGED <<entry, lru, tableByName, currentSize, numEntries, maxSize, now>>
    BY <1>5 DEF PutMakesRoom
  <2>2. Listed(s)'
    BY <1>1, <2>1, ListedKept
  <2>3. maxSize \in Nat /\ now \in Nat /\ c.size \in Nat /\ (c.expiry # None => c.expiry \in Nat)
    BY <1>2, ContentAssumption DEF Limits
  <2>4. c.size <= maxSize /\ (c.expiry # None => c.expiry > now)
    BY <2>1, <2>3 DEF Uncacheable, Impossible
  <2>5. Limits'
    BY <1>2, <2>1, <2>4 DEF Limits
  <2>6. QED
    BY <2>2, <2>5 DEF StoreInv
<1>6. ASSUME EvictExpired
      PROVE  StoreInv'
  <2>1. PICK e \in Earliest : Purge(e)
    BY <1>6 DEF EvictExpired
  <2>2. QED
    BY <1>6, <2>1, EarliestExists, PurgeStoreInv DEF EvictExpired
<1>7. ASSUME EvictLeastUsed
      PROVE  StoreInv'
  <2>1. LeastUsed # None /\ Purge(LeastUsed) /\ UNCHANGED <<maxSize, now, putting>>
    BY <1>7 DEF EvictLeastUsed
  <2>2. LeastUsed = s[Len(s)] /\ s[Len(s)] \in Entry /\ entry[s[Len(s)]] # None
    BY <1>1, <2>1, LeastUsedIs, InUse DEF Listed
  <2>3. PICK e \in Entry : e = LeastUsed
    BY <2>2
  <2>4. QED
    BY <2>1, <2>2, <2>3, PurgeStoreInv
<1>8. ASSUME PutAfterRoom
      PROVE  StoreInv'
  <2>1. PICK c \in Content : c = putting
    BY <1>2, <1>8 DEF PutAfterRoom, Limits
  <2>2. Insert(c) /\ ~NeedsRoom /\ UNCHANGED <<maxSize, now>> /\ putting' = None
    BY <1>8, <2>1 DEF PutAfterRoom
  <2>3. c.size \in Nat /\ maxSize \in Nat /\ currentSize \in Nat
    BY <1>1, <1>2, Largest, ContentAssumption, BytesTotal DEF Limits, Listed, Agree
  <2>4. Fits(c)
    BY <2>1, <2>2, <2>3 DEF NeedsRoom, Fits
  <2>5. QED
    BY <2>2, <2>4, InsertStoreInv
<1>9. ASSUME PutFails
      PROVE  StoreInv'
  <2>1. UNCHANGED <<entry, lru, tableByName, currentSize, numEntries, maxSize, now>> /\ putting' = None
    BY <1>9 DEF PutFails
  <2>2. Listed(s)' /\ Limits'
    BY <1>1, <1>2, <2>1, ListedKept DEF Limits
  <2>3. QED
    BY <2>2 DEF StoreInv
<1>10. ASSUME NEW i \in Interest, GetMatch(i)
       PROVE  StoreInv'
  <2>0. PICK n \in Name : n = i.name
    BY InterestAssumption
  <2>1. UNCHANGED <<maxSize, now, putting>>
    BY <1>10 DEF GetMatch
  <2>2. CASE tableByName[n] = None
    <3>1. UNCHANGED <<entry, lru, tableByName, currentSize, numEntries>>
      BY <1>10, <2>0, <2>2 DEF GetMatch, Found
    <3>2. Listed(s)' /\ Limits'
      BY <1>1, <1>2, <2>1, <3>1, ListedKept DEF Limits
    <3>3. QED
      BY <3>2 DEF StoreInv
  <2>3. CASE tableByName[n] # None
    <3>1. PICK e \in Entry : e = tableByName[n] /\ entry[e] # None
      BY <2>3, FoundIs
    <3>2. CASE Purge(e)
      BY <2>1, <3>1, <3>2, PurgeStoreInv
    <3>3. CASE lru' = MoveToHead(lru, e) /\ UNCHANGED <<entry, tableByName, currentSize, numEntries>>
      <4>1. PICK k \in 1 .. Len(s) : s[k] = e
        BY <1>1, <3>1, InUse DEF Listed
      <4>2. Agree(entry, lru', tableByName, Moved(s, k))
        BY <1>1, <3>3, <4>1, AgreeMoved DEF Listed
      <4>3. Len(Moved(s, k)) = Len(s)
        BY <1>1, MovedIs DEF Listed, Agree
      <4>4. Listed(Moved(s, k))'
        BY <1>1, <3>3, <4>2, <4>3 DEF Listed
      <4>5. Limits'
        BY <1>2, <2>1, <3>3 DEF Limits
      <4>6. QED
        BY <4>4, <4>5 DEF StoreInv
    <3>4. QED
      BY <1>10, <2>0, <2>3, <3>1, <3>2, <3>3 DEF GetMatch, Found
  <2>4. QED
    BY <2>2, <2>3
<1>11. ASSUME NEW i \in Interest, RemoveMatch(i)
       PROVE  StoreInv'
  <2>0. PICK n \in Name : n = i.name
    BY InterestAssumption
  <2>1. UNCHANGED <<maxSize, now, putting>>
    BY <1>11 DEF RemoveMatch
  <2>2. CASE tableByName[n] = None
    <3>1. UNCHANGED <<entry, lru, tableByName, currentSize, numEntries>>
      BY <1>11, <2>0, <2>2 DEF RemoveMatch, Found
    <3>2. Listed(s)' /\ Limits'
      BY <1>1, <1>2, <2>1, <3>1, ListedKept DEF Limits
    <3>3. QED
      BY <3>2 DEF StoreInv
  <2>3. CASE tableByName[n] # None
    <3>1. PICK e \in Entry : e = tableByName[n] /\ entry[e] # None
      BY <2>3, FoundIs
    <3>2. Purge(e)
      BY <1>11, <2>0, <2>3, <3>1 DEF RemoveMatch, Found
    <3>3. QED
      BY <2>1, <3>1, <3>2, PurgeStoreInv
  <2>4. QED
    BY <2>2, <2>3
<1>12. ASSUME NEW size \in Capacity, SetCapacity(size)
       PROVE  StoreInv'
  <2>1. /\ maxSize' = size /\ entry' = [e \in Entry |-> None] /\ lru' = EmptyList
        /\ tableByName' = [n \in Name |-> None] /\ currentSize' = 0 /\ numEntries' = 0
        /\ putting' = None /\ now' = now
    BY <1>12 DEF SetCapacity
  <2>2. Agree(entry', lru', tableByName', <<>>)
    BY <2>1, AgreeEmpty
  <2>3. Bytes(entry') = 0
    <3>1. entry' \in Stored /\ \A e \in Entry : entry'[e] = None
      BY <2>1 DEF Stored
    <3>2. QED
      BY <3>1, BytesTotal
  <2>4. Listed(<<>>)'
    BY <2>1, <2>2, <2>3 DEF Listed
  <2>5. Limits'
    <3>1. size \in Nat
      BY ContentAssumption
    <3>2. QED
      BY <1>2, <2>1, <3>1 DEF Limits
  <2>6. QED
    BY <2>4, <2>5 DEF StoreInv
<1>13. ASSUME Tick
       PROVE  StoreInv'
  <2>1. /\ UNCHANGED <<entry, lru, tableByName, currentSize, numEntries, maxSize, putting>>
        /\ putting = None /\ now' = now + 1 /\ now < MaxTime
    BY <1>13 DEF Tick
  <2>2. Listed(s)' /\ Limits'
    BY <1>1, <1>2, <2>1, ListedKept, ContentAssumption DEF Limits
  <2>3. QED
    BY <2>2 DEF StoreInv
<1>14. ASSUME UNCHANGED vars
       PROVE  StoreInv'
  <2>1. Listed(s)' /\ Limits'
    BY <1>1, <1>2, <1>14, ListedKept DEF Limits, vars
  <2>2. QED
    BY <2>1 DEF StoreInv
<1>15. QED
  BY <1>3, <1>4, <1>5, <1>6, <1>7, <1>8, <1>9, <1>10, <1>11, <1>12, <1>13, <1>14 DEF Next

(* List, index and byte count tell of the same entries.                    *)
THEOREM StoreInvariant == Spec => []StoreInv
<1>1. StoreInv /\ [Next]_vars => StoreInv'
  BY NextStoreInv
<1>2. QED
  BY InitStoreInv, <1>1, PTL DEF Spec

(***************************************************************************)
(* The order of the list                                                   *)
(***************************************************************************)

(* From the head along the pointers, Order is the sequence of the list.    *)
LEMMA OrderIs ==
  ASSUME NEW s, Listed(s)
  PROVE  Order = s
<1> DEFINE F(f) == f = [n \in 1 .. numEntries |->
                          IF n = 1 THEN lru.head
                          ELSE IF f[n - 1] = None THEN None ELSE lru.next[f[n - 1]]]
<1>1. /\ Each(s) /\ Linked(lru, s) /\ numEntries = Len(s) /\ Len(s) \in Nat
      /\ \A i \in 1 .. Len(s) : s[i] # None
  BY InUse DEF Listed, Agree
<1>2. /\ lru.head = IF Len(s) = 0 THEN None ELSE s[1]
      /\ \A i \in 1 .. Len(s) : lru.next[s[i]] = IF i = Len(s) THEN None ELSE s[i + 1]
  BY <1>1, LinkedAt
<1>3. F(s)
  <2>1. ASSUME NEW n \in 1 .. Len(s)
        PROVE  s[n] = IF n = 1 THEN lru.head
                      ELSE IF s[n - 1] = None THEN None ELSE lru.next[s[n - 1]]
    <3>1. CASE n = 1
      BY <1>1, <1>2, <3>1
    <3>2. CASE n # 1
      <4>1. n - 1 \in 1 .. Len(s) /\ n - 1 # Len(s) /\ (n - 1) + 1 = n
        BY <1>1, <3>2
      <4>2. lru.next[s[n - 1]] = s[n] /\ s[n - 1] # None
        BY <1>1, <1>2, <4>1
      <4>3. QED
        BY <3>2, <4>2
    <3>3. QED
      BY <3>1, <3>2
  <2>2. s = [n \in 1 .. Len(s) |-> s[n]]
    BY <1>1, EachAt
  <2>3. QED
    BY <1>1, <2>1, <2>2
<1>4. ASSUME NEW f, F(f)
      PROVE  f = s
  <2> DEFINE S == {n \in Nat : n \in 1 .. Len(s) => f[n] = s[n]}
  <2>0. \A n \in 1 .. Len(s) : f[n] = IF n = 1 THEN lru.head
                                      ELSE IF f[n - 1] = None THEN None ELSE lru.next[f[n - 1]]
    BY <1>1, <1>4
  <2>1. 0 \in S
    OBVIOUS
  <2>2. ASSUME NEW n \in Nat, n \in S
        PROVE  n + 1 \in S
    <3> SUFFICES ASSUME n + 1 \in 1 .. Len(s)
                 PROVE  f[n + 1] = s[n + 1]
      OBVIOUS
    <3>1. CASE n = 0
      BY <1>2, <2>0, <3>1
    <3>2. CASE n # 0
      <4>1. n \in 1 .. Len(s) /\ n # Len(s) /\ (n + 1) - 1 = n /\ n + 1 # 1
        BY <1>1, <3>2
      <4>2. f[n] = s[n] /\ s[n] # None
        BY <1>1, <2>2, <4>1
      <4>3. f[n + 1] = lru.next[s[n]]
        BY <2>0, <4>1, <4>2
      <4>4. QED
        BY <1>2, <4>1, <4>3
    <3>3. QED
      BY <3>1, <3>2
  <2>3. \A n \in 1 .. Len(s) : n \in S
    <3> HIDE DEF S
    <3>1. QED
      BY <2>1, <2>2, SetInduction
  <2>4. \A n \in 1 .. Len(s) : f[n] = s[n]
    BY <2>3
  <2>5. f = [n \in 1 .. Len(s) |-> f[n]]
    BY <1>1, <1>4
  <2>6. s = [n \in 1 .. Len(s) |-> s[n]]
    BY <1>1, EachAt
  <2> HIDE DEF F
  <2>7. QED
    BY <2>4, <2>5, <2>6
<1> DEFINE K == CHOOSE f : F(f)
<1>5. F(K)
  <2> HIDE DEF F
  <2>1. QED
    BY <1>3
<1>6. Order = K
  BY DEF Order
<1> HIDE DEF F, K
<1>7. QED
  BY <1>4, <1>5, <1>6

LEMMA AgreementHolds == StoreInv => TypeOK /\ ListIndexAndSizeAgree
<1> SUFFICES ASSUME StoreInv
             PROVE  TypeOK /\ ListIndexAndSizeAgree
  OBVIOUS
<1>1. PICK s : Listed(s)
  BY DEF StoreInv
<1>2. /\ entry \in Stored /\ tableByName \in [Name -> Pointer]
      /\ Each(s) /\ Members(s) = {e \in Entry : entry[e] # None} /\ Linked(lru, s)
      /\ numEntries = Len(s) /\ currentSize = Bytes(entry)
      /\ \A n \in Name : tableByName[n] # None =>
           entry[tableByName[n]] # None /\ entry[tableByName[n]].name = n
  BY <1>1 DEF Listed, Agree
<1>3. Order = s /\ Len(s) \in Nat /\ DOMAIN s = 1 .. Len(s)
  BY <1>1, <1>2, OrderIs, EachAt
<1>4. Members(s) = Used /\ IsFiniteSet(Used) /\ Cardinality(Used) = Len(s)
  BY <1>2, MembersCount DEF Used
<1>5. Cardinality(Used) <= Max(Capacity)
  <2>1. IsFiniteSet(Entry) /\ Cardinality(Entry) = Max(Capacity)
    BY Largest, FS_Interval
  <2>2. QED
    BY <2>1, FS_Subset DEF Used
<1>6. Limits
  BY DEF StoreInv
<1>7. TypeOK
  <2>1. lru \in [head : Pointer, tail : Pointer, next : [Entry -> Pointer], prev : [Entry -> Pointer]]
    BY <1>2 DEF Linked, List
  <2>2. currentSize \in Nat
    BY <1>2, BytesTotal
  <2>3. numEntries \in 0 .. Max(Capacity)
    BY <1>2, <1>3, <1>4, <1>5, Largest
  <2>4. QED
    BY <1>2, <1>6, <2>1, <2>2, <2>3 DEF TypeOK, Stored, Limits
<1>8. WellLinked
  <2>1. {Order[i] : i \in DOMAIN Order} = Used
    BY <1>3, <1>4 DEF Members
  <2>2. /\ lru.head = There(s, 1) /\ lru.tail = There(s, Len(s))
        /\ \A i \in 1 .. Len(s) : lru.next[s[i]] = There(s, i + 1) /\ lru.prev[s[i]] = There(s, i - 1)
    BY <1>2 DEF Linked
  <2>3. QED
    BY <1>2, <1>3, <1>4, <2>1, <2>2 DEF WellLinked, There
<1>9. IndexIsListed
  BY <1>2 DEF IndexIsListed, Used, Pointer
<1>10. SizeIsCounted
  BY <1>2, <1>6 DEF SizeIsCounted, Limits
<1>11. QED
  BY <1>7, <1>8, <1>9, <1>10 DEF ListIndexAndSizeAgree

(* The variables keep their types, the number of entries their bound.      *)
THEOREM TypeCorrect == Spec => []TypeOK
BY StoreInvariant, AgreementHolds, PTL

(* Whatever is put, found, removed, evicted and cleared, the list has each *)
(* entry once, backwards as forwards; the index finds only entries that    *)
(* exist, by their name; and the byte count is that of the entries, within *)
(* the limit.                                                              *)
THEOREM StoreAlwaysAgrees == Spec => []ListIndexAndSizeAgree
BY StoreInvariant, AgreementHolds, PTL

(***************************************************************************)
(* The store is a cache that may forget                                    *)
(***************************************************************************)

LEMMA AppendIs ==
  ASSUME NEW S, NEW m \in Nat, NEW f \in [1 .. m -> S], NEW g \in [1 .. m + 1 -> S],
         \A i \in 1 .. m : g[i] = f[i]
  PROVE  Append(f, g[m + 1]) = g
<1>1. f \in Seq(S) /\ Len(f) = m
  BY SequenceOf
<1>2. g \in Seq(S) /\ Len(g) = m + 1
  <2>1. m + 1 \in Nat
    OBVIOUS
  <2>2. QED
    BY <2>1, SequenceOf
<1>3. g[m + 1] \in S
  OBVIOUS
<1> DEFINE a == Append(f, g[m + 1])
<1>4. /\ a \in Seq(S) /\ Len(a) = m + 1 /\ a[m + 1] = g[m + 1]
      /\ \A i \in 1 .. m : a[i] = f[i]
  BY <1>1, <1>3, AppendProperties
<1> HIDE DEF a
<1>5. ASSUME NEW i \in 1 .. m + 1
      PROVE  a[i] = g[i]
  <2>1. i = m + 1 \/ i \in 1 .. m
    OBVIOUS
  <2>2. QED
    BY <1>4, <2>1
<1>6. a = g
  BY <1>2, <1>4, <1>5, SeqEqual
<1>7. QED
  BY <1>6 DEF a

LEMMA FrontedConcat ==
  ASSUME NEW s, Each(s), NEW e \in Entry
  PROVE  <<e>> \o s = Fronted(s, e)
<1> DEFINE t == <<e>> \o s
           f == Fronted(s, e)
<1>1. s \in Seq(Entry) /\ Len(s) \in Nat /\ \A i \in 1 .. Len(s) : s[i] \in Entry
  BY EachAt DEF Each
<1>2. <<e>> \in Seq(Entry) /\ Len(<<e>>) = 1 /\ <<e>>[1] = e
  OBVIOUS
<1>3. /\ t \in Seq(Entry) /\ Len(t) = Len(s) + 1
      /\ \A i \in 1 .. Len(s) + 1 : t[i] = IF i <= 1 THEN e ELSE s[i - 1]
  <2>1. /\ t \in Seq(Entry) /\ Len(t) = Len(<<e>>) + Len(s)
        /\ \A i \in 1 .. Len(<<e>>) + Len(s) :
             t[i] = IF i <= Len(<<e>>) THEN <<e>>[i] ELSE s[i - Len(<<e>>)]
    BY <1>1, <1>2, ConcatProperties
  <2> HIDE DEF t
  <2>2. \A i \in 1 .. 1 + Len(s) : t[i] = IF i <= 1 THEN <<e>>[i] ELSE s[i - 1]
    BY <1>2, <2>1
  <2>3. \A i \in 1 .. Len(s) + 1 : i <= 1 => i = 1
    BY <1>1
  <2>4. Len(s) + 1 = 1 + Len(s)
    BY <1>1
  <2>5. QED
    BY <1>2, <2>1, <2>2, <2>3, <2>4
<1>4. \A i \in 1 .. Len(s) + 1 : f[i] = IF i = 1 THEN e ELSE s[i - 1]
  BY DEF Fronted
<1>5. \A i \in 1 .. Len(s) + 1 : i # 1 => i - 1 \in 1 .. Len(s)
  BY <1>1
<1>6. f \in [1 .. Len(s) + 1 -> Entry]
  <2>1. \A i \in 1 .. Len(s) + 1 : (IF i = 1 THEN e ELSE s[i - 1]) \in Entry
    BY <1>1, <1>5
  <2>2. QED
    BY <2>1 DEF Fronted
<1> HIDE DEF t, f
<1>7. f \in Seq(Entry) /\ Len(f) = Len(s) + 1
  <2>1. Len(s) + 1 \in Nat
    BY <1>1
  <2>2. QED
    BY <1>6, <2>1, SequenceOf
<1>8. \A i \in 1 .. Len(s) + 1 : t[i] = f[i]
  BY <1>1, <1>3, <1>4
<1>9. t = f
  BY <1>3, <1>7, <1>8, SeqEqual
<1>10. QED
  BY <1>9 DEF t, f

(* A function that follows the recursion of Without ends with its result.  *)
LEMMA WithoutIs ==
  ASSUME NEW s, Len(s) \in Nat, NEW S, NEW F,
         F = [n \in 0 .. Len(s) |->
                IF n = 0 THEN <<>>
                ELSE IF s[n] \in S THEN F[n - 1] ELSE Append(F[n - 1], s[n])]
  PROVE  Cache!Without(s, S) = F[Len(s)]
<1> DEFINE P(f) == f = [n \in 0 .. Len(s) |->
                          IF n = 0 THEN <<>>
                          ELSE IF s[n] \in S THEN f[n - 1] ELSE Append(f[n - 1], s[n])]
           K == CHOOSE f : P(f)
<1>1. P(K)
  <2>1. P(F)
    OBVIOUS
  <2> HIDE DEF P
  <2>2. QED
    BY <2>1
<1>2. Cache!Without(s, S) = K[Len(s)]
  BY DEF Cache!Without
<1> HIDE DEF K
<1>3. \A n \in 0 .. Len(s) :
        /\ K[n] = IF n = 0 THEN <<>> ELSE IF s[n] \in S THEN K[n - 1] ELSE Append(K[n - 1], s[n])
        /\ F[n] = IF n = 0 THEN <<>> ELSE IF s[n] \in S THEN F[n - 1] ELSE Append(F[n - 1], s[n])
  <2>1. \A n \in 0 .. Len(s) :
          K[n] = IF n = 0 THEN <<>> ELSE IF s[n] \in S THEN K[n - 1] ELSE Append(K[n - 1], s[n])
    BY <1>1
  <2>2. \A n \in 0 .. Len(s) :
          F[n] = IF n = 0 THEN <<>> ELSE IF s[n] \in S THEN F[n - 1] ELSE Append(F[n - 1], s[n])
    OBVIOUS
  <2>3. QED
    BY <2>1, <2>2
<1> DEFINE Same == {n \in Nat : n \in 0 .. Len(s) => K[n] = F[n]}
<1>4. 0 \in Same
  BY <1>3
<1>5. ASSUME NEW n \in Nat, n \in Same
      PROVE  n + 1 \in Same
  <2> SUFFICES ASSUME n + 1 \in 0 .. Len(s)
               PROVE  K[n + 1] = F[n + 1]
    OBVIOUS
  <2>1. n \in 0 .. Len(s) /\ (n + 1) - 1 = n /\ n + 1 # 0
    OBVIOUS
  <2>2. K[n] = F[n]
    BY <1>5, <2>1
  <2>3. QED
    BY <1>3, <2>1, <2>2
<1>6. Len(s) \in Same
  <2> HIDE DEF Same
  <2>1. QED
    BY <1>4, <1>5, SetInduction
<1>7. K[Len(s)] = F[Len(s)]
  BY <1>6
<1>8. QED
  BY <1>2, <1>7

(* What is left of the first n of s when the one at place k is dropped.    *)
Left(s, k, n) ==
  [i \in 1 .. (IF n < k THEN n ELSE n - 1) |-> IF i < k THEN s[i] ELSE s[i + 1]]

LEMMA WithoutAt ==
  ASSUME NEW s, Each(s), NEW k \in 1 .. Len(s) + 1, NEW S,
         \A i \in 1 .. Len(s) : s[i] \in S <=> i = k
  PROVE  Cache!Without(s, S) = Left(s, k, Len(s))
<1> DEFINE F == [n \in 0 .. Len(s) |-> Left(s, k, n)]
<1>1. Len(s) \in Nat /\ \A i \in 1 .. Len(s) : s[i] \in Entry
  BY EachAt
<1>2. Left(s, k, 0) = <<>>
  <2>1. Left(s, k, 0) \in [1 .. 0 -> Entry]
    BY <1>1 DEF Left
  <2>2. Left(s, k, 0) \in Seq(Entry) /\ Len(Left(s, k, 0)) = 0
    BY <2>1, SequenceOf
  <2>3. QED
    BY <2>2, EmptySeq
<1>3. ASSUME NEW n \in 1 .. Len(s)
      PROVE  Left(s, k, n) = IF s[n] \in S THEN Left(s, k, n - 1) ELSE Append(Left(s, k, n - 1), s[n])
  <2> DEFINE f == Left(s, k, n - 1)
             g == Left(s, k, n)
  <2>1. CASE n = k
    <3>1. n - 1 < k /\ ~(n < k)
      BY <1>1, <2>1
    <3>2. f = g
      BY <3>1 DEF Left
    <3>3. QED
      BY <2>1, <3>2
  <2>2. CASE n < k
    <3> DEFINE m == n - 1
    <3>1. m \in Nat /\ m + 1 = n /\ m < k /\ n # k
      BY <1>1, <2>2
    <3>2. f = [i \in 1 .. m |-> IF i < k THEN s[i] ELSE s[i + 1]]
      BY <3>1 DEF Left
    <3>3. g = [i \in 1 .. m + 1 |-> IF i < k THEN s[i] ELSE s[i + 1]]
      BY <2>2, <3>1 DEF Left
    <3>4. \A i \in 1 .. m + 1 : i < k /\ i \in 1 .. Len(s)
      BY <1>1, <2>2
    <3> HIDE DEF f, g, m
    <3>5. f \in [1 .. m -> Entry] /\ g \in [1 .. m + 1 -> Entry]
      BY <1>1, <3>1, <3>2, <3>3, <3>4
    <3>6. (\A i \in 1 .. m : g[i] = f[i]) /\ g[m + 1] = s[n]
      BY <3>1, <3>2, <3>3, <3>4
    <3>7. Append(f, s[n]) = g
      BY <3>1, <3>5, <3>6, AppendIs
    <3>8. QED
      BY <3>1, <3>7 DEF f, g
  <2>3. CASE n > k
    <3> DEFINE m == n - 2
    <3>1. m \in Nat /\ m + 1 = n - 1 /\ (n - 1) - 1 = m /\ ~(n - 1 < k) /\ ~(n < k) /\ n # k
          /\ ~(m + 1 < k) /\ (m + 1) + 1 = n
      BY <1>1, <2>3
    <3>2. f = [i \in 1 .. m |-> IF i < k THEN s[i] ELSE s[i + 1]]
      BY <3>1 DEF Left
    <3>3. g = [i \in 1 .. m + 1 |-> IF i < k THEN s[i] ELSE s[i + 1]]
      BY <3>1 DEF Left
    <3>4. \A i \in 1 .. m + 1 : i \in 1 .. Len(s) /\ i + 1 \in 1 .. Len(s)
      BY <1>1, <2>3
    <3> HIDE DEF f, g, m
    <3>5. f \in [1 .. m -> Entry] /\ g \in [1 .. m + 1 -> Entry]
      BY <1>1, <3>1, <3>2, <3>3, <3>4
    <3>6. (\A i \in 1 .. m : g[i] = f[i]) /\ g[m + 1] = s[n]
      BY <3>1, <3>2, <3>3, <3>4
    <3>7. Append(f, s[n]) = g
      BY <3>1, <3>5, <3>6, AppendIs
    <3>8. QED
      BY <3>1, <3>7 DEF f, g
  <2>4. QED
    BY <1>1, <2>1, <2>2, <2>3
<1>4. F = [n \in 0 .. Len(s) |->
             IF n = 0 THEN <<>>
             ELSE IF s[n] \in S THEN F[n - 1] ELSE Append(F[n - 1], s[n])]
  <2>1. ASSUME NEW n \in 0 .. Len(s)
        PROVE  F[n] = IF n = 0 THEN <<>>
                      ELSE IF s[n] \in S THEN F[n - 1] ELSE Append(F[n - 1], s[n])
    <3>1. CASE n = 0
      BY <1>1, <1>2, <3>1
    <3>2. CASE n # 0
      <4>1. n \in 1 .. Len(s) /\ n - 1 \in 0 .. Len(s)
        BY <1>1, <3>2
      <4>2. F[n] = Left(s, k, n) /\ F[n - 1] = Left(s, k, n - 1)
        BY <4>1
      <4> HIDE DEF F
      <4>3. QED
        BY <1>3, <3>2, <4>1, <4>2
    <3>3. QED
      BY <3>1, <3>2
  <2>2. F = [n \in 0 .. Len(s) |-> F[n]]
    OBVIOUS
  <2> HIDE DEF F
  <2>3. QED
    BY <2>1, <2>2
<1>5. F[Len(s)] = Left(s, k, Len(s))
  BY <1>1
<1> HIDE DEF F
<1>6. QED
  BY <1>1, <1>4, <1>5, WithoutIs

LEMMA WithoutOne ==
  ASSUME NEW s, Each(s), NEW k \in 1 .. Len(s)
  PROVE  Cache!Without(s, {s[k]}) = Dropped(s, k)
<1>1. Len(s) \in Nat /\ k \in 1 .. Len(s) + 1 /\ ~(Len(s) < k)
  BY EachAt
<1>2. \A i \in 1 .. Len(s) : s[i] \in {s[k]} <=> i = k
  BY DEF Each
<1>3. Cache!Without(s, {s[k]}) = Left(s, k, Len(s))
  BY <1>1, <1>2, WithoutAt
<1>4. QED
  BY <1>1, <1>3 DEF Left, Dropped

LEMMA WithoutNone ==
  ASSUME NEW s, Each(s)
  PROVE  Cache!Without(s, {}) = s
<1> DEFINE k == Len(s) + 1
<1>1. Len(s) \in Nat /\ k \in 1 .. Len(s) + 1 /\ Len(s) < k /\ \A i \in 1 .. Len(s) : i < k
  BY EachAt
<1>2. \A i \in 1 .. Len(s) : s[i] \in {} <=> i = k
  BY <1>1
<1>3. s = [i \in 1 .. Len(s) |-> s[i]]
  BY EachAt
<1> HIDE DEF k
<1>4. Cache!Without(s, {}) = Left(s, k, Len(s))
  BY <1>1, <1>2, WithoutAt
<1>5. Left(s, k, Len(s)) = [i \in 1 .. Len(s) |-> s[i]]
  BY <1>1 DEF Left
<1>6. QED
  BY <1>3, <1>4, <1>5

(* What the index finds under a name is what the cache finds.              *)
LEMMA FindableNamed ==
  ASSUME StoreInv, NEW n \in Name
  PROVE  Findable \cap Cache!Named(n) = IF tableByName[n] = None THEN {} ELSE {tableByName[n]}
<1>1. \A o \in Findable \cap Cache!Named(n) : tableByName[n] = o /\ o # None
  BY Largest DEF Findable, Used, Cache!Named
<1>2. CASE tableByName[n] = None
  BY <1>1, <1>2
<1>3. CASE tableByName[n] # None
  <2>1. tableByName[n] \in Entry /\ entry[tableByName[n]] # None /\ entry[tableByName[n]].name = n
    BY <1>3, FoundIs
  <2>2. tableByName[n] \in Findable \cap Cache!Named(n)
    BY <2>1 DEF Findable, Used, Cache!Named
  <2>3. QED
    BY <1>1, <1>3, <2>2
<1>4. QED
  BY <1>2, <1>3

(* An entry that has a name is found by it, or not at all.                 *)
LEMMA Finds ==
  /\ \A x : x \in Findable <=> x \in Entry /\ entry[x] # None /\ tableByName[entry[x].name] = x
  /\ \A x : x \in Findable' <=> x \in Entry /\ entry'[x] # None /\ tableByName'[entry'[x].name] = x
BY DEF Findable, Used

(* The order before a step and after it. *)
LEMMA OrderAt ==
  /\ \A t : Listed(t) => Order = t
  /\ (\A t : Listed(t) => Order = t)'
<1>1. \A t : Listed(t) => Order = t
  BY OrderIs
<1>2. (\A t : Listed(t) => Order = t)'
  BY <1>1, PTL
<1>3. QED
  BY <1>1, <1>2

LEMMA CacheSame ==
  ASSUME NEW s, Listed(s), UNCHANGED <<entry, lru, tableByName, currentSize, numEntries>>
  PROVE  UNCHANGED <<Order, entry, Findable>>
<1>1. Listed(s)'
  BY ListedKept
<1>2. Order = s /\ Order' = s
  BY <1>1, OrderAt
<1>3. Findable' = Findable
  BY DEF Findable, Used
<1>4. QED
  BY <1>2, <1>3

(* To purge is to drop.                                                    *)
LEMMA CacheDrop ==
  ASSUME StoreInv, NEW e \in Entry, entry[e] # None, Purge(e)
  PROVE  Cache!Drop(e)
<1>1. PICK s : Listed(s)
  BY DEF StoreInv
<1>2. PICK k \in 1 .. Len(s) : s[k] = e
  BY <1>1, InUse DEF Listed
<1>3. /\ Listed(Dropped(s, k))'
      /\ entry' = [entry EXCEPT ![e] = None]
      /\ tableByName' = [tableByName EXCEPT ![entry[e].name] = None]
  BY <1>1, <1>2, PurgeKeeps
<1>4. /\ entry \in Stored /\ tableByName \in [Name -> Pointer] /\ Each(s)
      /\ entry[e].name \in Name
  BY <1>1, <1>2, InUse DEF Listed, Agree
<1>5. Order = s /\ Order' = Dropped(s, k)
  BY <1>1, <1>3, OrderAt
<1>6. Order' = Cache!Without(Order, {e})
  BY <1>2, <1>4, <1>5, WithoutOne
<1>7. entry'[e] = None /\ \A x \in Entry : x # e => entry'[x] = entry[x]
  BY <1>3, <1>4 DEF Stored
<1>8. /\ tableByName'[entry[e].name] = None
      /\ \A n : n # entry[e].name => (n \in Name => tableByName'[n] = tableByName[n])
  BY <1>3, <1>4
<1>9. \A x \in Entry : entry[x] # None => entry[x].name \in Name /\ x # None
  BY <1>4, ContentAssumption, Largest DEF Stored
<1>10. Findable' = Findable \ Cache!Named(entry[e].name)
  <2>1. ASSUME NEW x
        PROVE  x \in Findable' <=> x \in Findable \ Cache!Named(entry[e].name)
    <3>1. CASE x \notin Entry
      BY <3>1, Finds
    <3>2. CASE x \in Entry /\ entry[x] = None
      <4>1. entry'[x] = None
        BY <1>7, <3>2
      <4>2. QED
        BY <3>2, <4>1, Finds
    <3>3. CASE x \in Entry /\ x = e
      BY <1>7, <3>3, Finds DEF Cache!Named
    <3>4. CASE x \in Entry /\ entry[x] # None /\ x # e
      <4>1. entry'[x] = entry[x] /\ entry[x].name \in Name /\ x # None
        BY <1>7, <1>9, <3>4
      <4>2. CASE entry[x].name = entry[e].name
        BY <1>8, <3>4, <4>1, <4>2, Finds DEF Cache!Named
      <4>3. CASE entry[x].name # entry[e].name
        BY <1>8, <3>4, <4>1, <4>3, Finds DEF Cache!Named
      <4>4. QED
        BY <4>2, <4>3
    <3>5. QED
      BY <3>1, <3>2, <3>3, <3>4
  <2>2. QED
    BY <2>1
<1>11. QED
  BY <1>3, <1>6, <1>10 DEF Cache!Drop

(* To insert is to store.                                                  *)
LEMMA CacheStore ==
  ASSUME StoreInv, NEW c \in Content, Fits(c), Insert(c),
         c.expiry # None => c.expiry > now,
         reply' = Reply(<<"Put", c>>, TRUE), now' = now
  PROVE  \E o \in Entry : Cache!Store(c, o)
<1>1. PICK s : Listed(s)
  BY DEF StoreInv
<1>2. PICK e \in Entry : /\ entry[e] = None /\ e \notin Members(s)
                         /\ \/ InsertedNew(s, c, e)
                            \/ \E k \in 1 .. Len(s) : InsertedFor(s, c, e, k)
  BY <1>1, InsertKeeps DEF StoreInv
<1>3. /\ entry \in Stored /\ tableByName \in [Name -> Pointer] /\ Each(s) /\ c.name \in Name
      /\ c # None /\ e # None
  BY <1>1, ContentAssumption, Largest DEF Listed, Agree
<1>4. \A x \in Entry : entry[x] # None => entry[x].name \in Name /\ x # None
  BY <1>3, ContentAssumption, Largest DEF Stored
<1>5. Order = s
  BY <1>1, OrderAt
<1> DEFINE replaced == Findable \cap Cache!Named(c.name)
           kept     == Findable \ replaced
<1>6. replaced = IF tableByName[c.name] = None THEN {} ELSE {tableByName[c.name]}
  BY <1>3, FindableNamed
<1>7. reply' = Cache!Reply(<<"Put", c>>, TRUE)
  BY DEF Reply, Cache!Reply
<1>8. SUFFICES /\ Order' = <<e>> \o Cache!Without(Order, replaced)
               /\ entry' = [x \in Entry |-> IF x = e THEN c
                                            ELSE IF x \in replaced THEN None ELSE entry[x]]
               /\ \/ Findable' = kept \cup {e}
                  \/ replaced # {} /\ Findable' = kept
  <2>1. Cache!Store(c, e)
    BY <1>2, <1>7, <1>8 DEF Cache!Store
  <2>2. QED
    BY <2>1
<1> HIDE DEF replaced
<1>9. CASE InsertedNew(s, c, e)
  <2>1. /\ tableByName[c.name] = None /\ Listed(Fronted(s, e))'
        /\ entry' = [entry EXCEPT ![e] = c]
        /\ tableByName' = [tableByName EXCEPT ![c.name] = e]
    BY <1>9 DEF InsertedNew
  <2>2. replaced = {}
    BY <1>6, <2>1
  <2>3. Order' = <<e>> \o Cache!Without(Order, replaced)
    <3>1. Order' = Fronted(s, e)
      BY <2>1, OrderAt
    <3>2. QED
      BY <1>3, <1>5, <2>2, <3>1, FrontedConcat, WithoutNone
  <2>4. entry' = [x \in Entry |-> IF x = e THEN c ELSE IF x \in replaced THEN None ELSE entry[x]]
    BY <1>3, <2>1, <2>2 DEF Stored
  <2>5. entry'[e] = c /\ \A x \in Entry : x # e => entry'[x] = entry[x]
    BY <1>3, <2>1 DEF Stored
  <2>6. /\ tableByName'[c.name] = e
        /\ \A n : n # c.name => (n \in Name => tableByName'[n] = tableByName[n])
    BY <1>3, <2>1
  <2>7. Findable' = kept \cup {e}
    <3>1. ASSUME NEW x
          PROVE  x \in Findable' <=> x \in Findable \cup {e}
      <4>1. CASE x \notin Entry
        BY <4>1, Finds
      <4>2. CASE x = e
        BY <1>3, <2>5, <2>6, <4>2, Finds
      <4>3. CASE x \in Entry /\ x # e /\ entry[x] = None
        <5>1. entry'[x] = None
          BY <2>5, <4>3
        <5>2. QED
          BY <4>3, <5>1, Finds
      <4>4. CASE x \in Entry /\ x # e /\ entry[x] # None
        <5>1. entry'[x] = entry[x] /\ entry[x].name \in Name /\ x # None
          BY <1>4, <2>5, <4>4
        <5>2. CASE entry[x].name = c.name
          BY <2>1, <2>6, <4>4, <5>1, <5>2, Finds
        <5>3. CASE entry[x].name # c.name
          BY <2>6, <4>4, <5>1, <5>3, Finds
        <5>4. QED
          BY <5>2, <5>3
      <4>5. QED
        BY <4>1, <4>2, <4>3, <4>4
    <3>2. QED
      BY <2>2, <3>1
  <2>8. QED
    BY <2>3, <2>4, <2>7
<1>10. ASSUME NEW k \in 1 .. Len(s), InsertedFor(s, c, e, k)
       PROVE  /\ Order' = <<e>> \o Cache!Without(Order, replaced)
              /\ entry' = [x \in Entry |-> IF x = e THEN c
                                           ELSE IF x \in replaced THEN None ELSE entry[x]]
              /\ replaced # {} /\ Findable' = kept
  <2>1. /\ tableByName[c.name] = s[k] /\ entry[s[k]] # None /\ entry[s[k]].name = c.name
        /\ Listed(Fronted(Dropped(s, k), e))'
        /\ entry' = [entry EXCEPT ![e] = c, ![s[k]] = None]
        /\ tableByName' = [tableByName EXCEPT ![c.name] = None]
    BY <1>10 DEF InsertedFor
  <2>2. s[k] \in Entry /\ s[k] # None /\ s[k] # e
    BY <1>2, <1>3, <2>1, EachAt
  <2>3. replaced = {s[k]}
    BY <1>6, <2>1, <2>2
  <2>4. Order' = <<e>> \o Cache!Without(Order, replaced)
    <3>1. Order' = Fronted(Dropped(s, k), e)
      BY <2>1, OrderAt
    <3>2. Each(Dropped(s, k))
      BY <1>3, DroppedIs
    <3>3. Cache!Without(Order, replaced) = Dropped(s, k)
      BY <1>3, <1>5, <2>3, WithoutOne
    <3>4. QED
      BY <3>1, <3>2, <3>3, FrontedConcat
  <2>5. entry' = [x \in Entry |-> IF x = e THEN c ELSE IF x \in replaced THEN None ELSE entry[x]]
    BY <1>3, <2>1, <2>2, <2>3 DEF Stored
  <2>6. entry'[e] = c /\ entry'[s[k]] = None /\ \A x \in Entry : x # e /\ x # s[k] => entry'[x] = entry[x]
    BY <1>3, <2>1, <2>2 DEF Stored
  <2>7. /\ tableByName'[c.name] = None
        /\ \A n : n # c.name => (n \in Name => tableByName'[n] = tableByName[n])
    BY <1>3, <2>1
  <2>8. Findable' = kept
    <3>1. ASSUME NEW x
          PROVE  x \in Findable' <=> x \in Findable /\ x # s[k]
      <4>0. CASE x \notin Entry
        BY <4>0, Finds
      <4>1. CASE x = s[k]
        <5>1. entry'[x] = None
          BY <2>6, <4>1
        <5>2. QED
          BY <4>1, <5>1, Finds
      <4>2. CASE x = e
        BY <1>2, <1>3, <2>6, <2>7, <4>2, Finds
      <4>3. CASE x \in Entry /\ x # e /\ x # s[k] /\ entry[x] = None
        <5>1. entry'[x] = None
          BY <2>6, <4>3
        <5>2. QED
          BY <4>3, <5>1, Finds
      <4>4. CASE x \in Entry /\ x # e /\ x # s[k] /\ entry[x] # None
        <5>1. entry'[x] = entry[x] /\ entry[x].name \in Name /\ x # None
          BY <1>4, <2>6, <4>4
        <5>2. CASE entry[x].name = c.name
          <6>1. tableByName'[entry'[x].name] # x
            BY <2>7, <5>1, <5>2
          <6>2. tableByName[entry[x].name] # x
            BY <2>1, <4>4, <5>2
          <6>3. QED
            BY <6>1, <6>2, Finds
        <5>3. CASE entry[x].name # c.name
          BY <2>7, <4>4, <5>1, <5>3, Finds
        <5>4. QED
          BY <5>2, <5>3
      <4>5. QED
        BY <4>0, <4>1, <4>2, <4>3, <4>4
    <3>2. QED
      BY <2>3, <3>1
  <2>9. QED
    BY <2>3, <2>4, <2>5, <2>8
<1>11. QED
  BY <1>2, <1>9, <1>10

(* An entry that is used and not expired is a hit.                         *)
LEMMA CacheHit ==
  ASSUME StoreInv, NEW i \in Interest, NEW n \in Name, n = i.name,
         NEW e \in Entry, e = tableByName[n], entry[e] # None,
         ~IsExpired(e), lru' = MoveToHead(lru, e),
         UNCHANGED <<entry, tableByName, currentSize, numEntries, now>>,
         reply' = Reply(<<"Get", i>>, entry[e])
  PROVE  Cache!Hit(i, e)
<1>1. PICK s : Listed(s)
  BY DEF StoreInv
<1>2. PICK k \in 1 .. Len(s) : s[k] = e
  BY <1>1, InUse DEF Listed
<1>3. Agree(entry, lru, tableByName, s) /\ Each(s)
  BY <1>1 DEF Listed, Agree
<1>4. Agree(entry, lru', tableByName, Moved(s, k)) /\ Len(Moved(s, k)) = Len(s)
  BY <1>2, <1>3, AgreeMoved, MovedIs
<1>5. Listed(Moved(s, k))'
  BY <1>1, <1>4 DEF Listed
<1>6. Order = s /\ Order' = Moved(s, k)
  BY <1>1, <1>5, OrderAt
<1>7. Each(Dropped(s, k)) /\ Cache!Without(s, {e}) = Dropped(s, k)
  BY <1>2, <1>3, DroppedIs, WithoutOne
<1>8. Order' = <<e>> \o Cache!Without(Order, {e})
  BY <1>2, <1>6, <1>7, FrontedConcat DEF Moved
<1>9. entry[e].name = n /\ e # None
  BY FoundIs, Largest
<1>10. e \in Findable \cap Cache!Named(i.name) /\ Findable' = Findable
  BY <1>9 DEF Findable, Used, Cache!Named
<1>11. ~Cache!Expired(e)
  BY DEF Cache!Expired, IsExpired
<1>12. reply' = Cache!Reply(<<"Get", i>>, entry[e])
  BY DEF Reply, Cache!Reply
<1>13. QED
  BY <1>8, <1>10, <1>11, <1>12 DEF Cache!Hit

(* When no entry that may be the earliest to expire has expired, none has. *)
LEMMA NoneExpired ==
  ASSUME StoreInv, ~ \E e \in Earliest : IsExpired(e)
  PROVE  \A x \in Entry : entry[x] # None => ~Cache!Expired(x)
<1> SUFFICES ASSUME NEW x \in Entry, entry[x] # None, Cache!Expired(x)
             PROVE  FALSE
  OBVIOUS
<1>1. entry[x].expiry # None /\ entry[x].expiry < now
  BY DEF Cache!Expired
<1>2. entry \in Stored /\ now \in Nat
  BY ContentAssumption DEF StoreInv, Listed, Agree, Limits
<1> DEFINE Expiring == {e \in Used : entry[e].expiry # None}
           Times    == {entry[e].expiry : e \in Expiring}
<1>3. \A e \in Expiring : entry[e].expiry \in Nat
  BY <1>2, ContentAssumption DEF Used, Stored
<1>4. x \in Expiring
  BY <1>1 DEF Used
<1>5. Times \subseteq Nat /\ Times # {} /\ entry[x].expiry \in Times
  BY <1>3, <1>4
<1>6. PICK t \in Times : \A other \in Times : t <= other
  <2> HIDE DEF Times
  <2>1. QED
    BY <1>5, LeastOf
<1>7. PICK e \in Expiring : entry[e].expiry = t
  BY <1>6
<1>8. e \in Earliest
  <2>1. \A y \in Used : entry[y].expiry # None => entry[e].expiry <= entry[y].expiry
    BY <1>6, <1>7
  <2>2. QED
    BY <1>7, <2>1 DEF Earliest
<1>9. entry[e].expiry <= entry[x].expiry /\ entry[e].expiry \in Nat /\ entry[x].expiry \in Nat
  BY <1>3, <1>4, <1>5, <1>6, <1>7
<1>10. IsExpired(e)
  BY <1>1, <1>2, <1>7, <1>9 DEF IsExpired
<1>11. QED
  BY <1>8, <1>10

LEMMA CacheInit == Init => Cache!Init
<1> SUFFICES ASSUME Init
             PROVE  Cache!Init
  OBVIOUS
<1>1. PICK s : Listed(s)
  BY InitStoreInv DEF StoreInv
<1>2. Len(s) = 0 /\ s \in Seq(Entry)
  BY <1>1 DEF Init, Listed, Agree, Each
<1>3. Order = <<>>
  BY <1>1, <1>2, OrderAt, EmptySeq
<1>4. Findable = {} /\ entry = [e \in Entry |-> None] /\ now = 0 /\ reply = Reply(<<"Create">>, TRUE)
  BY DEF Init, Findable, Used
<1>5. QED
  BY <1>3, <1>4 DEF Cache!Init, Reply, Cache!Reply

(* Every step of the store is one of the cache, or leaves it as it is.     *)
LEMMA CacheStep ==
  ASSUME StoreInv, [Next]_vars
  PROVE  [Cache!Next]_(Cache!vars)
<1>1. PICK s : Listed(s)
  BY DEF StoreInv
<1>2. Limits /\ Len(s) \in Nat
  BY <1>1, InUse DEF StoreInv, Listed
<1>3. ASSUME NEW c \in Content, PutRefused(c)
      PROVE  Cache!Next
  <2>1. UNCHANGED <<entry, lru, tableByName, currentSize, numEntries, now>>
        /\ reply' = Cache!Reply(<<"Put", c>>, FALSE)
    BY <1>3 DEF PutRefused, Reply, Cache!Reply
  <2>2. UNCHANGED <<Order, entry, Findable>>
    BY <1>1, <2>1, CacheSame
  <2>3. Cache!Refuse(c)
    BY <2>1, <2>2 DEF Cache!Refuse
  <2>4. QED
    BY <2>3 DEF Cache!Next
<1>4. ASSUME NEW c \in Content, Put(c)
      PROVE  Cache!Next
  <2>1. /\ Fits(c) /\ Insert(c) /\ ~Uncacheable(c) /\ now' = now
        /\ reply' = Reply(<<"Put", c>>, TRUE)
    BY <1>4 DEF Put
  <2>2. c.expiry # None => c.expiry > now
    <3>1. now \in Nat /\ (c.expiry # None => c.expiry \in Nat)
      BY <1>2, ContentAssumption DEF Limits
    <3>2. QED
      BY <2>1, <3>1 DEF Uncacheable
  <2>3. \E o \in Entry : Cache!Store(c, o)
    BY <2>1, <2>2, CacheStore
  <2>4. QED
    BY <2>3 DEF Cache!Next
<1>5. ASSUME NEW c \in Content, PutMakesRoom(c)
      PROVE  UNCHANGED Cache!vars
  <2>1. UNCHANGED <<entry, lru, tableByName, currentSize, numEntries, now, reply>>
    BY <1>5 DEF PutMakesRoom
  <2>2. UNCHANGED <<Order, entry, Findable>>
    BY <1>1, <2>1, CacheSame
  <2>3. QED
    BY <2>1, <2>2 DEF Cache!vars
<1>6. ASSUME EvictExpired
      PROVE  Cache!Next
  <2>1. PICK e \in Earliest : IsExpired(e) /\ Purge(e)
    BY <1>6 DEF EvictExpired
  <2>2. e \in Entry /\ entry[e] # None /\ Cache!Expired(e)
    BY <2>1, EarliestExists DEF IsExpired, Cache!Expired
  <2>3. Cache!Drop(e)
    BY <2>1, <2>2, CacheDrop
  <2>4. UNCHANGED <<now, reply>>
    BY <1>6 DEF EvictExpired
  <2>5. Cache!Evict(e)
    BY <2>2, <2>3, <2>4 DEF Cache!Evict
  <2>6. QED
    BY <2>2, <2>5 DEF Cache!Next
<1>7. ASSUME EvictLeastUsed
      PROVE  Cache!Next
  <2>1. /\ LeastUsed # None /\ Purge(LeastUsed) /\ UNCHANGED <<now, reply>>
        /\ ~ \E e \in Earliest : IsExpired(e)
    BY <1>7 DEF EvictLeastUsed
  <2>2. LeastUsed = s[Len(s)] /\ s[Len(s)] \in Entry /\ entry[s[Len(s)]] # None
    BY <1>1, <2>1, LeastUsedIs, InUse DEF Listed
  <2>3. PICK e \in Entry : e = LeastUsed
    BY <2>2
  <2>4. Cache!Drop(e)
    BY <2>1, <2>2, <2>3, CacheDrop
  <2>5. e = Order[Len(Order)]
    BY <1>1, <2>2, <2>3, OrderAt
  <2>6. \A x \in Entry : entry[x] # None => ~Cache!Expired(x)
    BY <2>1, NoneExpired
  <2>7. Cache!Evict(e)
    BY <2>1, <2>2, <2>3, <2>4, <2>5, <2>6 DEF Cache!Evict
  <2>8. QED
    BY <2>7 DEF Cache!Next
<1>8. ASSUME PutAfterRoom
      PROVE  Cache!Next
  <2>1. PICK c \in Content : c = putting
    BY <1>2, <1>8 DEF PutAfterRoom, Limits
  <2>2. /\ Insert(c) /\ ~NeedsRoom /\ now' = now /\ putting # None
        /\ reply' = Reply(<<"Put", c>>, TRUE)
    BY <1>8, <2>1 DEF PutAfterRoom
  <2>3. c.size \in Nat /\ maxSize \in Nat /\ currentSize \in Nat
    BY <1>1, <1>2, Largest, ContentAssumption, BytesTotal DEF Limits, Listed, Agree
  <2>4. Fits(c)
    BY <2>1, <2>2, <2>3 DEF NeedsRoom, Fits
  <2>5. c.expiry # None => c.expiry > now
    BY <1>2, <2>1, <2>2 DEF Limits
  <2>6. \E o \in Entry : Cache!Store(c, o)
    BY <2>2, <2>4, <2>5, CacheStore
  <2>7. QED
    BY <2>6 DEF Cache!Next
<1>9. ASSUME PutFails
      PROVE  Cache!Next
  <2>1. PICK c \in Content : c = putting
    BY <1>2, <1>9 DEF PutFails, Limits
  <2>2. /\ UNCHANGED <<entry, lru, tableByName, currentSize, numEntries, now>>
        /\ reply' = Cache!Reply(<<"Put", c>>, FALSE)
    BY <1>9, <2>1 DEF PutFails, Reply, Cache!Reply
  <2>3. UNCHANGED <<Order, entry, Findable>>
    BY <1>1, <2>2, CacheSame
  <2>4. Cache!Refuse(c)
    BY <2>2, <2>3 DEF Cache!Refuse
  <2>5. QED
    BY <2>4 DEF Cache!Next
<1>10. ASSUME NEW i \in Interest, GetMatch(i)
       PROVE  Cache!Next
  <2>0. PICK n \in Name : n = i.name
    BY InterestAssumption
  <2>1. now' = now
    BY <1>10 DEF GetMatch
  <2>2. CASE tableByName[n] = None
    <3>1. UNCHANGED <<entry, lru, tableByName, currentSize, numEntries>>
          /\ reply' = Cache!Reply(<<"Get", i>>, None)
      BY <1>10, <2>0, <2>2 DEF GetMatch, Found, Reply, Cache!Reply
    <3>2. UNCHANGED <<Order, entry, Findable>>
      BY <1>1, <3>1, CacheSame
    <3>3. Findable \cap Cache!Named(n) = {}
      BY <2>2, FindableNamed
    <3>4. Cache!Miss(i)
      BY <2>0, <2>1, <3>1, <3>2, <3>3 DEF Cache!Miss
    <3>5. QED
      BY <3>4 DEF Cache!Next
  <2>3. CASE tableByName[n] # None
    <3>1. PICK e \in Entry : e = tableByName[n] /\ entry[e] # None
      BY <2>3, FoundIs
    <3>2. e \in Findable \cap Cache!Named(n)
      BY <2>3, <3>1, FindableNamed
    <3>3. CASE IsExpired(e) /\ Purge(e) /\ reply' = Reply(<<"Get", i>>, None)
      <4>1. Cache!Drop(e) /\ Cache!Expired(e)
        BY <3>1, <3>3, CacheDrop DEF IsExpired, Cache!Expired
      <4>2. reply' = Cache!Reply(<<"Get", i>>, None)
        BY <3>3 DEF Reply, Cache!Reply
      <4>3. Cache!Miss(i)
        BY <2>0, <2>1, <3>2, <4>1, <4>2 DEF Cache!Miss
      <4>4. QED
        BY <4>3 DEF Cache!Next
    <3>4. CASE /\ ~IsExpired(e) /\ lru' = MoveToHead(lru, e)
               /\ UNCHANGED <<entry, tableByName, currentSize, numEntries>>
               /\ reply' = Reply(<<"Get", i>>, entry[e])
      <4>1. Cache!Hit(i, e)
        BY <2>0, <2>1, <3>1, <3>4, CacheHit
      <4>2. QED
        BY <4>1 DEF Cache!Next
    <3>5. QED
      BY <1>10, <2>0, <2>3, <3>1, <3>3, <3>4 DEF GetMatch, Found
  <2>4. QED
    BY <2>2, <2>3
<1>11. ASSUME NEW i \in Interest, RemoveMatch(i)
       PROVE  Cache!Next
  <2>0. PICK n \in Name : n = i.name
    BY InterestAssumption
  <2>1. now' = now
    BY <1>11 DEF RemoveMatch
  <2>2. CASE tableByName[n] = None
    <3>1. UNCHANGED <<entry, lru, tableByName, currentSize, numEntries>>
          /\ reply' = Cache!Reply(<<"Remove", i>>, FALSE)
      BY <1>11, <2>0, <2>2 DEF RemoveMatch, Found, Reply, Cache!Reply
    <3>2. UNCHANGED <<Order, entry, Findable>>
      BY <1>1, <3>1, CacheSame
    <3>3. Findable \cap Cache!Named(n) = {}
      BY <2>2, FindableNamed
    <3>4. Cache!Remove(i)
      BY <2>0, <2>1, <3>1, <3>2, <3>3 DEF Cache!Remove
    <3>5. QED
      BY <3>4 DEF Cache!Next
  <2>3. CASE tableByName[n] # None
    <3>1. PICK e \in Entry : e = tableByName[n] /\ entry[e] # None
      BY <2>3, FoundIs
    <3>2. Purge(e) /\ reply' = Cache!Reply(<<"Remove", i>>, TRUE)
      BY <1>11, <2>0, <2>3, <3>1 DEF RemoveMatch, Found, Reply, Cache!Reply
    <3>3. e \in Findable \cap Cache!Named(n) /\ Cache!Drop(e)
      BY <2>3, <3>1, <3>2, FindableNamed, CacheDrop
    <3>4. Cache!Remove(i)
      BY <2>0, <2>1, <3>2, <3>3 DEF Cache!Remove
    <3>5. QED
      BY <3>4 DEF Cache!Next
  <2>4. QED
    BY <2>2, <2>3
<1>12. ASSUME NEW size \in Capacity, SetCapacity(size)
       PROVE  Cache!Next
  <2>1. /\ entry' = [e \in Entry |-> None] /\ numEntries' = 0 /\ now' = now
        /\ reply' = Cache!Reply(<<"SetCapacity", size>>, TRUE)
    BY <1>12 DEF SetCapacity, Reply, Cache!Reply
  <2>2. StoreInv'
    BY NextStoreInv
  <2>3. PICK t : Listed(t)'
    BY <2>2 DEF StoreInv
  <2>4. t \in Seq(Entry) /\ Len(t) = 0
    BY <2>1, <2>3 DEF Listed, Agree, Each
  <2>5. Order' = <<>>
    BY <2>3, <2>4, OrderAt, EmptySeq
  <2>6. Findable' = {}
    BY <2>1, Finds
  <2>7. Cache!Clear(size)
    BY <2>1, <2>5, <2>6 DEF Cache!Clear
  <2>8. QED
    BY <2>7 DEF Cache!Next
<1>13. ASSUME Tick
       PROVE  Cache!Next
  <2>1. UNCHANGED <<entry, lru, tableByName, currentSize, numEntries, reply>> /\ now' = now + 1
    BY <1>13 DEF Tick
  <2>2. UNCHANGED <<Order, entry, Findable>>
    BY <1>1, <2>1, CacheSame
  <2>3. Cache!Tick
    BY <2>1, <2>2 DEF Cache!Tick
  <2>4. QED
    BY <2>3 DEF Cache!Next
<1>14. ASSUME UNCHANGED vars
       PROVE  UNCHANGED Cache!vars
  <2>1. UNCHANGED <<entry, lru, tableByName, currentSize, numEntries, now, reply>>
    BY <1>14 DEF vars
  <2>2. UNCHANGED <<Order, entry, Findable>>
    BY <1>1, <2>1, CacheSame
  <2>3. QED
    BY <2>1, <2>2 DEF Cache!vars
<1>15. QED
  BY <1>3, <1>4, <1>5, <1>6, <1>7, <1>8, <1>9, <1>10, <1>11, <1>12, <1>13, <1>14 DEF Next

(* The store is a cache that answers by name: with content that no newer   *)
(* has replaced, neither expired nor removed.  Content put under a name    *)
(* that finds nothing can be found; room is made by dropping what has      *)
(* expired, and then what was put or asked for longest ago.                *)
THEOREM StoreImplementsContentCache == Spec => ImplementsContentCache
<1>1. StoreInv /\ [Next]_vars => [Cache!Next]_(Cache!vars)
  BY CacheStep
<1>2. QED
  BY <1>1, CacheInit, StoreInvariant, PTL DEF Spec, ImplementsContentCache, Cache!Spec
==============================================================================
