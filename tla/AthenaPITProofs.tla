--------------------------- MODULE AthenaPITProofs ---------------------------
(***************************************************************************)
(* What holds of AthenaPIT for every set of interests, links and entries.  *)
(***************************************************************************)
EXTENDS AthenaPIT, FiniteSetTheorems, TLAPS

(* The lowest of some natural numbers.                                     *)
LEMMA LowestIn ==
  ASSUME NEW S, S \subseteq Nat, S # {}
  PROVE  Lowest(S) \in S
<1>1. \E x \in S : \A y \in S : ~(<<y, x>> \in OpToRel(<, Nat))
  BY NatLessThanWellFounded, WFMin
<1>2. \E x \in S : \A y \in S : x <= y
  <2>1. PICK x \in S : \A y \in S : ~(<<y, x>> \in OpToRel(<, Nat))
    BY <1>1
  <2>2. \A y \in S : ~(y < x)
    BY <2>1 DEF OpToRel
  <2>3. QED
    BY <2>2
<1>3. QED
  BY <1>2 DEF Lowest

(***************************************************************************)
(* The entry limit.  The table is counted before an insertion, and an      *)
(* insertion adds at most two entries to it; everything else only takes    *)
(* entries out.                                                            *)
(***************************************************************************)

LimitInv ==
  /\ DOMAIN entryTable = TableKey
  /\ IsFiniteSet(Live)
  /\ AtMostOneOver

LEMMA LimitInsert ==
  ASSUME LimitInv, HasRoom, NEW i, NEW l, NEW o, NEW t, Insert(i, l, o, t)
  PROVE  LimitInv'
<1> DEFINE More == Live \cup {i}
           Most == More \cup {Nameless(i)}
<1>1. DOMAIN entryTable' = TableKey /\ Live' \subseteq Most
  BY DEF LimitInv, Insert, Live
<1>2. Cardinality(Live) \in Nat /\ Cardinality(Live) < Capacity /\ Capacity \in Nat
  BY FS_CardinalityType, BoundsAssumption DEF LimitInv, HasRoom
<1>3. IsFiniteSet(More) /\ Cardinality(More) <= Cardinality(Live) + 1
  BY <1>2, FS_AddElement DEF LimitInv
<1>4. IsFiniteSet(Most) /\ Cardinality(Most) <= Cardinality(More) + 1
  <2>1. Cardinality(More) \in Nat
    BY <1>3, FS_CardinalityType
  <2> HIDE DEF More
  <2>2. QED
    BY <1>3, <2>1, FS_AddElement
<1>5. Cardinality(More) \in Nat /\ Cardinality(Most) \in Nat
  BY <1>3, <1>4, FS_CardinalityType
<1>6. IsFiniteSet(Live') /\ Cardinality(Live') <= Cardinality(Most) /\ Cardinality(Live') \in Nat
  <2> HIDE DEF Most
  <2>1. QED
    BY <1>1, <1>4, FS_Subset, FS_CardinalityType
<1>7. Cardinality(Live') <= Capacity + 1
  <2> HIDE DEF Most, More
  <2>1. QED
    BY <1>2, <1>3, <1>4, <1>5, <1>6
<1>8. QED
  BY <1>1, <1>6, <1>7 DEF LimitInv, AtMostOneOver

(* Only an insertion puts keys into the table.                             *)
LEMMA OnlyInsertAdds ==
  ASSUME LimitInv, [Next]_vars
  PROVE  \/ DOMAIN entryTable' = TableKey /\ Live' \subseteq Live
         \/ HasRoom /\ \E i, l, o, t : Insert(i, l, o, t)
<1>1. ASSUME NEW i \in Interest, NEW l \in Link, NEW o \in Original, NEW life \in Lifetime,
             AddInterest(i, l, o, life)
      PROVE  \/ UNCHANGED entryTable
             \/ HasRoom /\ \E j, m, p, t : Insert(j, m, p, t)
  <2>1. CASE AddNew(i, l, o, life)
    BY <2>1 DEF AddNew
  <2>2. CASE AddFull(i, l, o, life)
    BY <2>2 DEF AddFull
  <2>3. CASE AddDuplicate(i, l, life)
    BY <2>3 DEF AddDuplicate
  <2>4. CASE AddAggregated(i, l, life)
    BY <2>4 DEF AddAggregated
  <2>5. QED
    BY <1>1, <2>1, <2>2, <2>3, <2>4 DEF AddInterest
<1>2. ASSUME NEW e, NEW K, entryTable' = WithoutEmpty(e, K)
      PROVE  DOMAIN entryTable' = TableKey /\ Live' \subseteq Live
  BY <1>2 DEF WithoutEmpty, Live
<1>3. ASSUME PurgeRecord
      PROVE  \/ UNCHANGED entryTable
             \/ DOMAIN entryTable' = TableKey /\ Live' \subseteq Live
  BY <1>2, <1>3 DEF PurgeRecord
<1>4. CASE AddAfterPurge
  BY <1>4 DEF AddAfterPurge
<1>5. CASE AddRefused
  BY <1>5 DEF AddRefused, LimitInv, Live
<1>6. ASSUME NEW i \in Interest, NEW l \in Link, RemoveInterest(i, l)
      PROVE  DOMAIN entryTable' = TableKey /\ Live' \subseteq Live
  BY <1>2, <1>6 DEF RemoveInterest
<1>7. ASSUME NEW c \in Content, Match(c)
      PROVE  DOMAIN entryTable' = TableKey /\ Live' \subseteq Live
  BY <1>7 DEF Match, Live
<1>8. ASSUME NEW l \in Link, RemoveLink(l)
      PROVE  DOMAIN entryTable' = TableKey /\ Live' \subseteq Live
  BY <1>2, <1>8 DEF RemoveLink
<1>9. CASE Tick
  BY <1>9 DEF Tick, LimitInv, Live
<1>10. CASE UNCHANGED entryTable
  BY <1>10 DEF LimitInv, Live
<1>11. QED
  BY <1>1, <1>3, <1>4, <1>5, <1>6, <1>7, <1>8, <1>9, <1>10 DEF Next, vars

LEMMA LimitNext == LimitInv /\ [Next]_vars => LimitInv'
<1> SUFFICES ASSUME LimitInv, [Next]_vars PROVE LimitInv'
  OBVIOUS
<1>1. CASE DOMAIN entryTable' = TableKey /\ Live' \subseteq Live
  <2>1. IsFiniteSet(Live') /\ Cardinality(Live') <= Cardinality(Live)
    BY <1>1, FS_Subset DEF LimitInv
  <2>2. Cardinality(Live') \in Nat /\ Cardinality(Live) \in Nat
    BY <2>1, FS_CardinalityType DEF LimitInv
  <2>3. QED
    BY <1>1, <2>1, <2>2, BoundsAssumption DEF LimitInv, AtMostOneOver
<1>2. QED
  BY <1>1, OnlyInsertAdds, LimitInsert

LEMMA LimitInit == Init => LimitInv
<1> SUFFICES ASSUME Init PROVE LimitInv
  OBVIOUS
<1>1. DOMAIN entryTable = TableKey /\ Live = {}
  BY DEF Init, Live
<1>2. QED
  BY <1>1, FS_EmptySet, BoundsAssumption DEF LimitInv, AtMostOneOver

(* The table has at most one entry more than its limit, whatever content   *)
(* ids the interests ask for.                                              *)
THEOREM LimitHolds == Spec => []AtMostOneOver
<1>1. LimitInv => AtMostOneOver
  BY DEF LimitInv
<1>2. QED
  BY <1>1, LimitInit, LimitNext, PTL DEF Spec

(***************************************************************************)
(* Types.  The point is that whatever a table, map or bucket refers to     *)
(* exists: an entry is released only when nothing holds it.                *)
(***************************************************************************)

(* A purging call still has the entries it will need. *)
TypeInv ==
  /\ TypeOK
  /\ adding # None => PoolLeft(adding.interest)

(* The types of the structures, without what they say of the entries.      *)
Structures ==
  /\ entryTable \in [TableKey -> Entry \cup {None}]
  /\ cleanup \in [Link -> [Interest -> Entry \cup {None}]]
  /\ timeouts \in [Time -> SUBSET Entry]

LEMMA TimeIsLong ==
  ASSUME NEW t \in 0 .. MaxTime, NEW life \in Lifetime
  PROVE  t + life \in Time /\ Time \subseteq Nat
<1>1. PICK m \in Lifetime : \A x \in Lifetime : x <= m
  BY BoundsAssumption
<1> DEFINE longest == CHOOSE y \in Lifetime : \A x \in Lifetime : x <= y
<1>2. longest \in Lifetime /\ \A x \in Lifetime : x <= longest
  BY <1>1
<1> HIDE DEF longest
<1>3. longest \in Nat /\ life \in Nat /\ MaxTime \in Nat /\ life <= longest
  BY <1>2, BoundsAssumption
<1>4. t + life \in 0 .. (MaxTime + longest) /\ 0 .. (MaxTime + longest) \subseteq Nat
  BY <1>3
<1>5. QED
  BY <1>4 DEF Time, longest

(* Who holds an entry. *)
LEMMA HeldMeans ==
  ASSUME NEW table \in [TableKey -> Entry \cup {None}],
         NEW maps \in [Link -> [Interest -> Entry \cup {None}]],
         NEW buckets \in [Time -> SUBSET Entry],
         NEW x
  PROVE  x \in Held(table, maps, buckets) <=>
           /\ x \in Entry
           /\ \/ \E k \in TableKey : table[k] = x
              \/ \E l \in Link, i \in Interest : maps[l][i] = x
              \/ \E t \in Time : x \in buckets[t]
<1>1. x \in Range(table) <=> \E k \in TableKey : table[k] = x
  BY DEF Range
<1>2. x \in UNION {Range(maps[l]) : l \in Link} <=>
        \E l \in Link, i \in Interest : maps[l][i] = x
  <2>1. \A l \in Link : x \in Range(maps[l]) <=> \E i \in Interest : maps[l][i] = x
    BY DEF Range
  <2>2. QED
    BY <2>1
<1>3. x \in UNION Range(buckets) <=> \E t \in Time : x \in buckets[t]
  BY DEF Range
<1>4. QED
  BY <1>1, <1>2, <1>3 DEF Held

(* A step that leaves the structures of the right types and releases what  *)
(* they do not hold is well typed, if the entries it works on are there.   *)
LEMMA ReleaseTyped ==
  ASSUME NEW e \in [Entry -> PITEntry \cup {None}], Release(e), Structures',
         \A x \in Held(entryTable', cleanup', timeouts') : e[x] # None,
         \A k \in TableKey : entryTable'[k] # None => e[entryTable'[k]].key = k
  PROVE  /\ entry' \in [Entry -> PITEntry \cup {None}]
         /\ \A x \in Held(entryTable', cleanup', timeouts') :
              entry'[x] = e[x] /\ entry'[x] # None
         /\ \A k \in Live' : entry'[entryTable'[k]] = e[entryTable'[k]]
                             /\ entry'[entryTable'[k]].key = k
<1> DEFINE H == Held(entryTable', cleanup', timeouts')
<1>1. entry' = [x \in Entry |-> IF x \in H THEN e[x] ELSE None]
  BY DEF Release
<1>2. H \subseteq Entry
  BY DEF Held
<1>3. \A k \in Live' : entryTable'[k] \in H
  <2> SUFFICES ASSUME NEW k \in TableKey, entryTable'[k] # None PROVE entryTable'[k] \in H
    BY DEF Live
  <2>1. entryTable'[k] \in Entry
    BY DEF Structures
  <2>2. QED
    BY <2>1, HeldMeans DEF Structures
<1> HIDE DEF H
<1>4. \A x \in H : entry'[x] = e[x] /\ e[x] # None
  BY <1>1, <1>2 DEF H
<1>5. entry' \in [Entry -> PITEntry \cup {None}]
  BY <1>1
<1>6. Live' \subseteq TableKey /\ \A k \in Live' : entryTable'[k] # None
  BY DEF Live
<1>7. QED
  BY <1>3, <1>4, <1>5, <1>6 DEF H

(* The entries f are those of e, some of them without some links.          *)
Fewer(e, f) ==
  /\ f \in [Entry -> PITEntry \cup {None}]
  /\ \A x \in Entry : e[x] = None <=> f[x] = None
  /\ \A x \in Entry : e[x] # None =>
       /\ f[x].key = e[x].key
       /\ f[x].interest = e[x].interest
       /\ f[x].expiration = e[x].expiration
       /\ f[x].ingress \subseteq e[x].ingress

LEMMA LinksOnly ==
  ASSUME NEW y \in PITEntry, NEW w
  PROVE  /\ WithoutLinks(y, w) \in PITEntry
         /\ WithoutLinks(y, w).key = y.key
         /\ WithoutLinks(y, w).interest = y.interest
         /\ WithoutLinks(y, w).expiration = y.expiration
         /\ WithoutLinks(y, w).ingress = y.ingress \ w
BY DEF WithoutLinks, PITEntry

LEMMA ClearedFewer ==
  ASSUME NEW e \in [Entry -> PITEntry \cup {None}], NEW X, NEW v,
         \A x \in X \cap Entry : e[x] # None
  PROVE  /\ Fewer(e, Cleared(e, X, v))
         /\ \A x \in Entry : e[x] # None =>
              Cleared(e, X, v)[x].ingress = IF x \in X THEN e[x].ingress \ v ELSE e[x].ingress
<1> DEFINE f == Cleared(e, X, v)
<1>1. ASSUME NEW x \in Entry, x \in X
      PROVE  /\ f[x] = WithoutLinks(e[x], v)
             /\ e[x] \in PITEntry
  BY <1>1 DEF Cleared
<1>2. ASSUME NEW x \in Entry, x \notin X
      PROVE  f[x] = e[x]
  BY <1>2 DEF Cleared
<1> HIDE DEF f
<1>4. f = [x \in Entry |-> f[x]]
  BY DEF Cleared, f
<1>3. ASSUME NEW x \in Entry, x \in X
      PROVE  /\ f[x] \in PITEntry
             /\ f[x].key = e[x].key /\ f[x].interest = e[x].interest
             /\ f[x].expiration = e[x].expiration
             /\ f[x].ingress = e[x].ingress \ v
  BY <1>1, <1>3, LinksOnly
<1>5. f \in [Entry -> PITEntry \cup {None}]
  BY <1>2, <1>3, <1>4
<1>6. \A x \in Entry : e[x] = None <=> f[x] = None
  BY <1>2, <1>3, InterestAssumption
<1>7. QED
  BY <1>2, <1>3, <1>5, <1>6 DEF Fewer, f

LEMMA ClearedGone ==
  ASSUME NEW e \in [Entry -> PITEntry \cup {None}], NEW X, NEW v, NEW x \in Entry,
         x \in X, e[x] # None
  PROVE  Cleared(e, X, v)[x].ingress \cap v = {}
<1>1. e[x] \in PITEntry /\ Cleared(e, X, v)[x] = WithoutLinks(e[x], v)
  BY DEF Cleared
<1>2. QED
  BY <1>1, LinksOnly

(* What the clean-up maps refer to exists, so it can lose its links. *)
LEMMA LosesLinksFewer ==
  ASSUME Structures, NEW e \in [Entry -> PITEntry \cup {None}], NEW k, NEW v \in SUBSET Link,
         \A x \in Held(entryTable, cleanup, timeouts) : e[x] # None
  PROVE  /\ Fewer(e, LosesLinks(e, k, v))
         /\ \A x \in Entry : e[x] # None =>
              LosesLinks(e, k, v)[x].ingress =
                e[x].ingress \ {l \in v : k \in Interest /\ cleanup[l][k] = x}
<1> DEFINE f == LosesLinks(e, k, v)
           lost(x) == {l \in v : k \in Interest /\ cleanup[l][k] = x}
<1>1. ASSUME NEW x \in Entry, lost(x) # {}
      PROVE  e[x] \in PITEntry /\ f[x] = WithoutLinks(e[x], lost(x))
  <2>1. PICK l \in Link : k \in Interest /\ cleanup[l][k] = x
    BY <1>1
  <2>2. x \in Held(entryTable, cleanup, timeouts)
    BY <2>1, HeldMeans DEF Structures
  <2>3. QED
    BY <1>1, <2>2 DEF LosesLinks
<1>2. ASSUME NEW x \in Entry, lost(x) = {}
      PROVE  f[x] = e[x]
  BY <1>2 DEF LosesLinks
<1>4. f = [x \in Entry |-> f[x]]
  BY DEF LosesLinks
<1> HIDE DEF f, lost
<1>3. ASSUME NEW x \in Entry, lost(x) # {}
      PROVE  /\ f[x] \in PITEntry
             /\ f[x].key = e[x].key /\ f[x].interest = e[x].interest
             /\ f[x].expiration = e[x].expiration
             /\ f[x].ingress = e[x].ingress \ lost(x)
  BY <1>1, <1>3, LinksOnly
<1>5. f \in [Entry -> PITEntry \cup {None}]
  BY <1>2, <1>3, <1>4
<1>6. \A x \in Entry : e[x] = None <=> f[x] = None
  <2> SUFFICES ASSUME NEW x \in Entry PROVE e[x] = None <=> f[x] = None
    OBVIOUS
  <2>1. CASE lost(x) = {}
    BY <1>2, <2>1
  <2>2. CASE lost(x) # {}
    BY <1>1, <1>3, <2>2, InterestAssumption
  <2>3. QED
    BY <2>1, <2>2
<1>7. \A x \in Entry : e[x] # None => f[x].ingress = e[x].ingress \ lost(x)
  BY <1>2, <1>3
<1>8. Fewer(e, f)
  BY <1>2, <1>3, <1>5, <1>6 DEF Fewer
<1>9. QED
  BY <1>7, <1>8 DEF f, lost

LEMMA FewerTransitive ==
  ASSUME NEW e, NEW f, NEW g, Fewer(e, f), Fewer(f, g)
  PROVE  Fewer(e, g)
<1>1. \A x \in Entry : e[x] # None => g[x].ingress \subseteq e[x].ingress
  BY DEF Fewer
<1>2. QED
  BY <1>1 DEF Fewer

(* What a step that makes no entry does to those in the table.             *)
Shrunk ==
  \A k \in Live' : /\ k \in Live /\ entryTable'[k] = entryTable[k]
                   /\ At(k)'.interest = At(k).interest
                   /\ At(k)'.ingress \subseteq At(k).ingress

(* They are to expire when they were.                                      *)
SameDue == \A k \in Live' : At(k)'.expiration = At(k).expiration

(* What is still held is filed under the key it had.                       *)
KeysKept ==
  \A x \in Held(entryTable', cleanup', timeouts') : entry'[x].key = entry[x].key

(* A map forgets an interest only when its link has left the entry.        *)
Matching ==
  \A k \in Live' \cap Interest, l \in Link :
    l \in At(k)'.ingress => cleanup'[l][k] = cleanup[l][k]

(* A step that makes no entry. *)
LEMMA NothingNew ==
  ASSUME TypeOK, Structures', NEW e \in [Entry -> PITEntry \cup {None}], Release(e),
         \A x \in Entry : entry[x] # None => e[x] # None /\ e[x].key = entry[x].key,
         \A k \in TableKey : entryTable'[k] \in {entryTable[k], None},
         \A x \in Held(entryTable', cleanup', timeouts') :
           x \in Held(entryTable, cleanup, timeouts),
         now' \in 0 .. MaxTime,
         adding' = None \/ adding' = adding
  PROVE  /\ TypeOK' /\ Free \subseteq Free' /\ KeysKept
         /\ \A k \in Live' : /\ k \in Live /\ entryTable'[k] = entryTable[k]
                             /\ entry'[entryTable'[k]] = e[entryTable[k]]
                             /\ entryTable[k] \in Entry /\ entry[entryTable[k]] # None
<1> DEFINE H == Held(entryTable, cleanup, timeouts)
           I == Held(entryTable', cleanup', timeouts')
<1>1. \A x \in I : e[x] # None
  BY DEF TypeOK, Held
<1>2. \A k \in TableKey : entryTable'[k] # None =>
         entryTable'[k] \in Entry /\ entry[entryTable'[k]] # None /\ entry[entryTable'[k]].key = k
  <2> SUFFICES ASSUME NEW k \in TableKey, entryTable'[k] # None
               PROVE  /\ entryTable'[k] \in Entry /\ entry[entryTable'[k]] # None
                      /\ entry[entryTable'[k]].key = k
    OBVIOUS
  <2>1. entryTable'[k] = entryTable[k] /\ entryTable[k] \in Entry /\ k \in Live
    BY DEF TypeOK, Live
  <2>2. entryTable[k] \in H
    BY <2>1, HeldMeans DEF TypeOK
  <2>3. QED
    BY <2>1, <2>2 DEF TypeOK
<1>3. \A k \in TableKey : entryTable'[k] # None => e[entryTable'[k]].key = k
  BY <1>2
<1>4. /\ entry' \in [Entry -> PITEntry \cup {None}]
      /\ \A x \in I : entry'[x] # None /\ entry'[x] = e[x]
      /\ \A k \in Live' : /\ entry'[entryTable'[k]] = e[entryTable'[k]]
                          /\ entry'[entryTable'[k]].key = k
  BY <1>1, <1>3, ReleaseTyped
<1>5. TypeOK'
  BY <1>4 DEF TypeOK, Structures
<1>6. \A x \in Free : x \notin I
  BY DEF TypeOK, Free
<1>7. \A x \in Entry : x \notin I => entry'[x] = None
  BY DEF Release
<1>8. ASSUME NEW k \in Live'
      PROVE  /\ k \in Live /\ entryTable'[k] = entryTable[k]
             /\ entry'[entryTable'[k]] = e[entryTable[k]]
             /\ entryTable[k] \in Entry /\ entry[entryTable[k]] # None
  <2>1. k \in TableKey /\ entryTable'[k] # None
    BY DEF Live
  <2>2. entryTable'[k] = entryTable[k] /\ k \in Live
    BY <2>1 DEF Live
  <2>3. QED
    BY <1>2, <1>4, <2>1, <2>2
<1>9. KeysKept
  <2>1. \A x \in I : x \in Entry /\ entry[x] # None
    BY DEF TypeOK, Held
  <2>2. QED
    BY <1>4, <2>1 DEF KeysKept
<1>10. QED
  BY <1>5, <1>6, <1>7, <1>8, <1>9 DEF Free

LEMMA EntryThere ==
  ASSUME TypeOK
  PROVE  /\ Structures
         /\ \A k \in Live : /\ k \in TableKey
                            /\ entryTable[k] \in Entry
                            /\ entryTable[k] \in Held(entryTable, cleanup, timeouts)
                            /\ entry[entryTable[k]] \in PITEntry
         /\ \A x \in Held(entryTable, cleanup, timeouts) :
              x \in Entry /\ entry[x] # None /\ entry[x] \in PITEntry
<1>1. Structures
  BY DEF TypeOK, Structures
<1>2. \A k \in Live : k \in TableKey /\ entryTable[k] \in Entry
                      /\ entryTable[k] \in Held(entryTable, cleanup, timeouts)
  BY <1>1, HeldMeans DEF Live, Structures
<1>3. \A x \in Held(entryTable, cleanup, timeouts) :
         x \in Entry /\ entry[x] # None /\ entry[x] \in PITEntry
  BY DEF TypeOK, Held
<1>4. QED
  BY <1>1, <1>2, <1>3

(* The table and the maps after a call took something out. *)
LEMMA TakenOut ==
  ASSUME Structures
  PROVE  /\ \A e, K : /\ WithoutEmpty(e, K) \in [TableKey -> Entry \cup {None}]
                      /\ \A k \in TableKey :
                           WithoutEmpty(e, K)[k] \in {entryTable[k], None}
         /\ \A k, v : /\ Uncleaned(k, v) \in [Link -> [Interest -> Entry \cup {None}]]
                      /\ \A l \in Link, i \in Interest :
                           Uncleaned(k, v)[l][i] =
                             IF l \in v /\ i = k THEN None ELSE cleanup[l][i]
  BY DEF Structures, WithoutEmpty, Uncleaned

(* Whoever is held after a step was held before it. *)
LEMMA HeldStill ==
  ASSUME Structures, Structures',
         \A k \in TableKey : entryTable'[k] \in {entryTable[k], None},
         \A l \in Link, i \in Interest : \/ cleanup'[l][i] = None
                                         \/ cleanup'[l][i] \in Held(entryTable, cleanup, timeouts),
         \A t \in Time : \A x \in timeouts'[t] :
           x \in timeouts[t] \/ x \in Held(entryTable, cleanup, timeouts)
  PROVE  \A x \in Held(entryTable', cleanup', timeouts') :
           x \in Held(entryTable, cleanup, timeouts)
<1> SUFFICES ASSUME NEW x, x \in Held(entryTable', cleanup', timeouts')
             PROVE  x \in Held(entryTable, cleanup, timeouts)
  OBVIOUS
<1>0. /\ x \in Entry /\ x # None
      /\ \/ \E k \in TableKey : entryTable'[k] = x
         \/ \E l \in Link, i \in Interest : cleanup'[l][i] = x
         \/ \E t \in Time : x \in timeouts'[t]
  <2>1. /\ entryTable' \in [TableKey -> Entry \cup {None}]
        /\ cleanup' \in [Link -> [Interest -> Entry \cup {None}]]
        /\ timeouts' \in [Time -> SUBSET Entry]
    BY DEF Structures
  <2>2. QED
    BY <2>1, HeldMeans, InterestAssumption
<1>1. CASE \E k \in TableKey : entryTable'[k] = x
  BY <1>0, <1>1, HeldMeans DEF Structures
<1>2. CASE \E l \in Link, i \in Interest : cleanup'[l][i] = x
  BY <1>0, <1>2
<1>3. CASE \E t \in Time : x \in timeouts'[t]
  BY <1>0, <1>3, HeldMeans DEF Structures
<1>4. QED
  BY <1>0, <1>1, <1>2, <1>3

LEMMA HeldByMap ==
  ASSUME Structures
  PROVE  \A l \in Link, i \in Interest : \/ cleanup[l][i] = None
                                         \/ cleanup[l][i] \in Held(entryTable, cleanup, timeouts)
<1> SUFFICES ASSUME NEW l \in Link, NEW i \in Interest, cleanup[l][i] # None
             PROVE  cleanup[l][i] \in Held(entryTable, cleanup, timeouts)
  OBVIOUS
<1>1. cleanup[l][i] \in Entry
  BY DEF Structures
<1>2. QED
  BY <1>1, HeldMeans DEF Structures

LEMMA TypeRemoveInterest ==
  ASSUME TypeOK, NEW i \in Interest, NEW l \in Link, RemoveInterest(i, l)
  PROVE  TypeOK' /\ adding' = None /\ Shrunk /\ SameDue /\ KeysKept /\ Matching
<1> DEFINE x     == entryTable[i]
           first == Cleared(entry, {x}, {l})
           e     == LosesLinks(first, i, {l})
<1>1. Structures /\ entry[x] # None /\ x \in Entry
  BY EntryThere, InterestAssumption DEF RemoveInterest
<1>2. entryTable' = WithoutEmpty(first, {i}) /\ cleanup' = Uncleaned(i, {l})
      /\ timeouts' = timeouts /\ now' = now /\ adding' = None /\ Release(e)
  BY DEF RemoveInterest
<1>3. Fewer(entry, first) /\ l \notin first[x].ingress
  <2>1. Fewer(entry, first)
    BY <1>1, ClearedFewer DEF TypeOK
  <2>2. entry \in [Entry -> PITEntry \cup {None}] /\ x \in {x}
    BY DEF TypeOK
  <2>3. first[x].ingress \cap {l} = {}
    <3> HIDE DEF x
    <3>1. QED
      BY <1>1, <2>2, ClearedGone
  <2>4. QED
    BY <2>1, <2>3
<1> HIDE DEF first
<1>4. Fewer(first, e)
  <2>1. \A y \in Held(entryTable, cleanup, timeouts) : first[y] # None
    BY <1>3, EntryThere DEF Fewer
  <2>2. first \in [Entry -> PITEntry \cup {None}]
    BY <1>3 DEF Fewer
  <2>3. QED
    BY <1>1, <2>1, <2>2, LosesLinksFewer
<1> HIDE DEF e
<1>5. Fewer(entry, e)
  BY <1>3, <1>4, FewerTransitive
<1>6. Structures' /\ \A k \in TableKey : entryTable'[k] \in {entryTable[k], None}
  BY <1>1, <1>2, TakenOut DEF Structures
<1>7. \A y \in Held(entryTable', cleanup', timeouts') : y \in Held(entryTable, cleanup, timeouts)
  <2>1. \A m \in Link, j \in Interest : \/ cleanup'[m][j] = None
                                        \/ cleanup'[m][j] \in Held(entryTable, cleanup, timeouts)
    BY <1>1, <1>2, TakenOut, HeldByMap
  <2>2. QED
    BY <1>1, <1>2, <1>6, <2>1, HeldStill
<1>8. now' \in 0 .. MaxTime
  BY <1>2 DEF TypeOK
<1>9. /\ TypeOK' /\ KeysKept
      /\ \A k \in Live' : /\ k \in Live /\ entryTable'[k] = entryTable[k]
                          /\ entry'[entryTable'[k]] = e[entryTable[k]]
                          /\ entryTable[k] \in Entry /\ entry[entryTable[k]] # None
  BY <1>2, <1>5, <1>6, <1>7, <1>8, NothingNew DEF Fewer
<1>10. Shrunk /\ SameDue
  BY <1>5, <1>9 DEF Shrunk, SameDue, At, Fewer
<1>11. Matching
  <2> SUFFICES ASSUME NEW k \in Live' \cap Interest, NEW m \in Link, m \in At(k)'.ingress
               PROVE  cleanup'[m][k] = cleanup[m][k]
    BY DEF Matching
  <2>1. CASE k = i /\ m = l
    <3>1. m \in first[x].ingress
      BY <1>1, <1>3, <1>4, <1>9, <2>1 DEF At, Fewer
    <3>2. QED
      BY <1>3, <2>1, <3>1
  <2>2. CASE ~(k = i /\ m = l)
    BY <1>1, <1>2, <2>2, TakenOut
  <2>3. QED
    BY <2>1, <2>2
<1>12. QED
  BY <1>2, <1>9, <1>10, <1>11

LEMMA TypeRemoveLink ==
  ASSUME TypeOK, NEW l \in Link, RemoveLink(l)
  PROVE  /\ TypeOK' /\ adding' = None /\ Shrunk /\ SameDue /\ KeysKept
         /\ \A k \in Live' \cap Interest :
              cleanup[l][k] # None => l \notin At(k)'.ingress
         /\ \A m \in Link \ {l}, j \in Interest : cleanup'[m][j] = cleanup[m][j]
<1> DEFINE named == {i \in Interest : cleanup[l][i] # None} \cap Live
           X     == {entryTable[i] : i \in named}
           first == Cleared(entry, X, {l})
<1>1. Structures /\ \A x \in X : entry[x] # None
  BY EntryThere, InterestAssumption
<1>2. entryTable' = WithoutEmpty(first, named)
      /\ cleanup' = [cleanup EXCEPT ![l] = [i \in Interest |-> None]]
      /\ timeouts' = timeouts /\ now' = now /\ adding' = None /\ Release(first)
  BY DEF RemoveLink
<1>3. /\ Fewer(entry, first)
      /\ \A y \in Entry \cap X : entry[y] # None => l \notin first[y].ingress
  <2> HIDE DEF X
  <2>1. Fewer(entry, first)
    BY <1>1, ClearedFewer DEF TypeOK
  <2>2. ASSUME NEW y \in Entry \cap X
        PROVE  first[y].ingress \cap {l} = {}
    BY <1>1, ClearedGone DEF TypeOK
  <2> HIDE DEF first
  <2>3. QED
    BY <2>1, <2>2
<1> HIDE DEF first
<1>4. \A m \in Link, j \in Interest : cleanup'[m][j] \in {cleanup[m][j], None}
  BY <1>1, <1>2 DEF Structures
<1>5. cleanup' \in [Link -> [Interest -> Entry \cup {None}]]
  BY <1>1, <1>2 DEF Structures
<1>6. Structures' /\ \A k \in TableKey : entryTable'[k] \in {entryTable[k], None}
  BY <1>1, <1>2, <1>5, TakenOut DEF Structures
<1>7. \A y \in Held(entryTable', cleanup', timeouts') : y \in Held(entryTable, cleanup, timeouts)
  BY <1>1, <1>2, <1>4, <1>6, HeldByMap, HeldStill
<1>8. now' \in 0 .. MaxTime
  BY <1>2 DEF TypeOK
<1>9. /\ TypeOK' /\ KeysKept
      /\ \A k \in Live' : /\ k \in Live /\ entryTable'[k] = entryTable[k]
                          /\ entry'[entryTable'[k]] = first[entryTable[k]]
                          /\ entryTable[k] \in Entry /\ entry[entryTable[k]] # None
  BY <1>2, <1>3, <1>6, <1>7, <1>8, NothingNew DEF Fewer
<1>10. Shrunk /\ SameDue
  BY <1>3, <1>9 DEF Shrunk, SameDue, At, Fewer
<1>11. ASSUME NEW k \in Live' \cap Interest, cleanup[l][k] # None
       PROVE  l \notin At(k)'.ingress
  BY <1>3, <1>9, <1>11 DEF At
<1>12. \A m \in Link \ {l}, j \in Interest : cleanup'[m][j] = cleanup[m][j]
  BY <1>1, <1>2 DEF Structures
<1>13. QED
  BY <1>2, <1>9, <1>10, <1>11, <1>12

(* The record a call takes out of a bucket, if there is one. *)
LEMMA FirstRecordThere ==
  ASSUME TypeOK, NEW x \in Entry, entry[x] # None
  PROVE  FirstRecord(x) \subseteq timeouts[entry[x].expiration]
  BY DEF FirstRecord

(* The links a match for c takes from the entry x, and what that leaves.   *)
Waited(c, l) == {k \in Matched(c) \cap Interest : l \in entry[entryTable[k]].ingress}

Answered(c, x) == {l \in Link : \E k \in Waited(c, l) : cleanup[l][k] = x}

AfterMatch(c) ==
  [x \in Entry |-> IF Answered(c, x) = {} THEN entry[x]
                                          ELSE WithoutLinks(entry[x], Answered(c, x))]

LEMMA MatchLeaves ==
  ASSUME TypeOK, NEW c, Match(c)
  PROVE  /\ entryTable' = [k \in TableKey |-> IF k \in Matched(c) THEN None ELSE entryTable[k]]
         /\ cleanup' = [l \in Link |-> [i \in Interest |->
                          IF i \in Waited(c, l) THEN None ELSE cleanup[l][i]]]
         /\ now' = now /\ adding' = None
         /\ Release(AfterMatch(c))
         /\ Fewer(entry, AfterMatch(c))
         /\ \A x \in Entry : entry[x] # None =>
              AfterMatch(c)[x].ingress = entry[x].ingress \ Answered(c, x)
<1> DEFINE gone(x) == Answered(c, x)
           e == AfterMatch(c)
<1>1. /\ entryTable' = [k \in TableKey |-> IF k \in Matched(c) THEN None ELSE entryTable[k]]
      /\ cleanup' = [l \in Link |-> [i \in Interest |->
                       IF i \in Waited(c, l) THEN None ELSE cleanup[l][i]]]
      /\ now' = now /\ adding' = None
      /\ Release(e)
  BY DEF Match, AfterMatch, Answered, Waited
<1>2. Structures
  BY EntryThere
<1>3. ASSUME NEW x \in Entry, gone(x) # {}
      PROVE  entry[x] \in PITEntry
  <2>1. PICK l \in Link, k \in Interest : cleanup[l][k] = x
    BY <1>3 DEF Answered, Waited
  <2>2. x \in Held(entryTable, cleanup, timeouts)
    BY <1>2, <2>1, HeldMeans DEF Structures
  <2>3. QED
    BY <2>2, EntryThere
<1>4. /\ \A x \in Entry : e[x] = IF gone(x) = {} THEN entry[x]
                                 ELSE WithoutLinks(entry[x], gone(x))
      /\ e = [x \in Entry |-> e[x]]
  BY DEF AfterMatch
<1> HIDE DEF gone, e
<1>5. ASSUME NEW x \in Entry, entry[x] # None
      PROVE  /\ e[x] \in PITEntry /\ e[x].key = entry[x].key
             /\ e[x].interest = entry[x].interest
             /\ e[x].expiration = entry[x].expiration
             /\ e[x].ingress = entry[x].ingress \ gone(x)
  <2>1. entry[x] \in PITEntry
    BY <1>5 DEF TypeOK
  <2>2. CASE gone(x) = {}
    BY <1>4, <2>1, <2>2
  <2>3. CASE gone(x) # {}
    BY <1>4, <2>1, <2>3, LinksOnly
  <2>4. QED
    BY <2>2, <2>3
<1>6. \A x \in Entry : entry[x] = None => e[x] = None
  BY <1>3, <1>4, InterestAssumption
<1>7. e \in [Entry -> PITEntry \cup {None}]
  BY <1>4, <1>5, <1>6
<1>8. Fewer(entry, e)
  BY <1>5, <1>6, <1>7, InterestAssumption DEF Fewer
<1>9. QED
  BY <1>1, <1>5, <1>8 DEF e, gone

LEMMA TypeMatch ==
  ASSUME TypeOK, NEW c \in Content, Match(c)
  PROVE  TypeOK' /\ adding' = None /\ Shrunk /\ SameDue /\ KeysKept /\ Matching
<1> DEFINE found == Matched(c)
           e == AfterMatch(c)
<1>1. /\ entryTable' = [k \in TableKey |-> IF k \in found THEN None ELSE entryTable[k]]
      /\ cleanup' = [l \in Link |-> [i \in Interest |->
                       IF i \in Waited(c, l) THEN None ELSE cleanup[l][i]]]
      /\ now' = now /\ adding' = None
      /\ Release(e) /\ Fewer(entry, e)
  BY MatchLeaves
<1>2. \E f : timeouts' = [t \in Time |-> timeouts[t] \ f[t]]
  <2>1. PICK r : timeouts' = [t \in Time |-> timeouts[t] \
                   UNION {r[x] : x \in {y \in {entryTable[k] : k \in found} :
                                         entry[y].expiration = t}}]
    BY DEF Match
  <2> DEFINE f == [t \in Time |-> UNION {r[x] : x \in {y \in {entryTable[k] : k \in found} :
                                                        entry[y].expiration = t}}]
  <2>2. timeouts' = [t \in Time |-> timeouts[t] \ f[t]]
    BY <2>1
  <2>3. QED
    BY <2>2
<1> HIDE DEF e
<1>3. Structures
  BY EntryThere
<1>4. Structures' /\ \A k \in TableKey : entryTable'[k] \in {entryTable[k], None}
  BY <1>1, <1>2, <1>3 DEF Structures
<1>5. \A m \in Link, j \in Interest : cleanup'[m][j] \in {cleanup[m][j], None}
  BY <1>1
<1>6. \A t \in Time : timeouts'[t] \subseteq timeouts[t]
  BY <1>2
<1>7. \A y \in Held(entryTable', cleanup', timeouts') : y \in Held(entryTable, cleanup, timeouts)
  BY <1>3, <1>4, <1>5, <1>6, HeldByMap, HeldStill
<1>8. now' \in 0 .. MaxTime
  BY <1>1 DEF TypeOK
<1>9. /\ TypeOK' /\ KeysKept
      /\ \A k \in Live' : /\ k \in Live /\ entryTable'[k] = entryTable[k]
                          /\ entry'[entryTable'[k]] = e[entryTable[k]]
                          /\ entryTable[k] \in Entry /\ entry[entryTable[k]] # None
  BY <1>1, <1>4, <1>7, <1>8, NothingNew DEF Fewer
<1>10. Shrunk /\ SameDue
  <2>1. Fewer(entry, e)
    BY <1>1
  <2>2. QED
    BY <1>9, <2>1 DEF Shrunk, SameDue, At, Fewer
<1>11. \A k \in Live' : k \notin found
  BY <1>1 DEF Live
<1>12. Matching
  BY <1>1, <1>11 DEF Matching, Waited
<1>13. QED
  BY <1>1, <1>9, <1>10, <1>12

LEMMA TypePurge ==
  ASSUME TypeOK, PurgeRecord
  PROVE  /\ TypeOK' /\ adding' = adding /\ Free \subseteq Free'
         /\ Shrunk /\ SameDue /\ KeysKept /\ Matching
<1>1. Lowest(Due) \in Time
  <2>1. Due \subseteq Nat /\ Due \subseteq Time /\ Due # {}
    BY TimeIsLong, BoundsAssumption DEF PurgeRecord, Due, TypeOK
  <2>2. QED
    BY <2>1, LowestIn
<1> DEFINE d == Lowest(Due)
<1> HIDE DEF d
<1>2. PICK x \in timeouts[d] :
        LET k     == entry[x].interest
            y     == entryTable[k]
            first == IF y = None THEN entry ELSE Cleared(entry, {y}, entry[x].ingress)
            left  == first[x].ingress
        IN /\ timeouts' = [timeouts EXCEPT ![d] = @ \ {x}]
           /\ IF Expired(x)
                THEN /\ entryTable' = WithoutEmpty(first, {k})
                     /\ cleanup' = Uncleaned(k, left)
                     /\ Release(LosesLinks(first, k, left))
                ELSE /\ UNCHANGED <<entryTable, cleanup>>
                     /\ Release(entry)
  BY DEF PurgeRecord, d
<1> DEFINE k     == entry[x].interest
           y     == entryTable[k]
           first == IF y = None THEN entry ELSE Cleared(entry, {y}, entry[x].ingress)
           left  == first[x].ingress
           e     == IF Expired(x) THEN LosesLinks(first, k, left) ELSE entry
<1>3. Structures /\ d \in Time
  BY <1>1, EntryThere DEF d
<1>4. x \in Entry /\ x \in Held(entryTable, cleanup, timeouts) /\ entry[x] \in PITEntry
  <2>1. x \in Entry /\ x \in Held(entryTable, cleanup, timeouts)
    BY <1>3, HeldMeans DEF Structures
  <2>2. QED
    BY <2>1, EntryThere
<1>5. k \in Interest /\ k \in TableKey
  BY <1>4 DEF PITEntry, TableKey
<1>6. Fewer(entry, first) /\ (y # None => first[y].ingress \cap entry[x].ingress = {})
  <2>1. CASE y = None
    BY <2>1 DEF TypeOK, Fewer
  <2>2. CASE y # None
    <3>1. entry[y] # None /\ y \in Entry
      BY <1>5, <2>2, EntryThere, InterestAssumption DEF Live
    <3>2. first = Cleared(entry, {y}, entry[x].ingress)
      BY <2>2
    <3>3. Fewer(entry, Cleared(entry, {y}, entry[x].ingress))
      BY <3>1, ClearedFewer DEF TypeOK
    <3>4. Cleared(entry, {y}, entry[x].ingress)[y].ingress \cap entry[x].ingress = {}
      <4>1. ASSUME NEW z \in Entry, entry[z] # None, NEW w
            PROVE  Cleared(entry, {z}, w)[z].ingress \cap w = {}
        BY <4>1, ClearedGone DEF TypeOK
      <4> HIDE DEF y
      <4>2. QED
        BY <3>1, <4>1
    <3> HIDE DEF first, y
    <3>5. QED
      BY <3>2, <3>3, <3>4
  <2>3. QED
    BY <2>1, <2>2
<1>7. /\ timeouts' = [timeouts EXCEPT ![d] = @ \ {x}]
      /\ \/ /\ Expired(x)
            /\ entryTable' = WithoutEmpty(first, {k}) /\ cleanup' = Uncleaned(k, left)
         \/ entryTable' = entryTable /\ cleanup' = cleanup
      /\ Release(e)
  BY <1>2
<1> HIDE DEF first
<1>8. left \in SUBSET Link /\ left \subseteq entry[x].ingress
  <2>1. first[x] \in PITEntry /\ left \subseteq entry[x].ingress
    BY <1>4, <1>6, InterestAssumption DEF Fewer
  <2>2. QED
    BY <2>1 DEF PITEntry
<1> HIDE DEF k, left
<1>9. Fewer(entry, e) /\ (Expired(x) => Fewer(first, e))
  <2>1. \A z \in Held(entryTable, cleanup, timeouts) : first[z] # None
    BY <1>6, EntryThere DEF Fewer
  <2>2. first \in [Entry -> PITEntry \cup {None}]
    BY <1>6 DEF Fewer
  <2>3. Fewer(first, LosesLinks(first, k, left))
    BY <1>3, <1>8, <2>1, <2>2, LosesLinksFewer
  <2>4. Fewer(entry, LosesLinks(first, k, left))
    BY <1>6, <2>3, FewerTransitive
  <2>5. Fewer(entry, entry)
    BY DEF Fewer, TypeOK
  <2>6. QED
    BY <2>3, <2>4, <2>5
<1> HIDE DEF e
<1>10. /\ Structures'
       /\ \A j \in TableKey : entryTable'[j] \in {entryTable[j], None}
       /\ \A m \in Link, j \in Interest : cleanup'[m][j] \in {cleanup[m][j], None}
       /\ \A t \in Time : timeouts'[t] \subseteq timeouts[t]
  <2>1. /\ timeouts' \in [Time -> SUBSET Entry]
        /\ \A t \in Time : timeouts'[t] \subseteq timeouts[t]
    BY <1>3, <1>7 DEF Structures
  <2>2. CASE /\ Expired(x)
             /\ entryTable' = WithoutEmpty(first, {k}) /\ cleanup' = Uncleaned(k, left)
    BY <1>3, <2>1, <2>2, TakenOut DEF Structures
  <2>3. CASE entryTable' = entryTable /\ cleanup' = cleanup
    BY <1>3, <2>1, <2>3 DEF Structures
  <2>4. QED
    BY <1>7, <2>2, <2>3
<1>11. \A z \in Held(entryTable', cleanup', timeouts') : z \in Held(entryTable, cleanup, timeouts)
  BY <1>3, <1>10, HeldByMap, HeldStill
<1>12. now' \in 0 .. MaxTime /\ adding' = adding
  BY DEF PurgeRecord, TypeOK
<1>13. /\ TypeOK' /\ Free \subseteq Free' /\ KeysKept
       /\ \A j \in Live' : /\ j \in Live /\ entryTable'[j] = entryTable[j]
                           /\ entry'[entryTable'[j]] = e[entryTable[j]]
                           /\ entryTable[j] \in Entry /\ entry[entryTable[j]] # None
  BY <1>7, <1>9, <1>10, <1>11, <1>12, NothingNew DEF Fewer
<1>14. Shrunk /\ SameDue
  BY <1>9, <1>13 DEF Shrunk, SameDue, At, Fewer
<1>15. Matching
  <2> SUFFICES ASSUME NEW j \in Live' \cap Interest, NEW m \in Link, m \in At(j)'.ingress
               PROVE  cleanup'[m][j] = cleanup[m][j]
    BY DEF Matching
  <2>1. CASE Expired(x) /\ cleanup' = Uncleaned(k, left) /\ j = k /\ m \in left
    <3>1. m \in entry[x].ingress
      BY <1>8, <2>1
    <3>2. y # None /\ y \in Entry /\ first[y] # None
      BY <1>6, <1>13, <2>1, InterestAssumption DEF Fewer
    <3>3. m \in first[y].ingress
      BY <1>9, <1>13, <2>1, <3>2 DEF At, Fewer
    <3>4. QED
      BY <1>6, <3>1, <3>2, <3>3
  <2>2. CASE cleanup' = Uncleaned(k, left) /\ ~(j = k /\ m \in left)
    BY <1>3, <2>2, TakenOut
  <2>3. CASE cleanup' = cleanup
    BY <2>3
  <2>4. QED
    BY <1>7, <2>1, <2>2, <2>3
<1>16. QED
  BY <1>12, <1>13, <1>14, <1>15

(* An entry that lasts longer, for one more link. *)
LEMMA ProlongedType ==
  ASSUME NEW y \in PITEntry, NEW t \in Time
  PROVE  /\ Prolonged(y, t) \in PITEntry
         /\ Prolonged(y, t).key = y.key
         /\ Prolonged(y, t).interest = y.interest
         /\ Prolonged(y, t).ingress = y.ingress
         /\ Prolonged(y, t).expiration = t
BY DEF Prolonged, PITEntry

LEMMA JoinedType ==
  ASSUME NEW y \in PITEntry, NEW l \in Link
  PROVE  /\ Joined(y, l) \in PITEntry
         /\ Joined(y, l).key = y.key
         /\ Joined(y, l).interest = y.interest
         /\ Joined(y, l).ingress = y.ingress \cup {l}
         /\ Joined(y, l).expiration = y.expiration
BY DEF Joined, PITEntry

LEMMA ExtendType ==
  ASSUME TypeOK, NEW x \in Entry, entry[x] \in PITEntry, NEW t \in Time, Extend(x, t)
  PROVE  /\ timeouts' \in [Time -> SUBSET Entry]
         /\ \A s \in Time : timeouts'[s] \subseteq timeouts[s] \cup {x}
         /\ Longer(x, t) \in Time
<1>1. entry[x].expiration \in Time
  BY DEF PITEntry
<1>2. timeouts \in [Time -> SUBSET Entry]
  BY DEF TypeOK
<1> DEFINE old == entry[x].expiration
<1> HIDE DEF old
<1>3. \/ timeouts' = timeouts
      \/ timeouts' = [timeouts EXCEPT ![t] = @ \cup {x}]
      \/ \E r : timeouts' = [timeouts EXCEPT ![old] = @ \ {r}, ![t] = @ \cup {x}]
  BY DEF Extend, old
<1>4. Longer(x, t) \in Time
  BY <1>1 DEF Longer
<1>5. old \in Time
  BY <1>1 DEF old
<1>6. CASE timeouts' = timeouts
  BY <1>2, <1>4, <1>6
<1>7. CASE timeouts' = [timeouts EXCEPT ![t] = @ \cup {x}]
  BY <1>2, <1>4, <1>7
<1>8. CASE \E r : timeouts' = [timeouts EXCEPT ![old] = @ \ {r}, ![t] = @ \cup {x}]
  <2>1. PICK r : timeouts' = [timeouts EXCEPT ![old] = @ \ {r}, ![t] = @ \cup {x}]
    BY <1>8
  <2>2. timeouts' \in [Time -> SUBSET Entry]
    BY <1>2, <1>5, <2>1
  <2>3. \A s \in Time : timeouts'[s] \subseteq timeouts[s] \cup {x}
    BY <1>2, <1>5, <2>1
  <2>4. QED
    BY <1>4, <2>2, <2>3
<1>9. QED
  BY <1>3, <1>6, <1>7, <1>8

(* The table is as it was and the entry x is replaced by z. *)
LEMMA TypeReplace ==
  ASSUME TypeOK, NEW x \in Held(entryTable, cleanup, timeouts),
         NEW z \in PITEntry, z.key = entry[x].key,
         Release([entry EXCEPT ![x] = z]),
         entryTable' = entryTable,
         cleanup' \in [Link -> [Interest -> Entry \cup {None}]],
         \A l \in Link, i \in Interest : cleanup'[l][i] \in {cleanup[l][i], x},
         timeouts' \in [Time -> SUBSET Entry],
         \A t \in Time : timeouts'[t] \subseteq timeouts[t] \cup {x},
         now' = now, adding' = adding
  PROVE  TypeOK'
<1> DEFINE e == [entry EXCEPT ![x] = z]
<1>1. Structures /\ Structures' /\ x \in Entry
  BY EntryThere DEF Structures
<1>2. e \in [Entry -> PITEntry \cup {None}]
  BY <1>1 DEF TypeOK
<1>3. \A y \in Entry : e[y] = IF y = x THEN z ELSE entry[y]
  BY <1>1 DEF TypeOK
<1> HIDE DEF e
<1>4. \A y \in Entry : entry[y] # None => e[y] # None /\ e[y].key = entry[y].key
  BY <1>3, InterestAssumption
<1>5. \A k \in TableKey : entryTable'[k] \in {entryTable[k], None}
  OBVIOUS
<1>6. \A y \in Held(entryTable', cleanup', timeouts') : y \in Held(entryTable, cleanup, timeouts)
  <2>1. \A l \in Link, i \in Interest :
           cleanup'[l][i] = None \/ cleanup'[l][i] \in Held(entryTable, cleanup, timeouts)
    BY <1>1, HeldByMap
  <2>2. QED
    BY <1>1, <1>5, <2>1, HeldStill
<1>7. now' \in 0 .. MaxTime
  BY DEF TypeOK
<1>8. Release(e)
  BY DEF e
<1>9. QED
  BY <1>1, <1>2, <1>4, <1>5, <1>6, <1>7, <1>8, NothingNew

LEMMA TypeDuplicate ==
  ASSUME TypeOK, NEW i \in Interest, NEW l \in Link, NEW life \in Lifetime,
         AddDuplicate(i, l, life)
  PROVE  TypeOK' /\ adding' = None
<1> DEFINE x == entryTable[i]
           t == now + life
<1>1. x \in Entry /\ x \in Held(entryTable, cleanup, timeouts) /\ entry[x] \in PITEntry
  BY EntryThere DEF AddDuplicate
<1>2. t \in Time
  BY TimeIsLong DEF TypeOK
<1>3. /\ Extend(x, t) /\ adding = None
      /\ Release([entry EXCEPT ![x] = Prolonged(entry[x], Longer(x, t))])
      /\ UNCHANGED <<entryTable, cleanup, now, adding>>
  BY DEF AddDuplicate
<1> HIDE DEF x, t
<1>4. /\ timeouts' \in [Time -> SUBSET Entry]
      /\ \A s \in Time : timeouts'[s] \subseteq timeouts[s] \cup {x}
      /\ Longer(x, t) \in Time
  BY <1>1, <1>2, <1>3, ExtendType
<1>5. Prolonged(entry[x], Longer(x, t)) \in PITEntry
      /\ Prolonged(entry[x], Longer(x, t)).key = entry[x].key
  BY <1>1, <1>4, ProlongedType
<1>6. /\ cleanup' \in [Link -> [Interest -> Entry \cup {None}]]
      /\ \A m \in Link, j \in Interest : cleanup'[m][j] \in {cleanup[m][j], x}
  BY <1>3 DEF TypeOK
<1>7. QED
  BY <1>1, <1>3, <1>4, <1>5, <1>6, TypeReplace

LEMMA TypeAggregated ==
  ASSUME TypeOK, NEW i \in Interest, NEW l \in Link, NEW life \in Lifetime,
         AddAggregated(i, l, life)
  PROVE  TypeOK' /\ adding' = None
<1> DEFINE x == entryTable[i]
           t == now + life
<1>1. x \in Entry /\ x \in Held(entryTable, cleanup, timeouts) /\ entry[x] \in PITEntry
  BY EntryThere DEF AddAggregated
<1>2. t \in Time
  BY TimeIsLong DEF TypeOK
<1>3. /\ Extend(x, t) /\ adding = None /\ ListFor(l, i, x)
      /\ Release([entry EXCEPT ![x] = Joined(Prolonged(entry[x], Longer(x, t)), l)])
      /\ UNCHANGED <<entryTable, now, adding>>
  BY DEF AddAggregated
<1> HIDE DEF x, t
<1>4. /\ timeouts' \in [Time -> SUBSET Entry]
      /\ \A s \in Time : timeouts'[s] \subseteq timeouts[s] \cup {x}
      /\ Longer(x, t) \in Time
  BY <1>1, <1>2, <1>3, ExtendType
<1> DEFINE y == Prolonged(entry[x], Longer(x, t))
           z == Joined(y, l)
<1>5. y \in PITEntry /\ y.key = entry[x].key
  BY <1>1, <1>4, ProlongedType
<1>6. z \in PITEntry /\ z.key = entry[x].key
  <2> HIDE DEF y
  <2>1. QED
    BY <1>5, JoinedType
<1>7. /\ cleanup' \in [Link -> [Interest -> Entry \cup {None}]]
      /\ \A m \in Link, j \in Interest : cleanup'[m][j] \in {cleanup[m][j], x}
  BY <1>1, <1>3 DEF TypeOK, ListFor
<1>8. QED
  <2> HIDE DEF z
  <2>1. Release([entry EXCEPT ![x] = z])
    BY <1>3 DEF z
  <2>2. QED
    BY <1>1, <1>3, <1>4, <1>6, <1>7, <2>1, TypeReplace

(* The pool has what an insertion takes. *)
LEMMA PoolGives ==
  ASSUME NEW i, PoolLeft(i)
  PROVE  /\ Lowest(Free) \in Free
         /\ i.cid # None => Lowest(Free \ {Lowest(Free)}) \in Free \ {Lowest(Free)}
<1>1. IsFiniteSet(Free) /\ Free \subseteq Nat /\ Cardinality(Free) \in Nat
  <2>1. Free \subseteq Entry
    BY DEF Free
  <2>2. IsFiniteSet(Free)
    BY <2>1, FS_Subset, BoundsAssumption
  <2>3. QED
    BY <2>1, <2>2, FS_CardinalityType, BoundsAssumption
<1>2. Cardinality(Free) >= 1 /\ (i.cid # None => Cardinality(Free) >= 2)
  BY <1>1 DEF PoolLeft
<1>3. Free # {}
  BY <1>2, FS_EmptySet
<1>4. Lowest(Free) \in Free
  BY <1>1, <1>3, LowestIn
<1> DEFINE p == Lowest(Free)
           rest == Free \ {p}
<1> HIDE DEF p
<1>5. Cardinality(rest) = Cardinality(Free) - 1
  BY <1>1, <1>4, FS_RemoveElement DEF p
<1>6. ASSUME i.cid # None PROVE rest # {}
  BY <1>1, <1>2, <1>5, <1>6, FS_EmptySet
<1>7. ASSUME i.cid # None PROVE Lowest(rest) \in rest
  <2>1. rest \subseteq Nat /\ rest # {}
    BY <1>1, <1>6, <1>7
  <2> HIDE DEF rest
  <2>2. QED
    BY <2>1, LowestIn
<1>8. QED
  BY <1>4, <1>7 DEF p

LEMMA ListForType ==
  ASSUME Structures, NEW l \in Link, NEW i \in Interest, NEW q \in Entry, ListFor(l, i, q)
  PROVE  /\ cleanup' \in [Link -> [Interest -> Entry \cup {None}]]
         /\ \A m \in Link, j \in Interest : cleanup'[m][j] \in {cleanup[m][j], q}
         /\ cleanup'[l][i] = q
  BY DEF Structures, ListFor

LEMMA TypeInsert ==
  ASSUME TypeOK, NEW i \in Interest, NEW l \in Link, NEW o \in Original, NEW t \in Time,
         PoolLeft(i), Insert(i, l, o, t), now' = now, adding' = None
  PROVE  TypeOK'
<1> DEFINE p == Lowest(Free)
           n == Lowest(Free \ {p})
           a == NewEntry(i, i, l, o, t)
           b == NewEntry(Nameless(i), i, l, o, t)
           H == Held(entryTable, cleanup, timeouts)
           I == Held(entryTable', cleanup', timeouts')
<1>1. p \in Free /\ (i.cid # None => n \in Free \ {p})
  BY PoolGives
<1>2. /\ i \in TableKey /\ a \in PITEntry /\ a.key = i
      /\ i.cid # None => /\ Nameless(i) \in TableKey /\ Nameless(i) # i
                         /\ b \in PITEntry /\ b.key = Nameless(i)
  BY InterestAssumption DEF PITEntry, TableKey, Nameless, NewEntry
<1>3. Structures /\ Free \subseteq Entry /\ (\A y \in Free : y \notin H)
  BY EntryThere DEF Free
<1>4. \/ /\ i.cid = None
         /\ entryTable' = [entryTable EXCEPT ![i] = p]
         /\ ListFor(l, i, p)
         /\ timeouts' = [timeouts EXCEPT ![t] = @ \cup {p}]
         /\ Release([entry EXCEPT ![p] = a])
      \/ /\ i.cid # None
         /\ entryTable' = [entryTable EXCEPT ![i] = p, ![Nameless(i)] = n]
         /\ ListFor(l, i, n)
         /\ timeouts' = [timeouts EXCEPT ![t] = @ \cup {p, n}]
         /\ Release([entry EXCEPT ![p] = a, ![n] = b])
  BY DEF Insert
<1> HIDE DEF p, n, a, b, H, I
<1>5. ASSUME Structures',
             NEW e \in [Entry -> PITEntry \cup {None}], Release(e),
             \A y \in I : y \notin H => e[y] # None,
             \A y \in Entry \ Free : e[y] = entry[y],
             \A k \in TableKey : entryTable'[k] # None =>
               entryTable'[k] = entryTable[k] \/ e[entryTable'[k]].key = k
      PROVE  TypeOK'
  <2>1. \A y \in H : y \in Entry \ Free /\ entry[y] # None
    BY <1>3, EntryThere DEF H
  <2>2. \A y \in I : e[y] # None
    BY <1>5, <2>1, InterestAssumption
  <2>3. ASSUME NEW k \in TableKey, entryTable'[k] # None
        PROVE  e[entryTable'[k]].key = k
    <3>1. CASE entryTable'[k] = entryTable[k]
      <4>1. k \in Live
        BY <2>3, <3>1 DEF Live
      <4>2. entryTable[k] \in H /\ entry[entryTable[k]].key = k
        BY <4>1, EntryThere DEF H, TypeOK
      <4>3. QED
        BY <1>5, <2>1, <3>1, <4>2
    <3>2. QED
      BY <1>5, <2>3, <3>1
  <2>4. /\ entry' \in [Entry -> PITEntry \cup {None}]
        /\ \A y \in I : entry'[y] # None
        /\ \A k \in Live' : entry'[entryTable'[k]].key = k
    BY <1>5, <2>2, <2>3, ReleaseTyped DEF I
  <2>5. QED
    BY <1>5, <2>4 DEF TypeOK, Structures, I
<1>6. ASSUME Structures', NEW y, y \in I, NEW S,
             \A k \in TableKey : entryTable'[k] \in {entryTable[k]} \cup S,
             \A m \in Link, j \in Interest : cleanup'[m][j] \in {cleanup[m][j]} \cup S,
             \A s \in Time : timeouts'[s] \subseteq timeouts[s] \cup S
      PROVE  y \in H \/ y \in S
  <2>1. /\ entryTable' \in [TableKey -> Entry \cup {None}]
        /\ cleanup' \in [Link -> [Interest -> Entry \cup {None}]]
        /\ timeouts' \in [Time -> SUBSET Entry]
    BY <1>6 DEF Structures
  <2>2. /\ y \in Entry
        /\ \/ \E k \in TableKey : entryTable'[k] = y
           \/ \E m \in Link, j \in Interest : cleanup'[m][j] = y
           \/ \E s \in Time : y \in timeouts'[s]
    BY <1>6, <2>1, HeldMeans DEF I
  <2>3. \/ y \in S
        \/ \E k \in TableKey : entryTable[k] = y
        \/ \E m \in Link, j \in Interest : cleanup[m][j] = y
        \/ \E s \in Time : y \in timeouts[s]
    BY <1>6, <2>2
  <2>4. QED
    BY <1>3, <2>2, <2>3, HeldMeans DEF H, Structures
<1>7. CASE i.cid = None
  <2>0. /\ cleanup' \in [Link -> [Interest -> Entry \cup {None}]]
        /\ \A m \in Link, j \in Interest : cleanup'[m][j] \in {cleanup[m][j], p}
    BY <1>1, <1>3, <1>4, <1>7, ListForType
  <2>1. Structures'
    <3>1. entryTable' \in [TableKey -> Entry \cup {None}]
      BY <1>1, <1>2, <1>3, <1>4, <1>7 DEF Structures
    <3>2. timeouts' \in [Time -> SUBSET Entry]
      BY <1>1, <1>3, <1>4, <1>7 DEF Structures
    <3>3. QED
      BY <2>0, <3>1, <3>2 DEF Structures
  <2> DEFINE e == [entry EXCEPT ![p] = a]
  <2>2. e \in [Entry -> PITEntry \cup {None}] /\ e[p] = a
        /\ \A y \in Entry \ Free : e[y] = entry[y]
    BY <1>1, <1>2, <1>3 DEF TypeOK
  <2>3. \A y \in I : y \in H \/ y \in {p}
    <3>1. \A k \in TableKey : entryTable'[k] \in {entryTable[k]} \cup {p}
      BY <1>2, <1>3, <1>4, <1>7 DEF Structures
    <3>2. \A s \in Time : timeouts'[s] \subseteq timeouts[s] \cup {p}
      BY <1>3, <1>4, <1>7 DEF Structures
    <3>3. \A m \in Link, j \in Interest : cleanup'[m][j] \in {cleanup[m][j]} \cup {p}
      BY <2>0
    <3>4. QED
      BY <1>6, <2>1, <3>1, <3>2, <3>3
  <2>4. \A y \in I : y \notin H => e[y] # None
    BY <1>2, <2>2, <2>3, InterestAssumption
  <2>5. \A k \in TableKey : entryTable'[k] # None =>
           entryTable'[k] = entryTable[k] \/ e[entryTable'[k]].key = k
    BY <1>2, <1>3, <1>4, <1>7, <2>2 DEF Structures
  <2>6. Release(e)
    BY <1>4, <1>7
  <2> HIDE DEF e
  <2>7. QED
    BY <1>5, <2>1, <2>2, <2>4, <2>5, <2>6
<1>8. CASE i.cid # None
  <2>0. /\ cleanup' \in [Link -> [Interest -> Entry \cup {None}]]
        /\ \A m \in Link, j \in Interest : cleanup'[m][j] \in {cleanup[m][j], n}
    BY <1>1, <1>3, <1>4, <1>8, ListForType
  <2>1. Structures'
    <3>1. entryTable' \in [TableKey -> Entry \cup {None}]
      BY <1>1, <1>2, <1>3, <1>4, <1>8 DEF Structures
    <3>2. timeouts' \in [Time -> SUBSET Entry]
      BY <1>1, <1>3, <1>4, <1>8 DEF Structures
    <3>3. QED
      BY <2>0, <3>1, <3>2 DEF Structures
  <2> DEFINE e == [entry EXCEPT ![p] = a, ![n] = b]
  <2>2. e \in [Entry -> PITEntry \cup {None}] /\ e[p] = a /\ e[n] = b
        /\ \A y \in Entry \ Free : e[y] = entry[y]
    BY <1>1, <1>2, <1>3, <1>8 DEF TypeOK
  <2>3. \A y \in I : y \in H \/ y \in {p, n}
    <3>1. \A k \in TableKey : entryTable'[k] \in {entryTable[k]} \cup {p, n}
      BY <1>2, <1>3, <1>4, <1>8 DEF Structures
    <3>2. \A s \in Time : timeouts'[s] \subseteq timeouts[s] \cup {p, n}
      BY <1>3, <1>4, <1>8 DEF Structures
    <3>3. \A m \in Link, j \in Interest : cleanup'[m][j] \in {cleanup[m][j]} \cup {p, n}
      BY <2>0
    <3>4. QED
      BY <1>6, <2>1, <3>1, <3>2, <3>3
  <2>4. \A y \in I : y \notin H => e[y] # None
    BY <1>2, <1>8, <2>2, <2>3, InterestAssumption
  <2>5. \A k \in TableKey : entryTable'[k] # None =>
           entryTable'[k] = entryTable[k] \/ e[entryTable'[k]].key = k
    BY <1>2, <1>3, <1>4, <1>8, <2>2 DEF Structures
  <2>6. Release(e)
    BY <1>4, <1>8
  <2> HIDE DEF e
  <2>7. QED
    BY <1>5, <2>1, <2>2, <2>4, <2>5, <2>6
<1>9. QED
  BY <1>7, <1>8

LEMMA TypeNext == TypeInv /\ [Next]_vars => TypeInv'
<1> SUFFICES ASSUME TypeInv, [Next]_vars PROVE TypeInv'
  OBVIOUS
<1>1. TypeOK
  BY DEF TypeInv
<1>2. ASSUME TypeOK', adding' = None PROVE TypeInv'
  BY <1>2 DEF TypeInv
<1>3. ASSUME NEW i \in Interest, NEW l \in Link, NEW o \in Original, NEW life \in Lifetime,
             AddInterest(i, l, o, life)
      PROVE  TypeInv'
  <2>1. now + life \in Time
    BY <1>1, TimeIsLong DEF TypeOK
  <2>2. CASE AddNew(i, l, o, life)
    <3>1. TypeOK' /\ adding' = None
      BY <1>1, <2>1, <2>2, TypeInsert DEF AddNew
    <3>2. QED
      BY <1>2, <3>1
  <2>3. CASE AddFull(i, l, o, life)
    BY <1>1, <2>1, <2>3 DEF AddFull, TypeInv, TypeOK, Live, PoolLeft, Free
  <2>4. CASE AddDuplicate(i, l, life)
    BY <1>1, <1>2, <2>4, TypeDuplicate
  <2>5. CASE AddAggregated(i, l, life)
    BY <1>1, <1>2, <2>5, TypeAggregated
  <2>6. QED
    BY <1>3, <2>2, <2>3, <2>4, <2>5 DEF AddInterest
<1>4. CASE PurgeRecord
  <2>1. TypeOK' /\ adding' = adding /\ Free \subseteq Free' /\ adding # None
    BY <1>1, <1>4, TypePurge DEF PurgeRecord
  <2>2. Cardinality(Free) <= Cardinality(Free') /\ Cardinality(Free) \in Nat
        /\ Cardinality(Free') \in Nat
    <3>1. IsFiniteSet(Free')
      BY FS_Subset, BoundsAssumption DEF Free
    <3>2. QED
      BY <2>1, <3>1, FS_Subset, FS_CardinalityType
  <2>3. QED
    BY <2>1, <2>2 DEF TypeInv, PoolLeft
<1>5. CASE AddAfterPurge
  <2>1. /\ adding.interest \in Interest /\ adding.link \in Link
        /\ adding.original \in Original /\ adding.expiration \in Time
    BY <1>1, <1>5 DEF AddAfterPurge, TypeOK
  <2>2. PoolLeft(adding.interest)
    BY <1>5 DEF AddAfterPurge, TypeInv
  <2>3. TypeOK' /\ adding' = None
    BY <1>1, <1>5, <2>1, <2>2, TypeInsert DEF AddAfterPurge
  <2>4. QED
    BY <1>2, <2>3
<1>6. CASE AddRefused
  BY <1>1, <1>2, <1>6 DEF AddRefused, TypeOK, Live
<1>7. ASSUME NEW i \in Interest, NEW l \in Link, RemoveInterest(i, l)
      PROVE  TypeInv'
  BY <1>1, <1>2, <1>7, TypeRemoveInterest
<1>8. ASSUME NEW c \in Content, Match(c)
      PROVE  TypeInv'
  BY <1>1, <1>2, <1>8, TypeMatch
<1>9. ASSUME NEW l \in Link, RemoveLink(l)
      PROVE  TypeInv'
  BY <1>1, <1>2, <1>9, TypeRemoveLink
<1>10. CASE Tick
  <2>1. TypeOK'
    BY <1>1, <1>10, BoundsAssumption DEF Tick, TypeOK, Live
  <2>2. QED
    BY <1>2, <1>10, <2>1 DEF Tick
<1>11. CASE UNCHANGED vars
  BY <1>11 DEF vars, TypeInv, TypeOK, Live, PoolLeft, Free
<1>12. QED
  BY <1>3, <1>4, <1>5, <1>6, <1>7, <1>8, <1>9, <1>10, <1>11 DEF Next

LEMMA TypeInit == Init => TypeInv
<1> SUFFICES ASSUME Init PROVE TypeInv
  OBVIOUS
<1>1. Structures
  BY DEF Init, Structures
<1>2. ASSUME NEW x, x \in Held(entryTable, cleanup, timeouts)
      PROVE  FALSE
  <2>1. /\ x \in Entry
        /\ \/ \E k \in TableKey : entryTable[k] = x
           \/ \E l \in Link, i \in Interest : cleanup[l][i] = x
           \/ \E t \in Time : x \in timeouts[t]
    BY <1>1, <1>2, HeldMeans DEF Structures
  <2>2. QED
    BY <2>1, InterestAssumption DEF Init
<1>3. now \in 0 .. MaxTime
  BY BoundsAssumption DEF Init
<1>4. QED
  BY <1>1, <1>2, <1>3 DEF Init, TypeInv, TypeOK, Structures, Live

(* Table, maps and buckets keep their types, refer only to entries that    *)
(* exist, and have them under their own keys, whatever entries are         *)
(* replaced, purged and released.                                          *)
THEOREM TypeCorrect == Spec => []TypeOK
<1>1. TypeInv => TypeOK
  BY DEF TypeInv
<1>2. QED
  BY <1>1, TypeInit, TypeNext, PTL DEF Spec

(***************************************************************************)
(* The clean-up maps, when no interest has a content id: then a live key   *)
(* is an interest, and the map of every link that waits for it names its   *)
(* entry.  With content ids this is not so: AthenaPIT_HashedRemoveLink has *)
(* the counterexample.                                                     *)
(***************************************************************************)

(* An entry is found under its interest. *)
InterestIsKey == \A k \in Live : At(k).interest = k

ListedInv == TypeInv /\ InterestIsKey /\ IngressListed

(* A step that makes no entry, and keeps the maps of the links that stay.  *)
LEMMA ListedShrunk ==
  ASSUME ListedInv, Unhashed, Shrunk, Matching
  PROVE  InterestIsKey' /\ IngressListed'
<1>1. InterestIsKey'
  BY DEF ListedInv, InterestIsKey, Shrunk
<1>2. \A k \in Live' : k \in Interest
  BY DEF Live, TableKey, Unhashed
<1>3. ASSUME NEW k \in Live', NEW l \in At(k)'.ingress
      PROVE  cleanup'[l][At(k)'.interest] = entryTable'[k]
  <2>1. /\ k \in Live /\ entryTable'[k] = entryTable[k]
        /\ At(k).interest = k /\ At(k)'.interest = k
        /\ l \in At(k).ingress
    BY <1>3 DEF Shrunk, ListedInv, InterestIsKey
  <2>2. l \in Link
    <3>1. At(k) \in PITEntry
      BY <2>1, EntryThere DEF ListedInv, TypeInv, At
    <3>2. QED
      BY <2>1, <3>1 DEF PITEntry
  <2>3. cleanup'[l][k] = cleanup[l][k]
    BY <1>2, <1>3, <2>2 DEF Matching
  <2>4. cleanup[l][k] = entryTable[k]
    BY <2>1 DEF ListedInv, IngressListed
  <2>5. QED
    BY <2>1, <2>3, <2>4
<1>4. QED
  BY <1>1, <1>3 DEF IngressListed

(* athenaPIT_RemoveLink finds every entry of the link. *)
LEMMA RemoveLinkFinds ==
  ASSUME ListedInv, Unhashed, NEW l \in Link, RemoveLink(l)
  PROVE  /\ \A k \in Live' : l \notin At(k)'.ingress
         /\ Shrunk /\ Matching
<1>1. /\ Shrunk
      /\ \A k \in Live' \cap Interest : cleanup[l][k] # None => l \notin At(k)'.ingress
      /\ \A m \in Link \ {l}, j \in Interest : cleanup'[m][j] = cleanup[m][j]
  BY TypeRemoveLink DEF ListedInv, TypeInv
<1>2. ASSUME NEW k \in Live', l \in At(k)'.ingress
      PROVE  FALSE
  <2>1. k \in Live /\ l \in At(k).ingress /\ k \in Interest
    BY <1>1, <1>2 DEF Shrunk, Live, TableKey, Unhashed
  <2>2. cleanup[l][k] = entryTable[k]
    BY <2>1 DEF ListedInv, IngressListed, InterestIsKey
  <2>3. QED
    BY <1>1, <1>2, <2>1, <2>2 DEF Live
<1>3. Matching
  BY <1>1, <1>2 DEF Matching
<1>4. QED
  BY <1>1, <1>2, <1>3

(* An entry of the table is what the step made of it.                      *)
LEMMA ReleaseKeeps ==
  ASSUME TypeOK', NEW e, Release(e)
  PROVE  \A k \in Live' : At(k)' = e[entryTable'[k]]
<1>1. Structures'
  BY DEF TypeOK, Structures
<1> SUFFICES ASSUME NEW k \in Live' PROVE At(k)' = e[entryTable'[k]]
  OBVIOUS
<1>2. k \in TableKey /\ entryTable'[k] \in Entry
  BY <1>1 DEF Live, Structures
<1>3. entryTable'[k] \in Held(entryTable', cleanup', timeouts')
  BY <1>1, <1>2, HeldMeans DEF Structures
<1>4. QED
  BY <1>2, <1>3 DEF Release, At

(* A step that puts a link among those that wait for i, with the entry x.  *)
LEMMA ListedJoined ==
  ASSUME ListedInv, Unhashed, NEW i \in Interest, NEW l \in Link, NEW x,
         \A k \in Live' : k # i =>
           k \in Live /\ entryTable'[k] = entryTable[k] /\ At(k)' = At(k),
         entryTable'[i] = x,
         At(i)'.interest = i,
         \A m \in At(i)'.ingress : m # l =>
           i \in Live /\ entryTable[i] = x /\ m \in At(i).ingress,
         cleanup'[l][i] = x,
         \A m \in Link, j \in Interest : m # l \/ j # i => cleanup'[m][j] = cleanup[m][j]
  PROVE  InterestIsKey' /\ IngressListed'
<1>1. InterestIsKey'
  BY DEF ListedInv, InterestIsKey
<1>2. \A k \in Live : k \in Interest /\ At(k) \in PITEntry /\ At(k).ingress \subseteq Link
  <2>1. \A k \in Live : At(k) \in PITEntry
    BY EntryThere DEF ListedInv, TypeInv, At
  <2>2. QED
    BY <2>1 DEF Live, TableKey, Unhashed, PITEntry
<1>3. ASSUME NEW k \in Live', NEW m \in At(k)'.ingress
      PROVE  cleanup'[m][At(k)'.interest] = entryTable'[k]
  <2>1. CASE k = i /\ m = l
    BY <2>1
  <2>2. CASE k = i /\ m # l
    <3>1. i \in Live /\ entryTable[i] = x /\ m \in At(i).ingress
      BY <1>3, <2>2
    <3>2. m \in Link /\ cleanup[m][i] = x
      BY <1>2, <3>1 DEF ListedInv, InterestIsKey, IngressListed
    <3>3. QED
      BY <2>2, <3>2
  <2>3. CASE k # i
    <3>1. /\ k \in Live /\ entryTable'[k] = entryTable[k]
          /\ At(k)' = At(k) /\ At(k).interest = k
      BY <1>3, <2>3 DEF ListedInv, InterestIsKey
    <3>2. m \in Link /\ k \in Interest /\ cleanup[m][k] = entryTable[k]
      BY <1>2, <1>3, <3>1 DEF ListedInv, IngressListed
    <3>3. QED
      BY <2>3, <3>1, <3>2
  <2>4. QED
    BY <2>1, <2>2, <2>3
<1>4. QED
  BY <1>1, <1>3 DEF IngressListed

LEMMA ListedDuplicate ==
  ASSUME ListedInv, TypeOK', Unhashed, NEW i \in Interest, NEW l \in Link,
         NEW life \in Lifetime, AddDuplicate(i, l, life)
  PROVE  InterestIsKey' /\ IngressListed'
<1> DEFINE x == entryTable[i]
           t == now + life
           z == Prolonged(entry[x], Longer(x, t))
<1>1. /\ x \in Entry /\ entry[x] \in PITEntry
      /\ entry \in [Entry -> PITEntry \cup {None}]
  BY EntryThere DEF AddDuplicate, ListedInv, TypeInv, TypeOK
<1>2. z.interest = entry[x].interest /\ z.ingress = entry[x].ingress
  <2> HIDE DEF x, t
  <2>1. QED
    BY <1>1 DEF z, Prolonged, PITEntry
<1>3. Release([entry EXCEPT ![x] = z]) /\ UNCHANGED <<entryTable, cleanup>>
  BY DEF AddDuplicate
<1> HIDE DEF z, x
<1>4. \A k \in Live' : At(k)' = [entry EXCEPT ![x] = z][entryTable'[k]]
  BY <1>3, ReleaseKeeps
<1>5. \A k \in Live' : k \in Live /\ entryTable[k] \in Entry
  BY <1>3, EntryThere DEF Live, ListedInv, TypeInv
<1>6. Shrunk
  <2> SUFFICES ASSUME NEW k \in Live'
               PROVE  /\ k \in Live /\ entryTable'[k] = entryTable[k]
                      /\ At(k)'.interest = At(k).interest
                      /\ At(k)'.ingress \subseteq At(k).ingress
    BY DEF Shrunk
  <2>1. At(k)' = IF entryTable[k] = x THEN z ELSE At(k)
    BY <1>1, <1>3, <1>4, <1>5 DEF At
  <2>2. QED
    BY <1>2, <1>3, <1>5, <2>1 DEF At
<1>7. Matching
  BY <1>3 DEF Matching
<1>8. QED
  BY <1>6, <1>7, ListedShrunk

LEMMA ListedAggregated ==
  ASSUME ListedInv, TypeOK', Unhashed, NEW i \in Interest, NEW l \in Link,
         NEW life \in Lifetime, AddAggregated(i, l, life)
  PROVE  InterestIsKey' /\ IngressListed'
<1> DEFINE x == entryTable[i]
           t == now + life
           z == Joined(Prolonged(entry[x], Longer(x, t)), l)
<1>1. /\ x \in Entry /\ entry[x] \in PITEntry /\ i \in Live
      /\ entry \in [Entry -> PITEntry \cup {None}]
  BY EntryThere DEF AddAggregated, ListedInv, TypeInv, TypeOK
<1>2. z.interest = entry[x].interest /\ z.ingress = entry[x].ingress \cup {l}
  <2> HIDE DEF x, t
  <2>1. QED
    BY <1>1 DEF z, Prolonged, Joined, PITEntry
<1>3. Release([entry EXCEPT ![x] = z]) /\ entryTable' = entryTable /\ ListFor(l, i, x)
  BY DEF AddAggregated
<1> HIDE DEF z, t
<1>4. \A k \in Live' : At(k)' = [entry EXCEPT ![x] = z][entryTable'[k]]
  BY <1>3, ReleaseKeeps
<1>5. \A k \in Live' : k \in Live /\ entryTable[k] \in Entry /\ entry[entryTable[k]].key = k
  BY <1>3, EntryThere DEF Live, ListedInv, TypeInv, TypeOK
<1>6. Live' = Live /\ entry[x].key = i
  BY <1>1, <1>3 DEF Live, ListedInv, TypeInv, TypeOK
<1>7. /\ \A m \in Link, j \in Interest : m # l \/ j # i => cleanup'[m][j] = cleanup[m][j]
      /\ cleanup'[l][i] = x
  <2>1. cleanup \in [Link -> [Interest -> Entry \cup {None}]]
    BY DEF ListedInv, TypeInv, TypeOK
  <2> HIDE DEF x
  <2>2. QED
    BY <1>3, <2>1 DEF ListFor
<1>8. \A k \in Live' : k # i => At(k)' = At(k)
  <2> HIDE DEF x
  <2>1. QED
    BY <1>1, <1>3, <1>4, <1>5, <1>6 DEF At
<1>9. At(i)' = z /\ At(i) = entry[x]
  BY <1>1, <1>3, <1>4, <1>6 DEF At
<1>10. At(i)'.interest = i
  BY <1>1, <1>2, <1>9 DEF ListedInv, InterestIsKey
<1>11. \A m \in At(i)'.ingress : m # l => m \in At(i).ingress
  BY <1>2, <1>9
<1>12. QED
  BY <1>1, <1>3, <1>5, <1>7, <1>8, <1>10, <1>11, ListedJoined

LEMMA ListedInsert ==
  ASSUME ListedInv, TypeOK', Unhashed, NEW i \in Interest, NEW l \in Link,
         NEW o, NEW t, PoolLeft(i), Insert(i, l, o, t)
  PROVE  InterestIsKey' /\ IngressListed'
<1> DEFINE p == Lowest(Free)
           a == NewEntry(i, i, l, o, t)
<1>1. /\ p \in Entry /\ entry[p] = None /\ i \in TableKey
      /\ entry \in [Entry -> PITEntry \cup {None}]
      /\ entryTable \in [TableKey -> Entry \cup {None}]
      /\ cleanup \in [Link -> [Interest -> Entry \cup {None}]]
  BY PoolGives DEF Free, ListedInv, TypeInv, TypeOK, TableKey
<1>2. a.interest = i /\ a.ingress = {l}
  BY DEF NewEntry
<1>3. /\ entryTable' = [entryTable EXCEPT ![i] = p]
      /\ ListFor(l, i, p) /\ Release([entry EXCEPT ![p] = a])
  BY DEF Insert, Unhashed
<1> HIDE DEF p, a
<1>4. \A k \in Live' : At(k)' = [entry EXCEPT ![p] = a][entryTable'[k]]
  BY <1>3, ReleaseKeeps
<1>5. \A k \in Live' : k # i => k \in Live /\ entryTable'[k] = entryTable[k]
  BY <1>1, <1>3 DEF Live
<1>6. \A k \in Live : entryTable[k] \in Entry /\ entry[entryTable[k]] # None
  BY EntryThere DEF ListedInv, TypeInv
<1>7. \A k \in Live' : k # i => At(k)' = At(k)
  BY <1>1, <1>4, <1>5, <1>6 DEF At
<1>8. entryTable'[i] = p /\ i \in Live'
  BY <1>1, <1>3, InterestAssumption DEF Live
<1>9. At(i)' = a
  BY <1>1, <1>4, <1>8
<1>10. /\ \A m \in Link, j \in Interest : m # l \/ j # i => cleanup'[m][j] = cleanup[m][j]
       /\ cleanup'[l][i] = p
  BY <1>1, <1>3 DEF ListFor
<1>11. QED
  BY <1>2, <1>5, <1>7, <1>8, <1>9, <1>10, ListedJoined

LEMMA ListedNext ==
  ASSUME Unhashed
  PROVE  ListedInv /\ [Next]_vars => ListedInv'
<1> SUFFICES ASSUME ListedInv, [Next]_vars PROVE ListedInv'
  OBVIOUS
<1>1. TypeInv /\ TypeOK /\ TypeInv' /\ TypeOK'
  BY TypeNext DEF ListedInv, TypeInv
<1> SUFFICES InterestIsKey' /\ IngressListed'
  BY <1>1 DEF ListedInv
<1>2. CASE UNCHANGED <<entry, entryTable, cleanup>>
  BY <1>2 DEF ListedInv, InterestIsKey, IngressListed, Live, At
<1>3. ASSUME NEW i \in Interest, NEW l \in Link, NEW o \in Original, NEW life \in Lifetime,
             AddInterest(i, l, o, life)
      PROVE  InterestIsKey' /\ IngressListed'
  <2>1. CASE AddNew(i, l, o, life)
    BY <1>1, <2>1, ListedInsert DEF AddNew
  <2>2. CASE AddFull(i, l, o, life)
    BY <1>2, <2>2 DEF AddFull
  <2>3. CASE AddDuplicate(i, l, life)
    BY <1>1, <2>3, ListedDuplicate
  <2>4. CASE AddAggregated(i, l, life)
    BY <1>1, <2>4, ListedAggregated
  <2>5. QED
    BY <1>3, <2>1, <2>2, <2>3, <2>4 DEF AddInterest
<1>4. CASE PurgeRecord
  BY <1>1, <1>4, TypePurge, ListedShrunk
<1>5. CASE AddAfterPurge
  <2>1. adding.interest \in Interest /\ adding.link \in Link /\ PoolLeft(adding.interest)
    BY <1>1, <1>5 DEF AddAfterPurge, TypeInv, TypeOK
  <2>2. QED
    BY <1>1, <1>5, <2>1, ListedInsert DEF AddAfterPurge
<1>6. CASE AddRefused
  BY <1>2, <1>6 DEF AddRefused
<1>7. ASSUME NEW i \in Interest, NEW l \in Link, RemoveInterest(i, l)
      PROVE  InterestIsKey' /\ IngressListed'
  BY <1>1, <1>7, TypeRemoveInterest, ListedShrunk
<1>8. ASSUME NEW c \in Content, Match(c)
      PROVE  InterestIsKey' /\ IngressListed'
  BY <1>1, <1>8, TypeMatch, ListedShrunk
<1>9. ASSUME NEW l \in Link, RemoveLink(l)
      PROVE  InterestIsKey' /\ IngressListed'
  BY <1>9, RemoveLinkFinds, ListedShrunk
<1>10. CASE Tick
  BY <1>2, <1>10 DEF Tick
<1>11. CASE UNCHANGED vars
  BY <1>2, <1>11 DEF vars
<1>12. QED
  BY <1>3, <1>4, <1>5, <1>6, <1>7, <1>8, <1>9, <1>10, <1>11 DEF Next

LEMMA ListedInit == Init => ListedInv
<1> SUFFICES ASSUME Init PROVE ListedInv
  OBVIOUS
<1>1. TypeInv /\ Live = {}
  BY TypeInit DEF Init, Live
<1>2. QED
  BY <1>1 DEF ListedInv, InterestIsKey, IngressListed

(* When no interest has a content id, the clean-up map of every link that  *)
(* waits for an entry names that entry, also after the interest was        *)
(* removed, satisfied or purged and asked for again.                       *)
THEOREM IngressIsListed ==
  ASSUME Unhashed
  PROVE  Spec => []IngressListed
<1>1. ListedInv => IngressListed
  BY DEF ListedInv
<1>2. QED
  BY <1>1, ListedInit, ListedNext, PTL DEF Spec

(* When no interest has a content id, athenaPIT_RemoveLink leaves no entry *)
(* that would send to the link.                                            *)
THEOREM RemovedLinksAreGone ==
  ASSUME Unhashed
  PROVE  Spec => RemovedLinkIsGone
<1>1. ListedInv /\ [Next]_vars =>
        [\A l \in Link : RemoveLink(l) => \A k \in Live' : l \notin At(k)'.ingress]_vars
  BY RemoveLinkFinds
<1>2. QED
  BY <1>1, ListedInit, ListedNext, PTL DEF Spec, RemovedLinkIsGone

(***************************************************************************)
(* The timeout records, whatever content ids the interests have.           *)
(***************************************************************************)

(* A step that makes no entry, and takes no record of a live entry out of  *)
(* a bucket that is not due.                                               *)
LEMMA ScheduledShrunk ==
  ASSUME LaterIsScheduled, Shrunk, SameDue, now' = now,
         \A k \in Live' : At(k).expiration > now =>
           (entryTable[k] \in timeouts[At(k).expiration] =>
              entryTable[k] \in timeouts'[At(k).expiration])
  PROVE  LaterIsScheduled'
<1> SUFFICES ASSUME NEW k \in Live', At(k)'.expiration > now'
             PROVE  entryTable'[k] \in timeouts'[At(k)'.expiration]
  BY DEF LaterIsScheduled
<1>1. /\ k \in Live /\ entryTable'[k] = entryTable[k]
      /\ At(k)'.expiration = At(k).expiration /\ At(k).expiration > now
  BY DEF Shrunk, SameDue
<1>2. entryTable[k] \in timeouts[At(k).expiration]
  BY <1>1 DEF LaterIsScheduled
<1>3. QED
  BY <1>1, <1>2

(* The purge takes records only out of a bucket that is due.               *)
LEMMA PurgeTakesDue ==
  ASSUME TypeOK, PurgeRecord
  PROVE  \A t \in Time : t > now => timeouts'[t] = timeouts[t]
<1>1. Lowest(Due) \in Due
  <2>1. Due \subseteq Nat /\ Due # {}
    BY TimeIsLong, BoundsAssumption DEF PurgeRecord, Due, TypeOK
  <2>2. QED
    BY <2>1, LowestIn
<1>2. Lowest(Due) \in Time /\ Lowest(Due) <= now /\ now \in Nat
  BY <1>1, BoundsAssumption DEF Due, TypeOK
<1>3. \E x : timeouts' = [timeouts EXCEPT ![Lowest(Due)] = @ \ {x}]
  BY DEF PurgeRecord
<1>4. timeouts \in [Time -> SUBSET Entry] /\ Time \subseteq Nat
  BY TimeIsLong, BoundsAssumption DEF TypeOK
<1> HIDE DEF Due
<1>5. QED
  BY <1>2, <1>3, <1>4

(* The records a match takes out were made for entries of a key it found.  *)
LEMMA MatchTakesFound ==
  ASSUME TypeOK, NEW c \in Content, Match(c)
  PROVE  \A k \in Live', t \in Time :
           entryTable[k] \in timeouts[t] => entryTable[k] \in timeouts'[t]
<1> DEFINE found == Matched(c)
           X     == {entryTable[k] : k \in found}
<1>1. PICK r \in [X -> SUBSET Entry] :
        /\ \A x \in X : \/ FirstRecord(x) = {} /\ r[x] = {}
                        \/ \E y \in FirstRecord(x) : r[x] = {y}
        /\ timeouts' = [t \in Time |-> timeouts[t] \
                          UNION {r[x] : x \in {y \in X : entry[y].expiration = t}}]
  BY DEF Match
<1>2. \A x \in X : entry[x].key \in found
  BY EntryThere DEF Matched, TypeOK
<1>3. \A x \in X : \A y \in r[x] : entry[y].key \in found
  BY <1>1, <1>2 DEF FirstRecord
<1>4. \A k \in Live' : k \in Live /\ k \notin found /\ entry[entryTable[k]].key \notin found
  <2>1. entryTable' = [k \in TableKey |-> IF k \in found THEN None ELSE entryTable[k]]
    BY DEF Match
  <2>2. \A k \in Live' : k \in Live /\ k \notin found
    BY <2>1 DEF Live
  <2>3. QED
    BY <2>2 DEF TypeOK
<1> HIDE DEF X
<1>5. \A k \in Live' : \A x \in X : entryTable[k] \notin r[x]
  BY <1>3, <1>4
<1>6. QED
  BY <1>1, <1>5

(* A request that extends an entry moves the record of that entry.         *)
LEMMA ScheduledExtend ==
  ASSUME TypeOK, TypeOK', LaterIsScheduled, NEW i \in Live, NEW x, x = entryTable[i],
         NEW t \in Time, Extend(x, t), NEW z, z.expiration = Longer(x, t),
         Release([entry EXCEPT ![x] = z]), entryTable' = entryTable, now' = now
  PROVE  LaterIsScheduled'
<1>1. /\ x \in Entry /\ entry[x] \in PITEntry /\ entry[x].key = i
      /\ entry[x].expiration \in Time /\ Time \subseteq Nat
      /\ entry \in [Entry -> PITEntry \cup {None}]
      /\ timeouts \in [Time -> SUBSET Entry]
  BY EntryThere, TimeIsLong, BoundsAssumption DEF TypeOK, PITEntry
<1> DEFINE old == entry[x].expiration
<1> HIDE DEF old
<1>2. /\ \A s \in Time : \A y \in timeouts[s] :
           entry[y].key # i => y \in timeouts'[s]
      /\ x \in timeouts[old] \/ t > old => x \in timeouts'[Longer(x, t)]
  <2>0. old \in Time
    BY <1>1 DEF old
  <2>1. CASE t > old /\ FirstRecord(x) = {}
    BY <1>1, <2>0, <2>1 DEF Extend, Longer, old
  <2>2. CASE t > old /\ FirstRecord(x) # {}
    <3>1. PICK r \in FirstRecord(x) :
            timeouts' = [timeouts EXCEPT ![old] = @ \ {r}, ![t] = @ \cup {x}]
      BY <2>2 DEF Extend, old
    <3>2. entry[r].key = i
      BY <1>1, <3>1 DEF FirstRecord
    <3>3. Longer(x, t) = t
      BY <2>2 DEF Longer, old
    <3>4. \A s \in Time : \A y \in timeouts[s] : entry[y].key # i => y \in timeouts'[s]
      BY <1>1, <2>0, <3>1, <3>2
    <3>5. x \in timeouts'[t]
      BY <1>1, <2>0, <2>2, <3>1
    <3>6. QED
      BY <3>3, <3>4, <3>5
  <2>3. CASE ~(t > old)
    BY <2>3 DEF Extend, Longer, old
  <2>4. QED
    BY <2>1, <2>2, <2>3
<1>3. \A k \in Live' : At(k)' = [entry EXCEPT ![x] = z][entryTable[k]]
  BY ReleaseKeeps
<1>4. \A k \in Live' : /\ k \in Live /\ entryTable[k] \in Entry
                       /\ entry[entryTable[k]].key = k
                       /\ At(k) \in PITEntry
  BY EntryThere DEF Live, TypeOK, At
<1> SUFFICES ASSUME NEW k \in Live', At(k)'.expiration > now
             PROVE  entryTable[k] \in timeouts'[At(k)'.expiration]
  BY DEF LaterIsScheduled
<1>5. CASE k = i
  <2>1. At(k)'.expiration = Longer(x, t)
    BY <1>1, <1>3, <1>5
  <2>2. x \in timeouts[old] \/ t > old
    BY <1>5, <2>1 DEF LaterIsScheduled, Longer, At, old
  <2>3. QED
    BY <1>2, <1>5, <2>1, <2>2
<1>6. CASE k # i
  <2>1. At(k)' = At(k) /\ k \in Live
    BY <1>1, <1>3, <1>4, <1>6 DEF At
  <2>2. entryTable[k] \in timeouts[At(k).expiration] /\ At(k).expiration \in Time
    BY <1>4, <2>1 DEF LaterIsScheduled, PITEntry
  <2>3. QED
    BY <1>2, <1>4, <1>6, <2>1, <2>2
<1>7. QED
  BY <1>5, <1>6

LEMMA ScheduledInsert ==
  ASSUME TypeOK, TypeOK', LaterIsScheduled, NEW i \in Interest, NEW l, NEW o, NEW t \in Time,
         PoolLeft(i), Insert(i, l, o, t), now' = now
  PROVE  LaterIsScheduled'
<1> DEFINE p == Lowest(Free)
           n == Lowest(Free \ {p})
           a == NewEntry(i, i, l, o, t)
           b == NewEntry(Nameless(i), i, l, o, t)
<1>1. p \in Free /\ (i.cid # None => n \in Free \ {p}) /\ Free \subseteq Entry
  BY PoolGives DEF Free
<1>2. a.expiration = t /\ b.expiration = t
  BY DEF NewEntry
<1>3. /\ entryTable \in [TableKey -> Entry \cup {None}]
      /\ entry \in [Entry -> PITEntry \cup {None}]
      /\ timeouts \in [Time -> SUBSET Entry]
      /\ \A k \in Live : /\ entryTable[k] \in Entry \ Free
                         /\ At(k) \in PITEntry /\ At(k).expiration \in Time
  <2>1. \A k \in Live : At(k) \in PITEntry
    BY EntryThere DEF At
  <2>2. QED
    BY <2>1, EntryThere, InterestAssumption DEF TypeOK, Free, PITEntry
<1>4. \/ /\ entryTable' = [entryTable EXCEPT ![i] = p]
         /\ timeouts' = [timeouts EXCEPT ![t] = @ \cup {p}]
         /\ Release([entry EXCEPT ![p] = a])
      \/ /\ i.cid # None
         /\ entryTable' = [entryTable EXCEPT ![i] = p, ![Nameless(i)] = n]
         /\ timeouts' = [timeouts EXCEPT ![t] = @ \cup {p, n}]
         /\ Release([entry EXCEPT ![p] = a, ![n] = b])
  BY DEF Insert
<1> HIDE DEF p, n, a, b
<1>5. ASSUME NEW S, NEW e, Release(e),
             \A y \in Entry \ Free : e[y] = entry[y],
             \A k \in Live' : \/ k \in Live /\ entryTable'[k] = entryTable[k]
                              \/ entryTable'[k] \in S,
             \A y \in S : e[y].expiration = t,
             timeouts' = [timeouts EXCEPT ![t] = @ \cup S]
      PROVE  LaterIsScheduled'
  <2> SUFFICES ASSUME NEW k \in Live', At(k)'.expiration > now
               PROVE  entryTable'[k] \in timeouts'[At(k)'.expiration]
    BY DEF LaterIsScheduled
  <2>1. At(k)' = e[entryTable'[k]]
    BY <1>5, ReleaseKeeps
  <2>2. CASE entryTable'[k] \in S
    BY <1>3, <1>5, <2>1, <2>2
  <2>3. CASE k \in Live /\ entryTable'[k] = entryTable[k]
    <3>1. At(k)' = At(k) /\ At(k).expiration \in Time
      BY <1>3, <1>5, <2>1, <2>3 DEF At
    <3>2. entryTable[k] \in timeouts[At(k).expiration]
      BY <2>3, <3>1 DEF LaterIsScheduled
    <3>3. QED
      BY <1>3, <1>5, <2>3, <3>1, <3>2
  <2>4. QED
    BY <1>5, <2>2, <2>3
<1>6. CASE /\ entryTable' = [entryTable EXCEPT ![i] = p]
           /\ timeouts' = [timeouts EXCEPT ![t] = @ \cup {p}]
           /\ Release([entry EXCEPT ![p] = a])
  <2> DEFINE e == [entry EXCEPT ![p] = a]
  <2>1. e[p].expiration = t /\ \A y \in Entry \ Free : e[y] = entry[y]
    BY <1>1, <1>2, <1>3
  <2>2. \A k \in Live' : \/ k \in Live /\ entryTable'[k] = entryTable[k]
                         \/ entryTable'[k] \in {p}
    BY <1>3, <1>6 DEF Live
  <2>3. Release(e)
    BY <1>6
  <2> HIDE DEF e
  <2> DEFINE S == {p}
  <2>4. \A y \in S : e[y].expiration = t
    BY <2>1
  <2>5. timeouts' = [timeouts EXCEPT ![t] = @ \cup S]
    BY <1>6
  <2>6. \A k \in Live' : \/ k \in Live /\ entryTable'[k] = entryTable[k]
                         \/ entryTable'[k] \in S
    BY <2>2
  <2> HIDE DEF S
  <2>7. QED
    BY <1>5, <2>1, <2>3, <2>4, <2>5, <2>6
<1>7. CASE /\ i.cid # None
           /\ entryTable' = [entryTable EXCEPT ![i] = p, ![Nameless(i)] = n]
           /\ timeouts' = [timeouts EXCEPT ![t] = @ \cup {p, n}]
           /\ Release([entry EXCEPT ![p] = a, ![n] = b])
  <2> DEFINE e == [entry EXCEPT ![p] = a, ![n] = b]
  <2>1. e[p].expiration = t /\ e[n].expiration = t /\ \A y \in Entry \ Free : e[y] = entry[y]
    BY <1>1, <1>2, <1>3, <1>7
  <2>2. \A k \in Live' : \/ k \in Live /\ entryTable'[k] = entryTable[k]
                         \/ entryTable'[k] \in {p, n}
    BY <1>3, <1>7 DEF Live
  <2>3. Release(e)
    BY <1>7
  <2> HIDE DEF e
  <2> DEFINE S == {p, n}
  <2>4. \A y \in S : e[y].expiration = t
    BY <2>1
  <2>5. timeouts' = [timeouts EXCEPT ![t] = @ \cup S]
    BY <1>7
  <2>6. \A k \in Live' : \/ k \in Live /\ entryTable'[k] = entryTable[k]
                         \/ entryTable'[k] \in S
    BY <2>2
  <2> HIDE DEF S
  <2>7. QED
    BY <1>5, <2>1, <2>3, <2>4, <2>5, <2>6
<1>8. QED
  BY <1>4, <1>6, <1>7

(* What AddDuplicate and AddAggregated leave in the entry. *)
LEMMA ScheduledRenewed ==
  ASSUME TypeOK, TypeOK', LaterIsScheduled, NEW i \in Interest, NEW l \in Link,
         NEW life \in Lifetime, AddDuplicate(i, l, life) \/ AddAggregated(i, l, life)
  PROVE  LaterIsScheduled'
<1> DEFINE x == entryTable[i]
           t == now + life
           y == Prolonged(entry[x], Longer(x, t))
           z == IF AddDuplicate(i, l, life) THEN y ELSE Joined(y, l)
<1>1. i \in Live /\ x \in Entry /\ entry[x] \in PITEntry
  BY EntryThere DEF AddDuplicate, AddAggregated
<1>2. t \in Time
  BY TimeIsLong DEF TypeOK
<1>3. /\ Extend(x, t) /\ entryTable' = entryTable /\ now' = now
      /\ Release([entry EXCEPT ![x] = z])
  BY DEF AddDuplicate, AddAggregated
<1> HIDE DEF t, x
<1>4. Longer(x, t) \in Time
  BY <1>1, <1>2, <1>3, ExtendType
<1>5. y \in PITEntry /\ y.expiration = Longer(x, t)
  BY <1>1, <1>4, ProlongedType
<1>6. Joined(y, l).expiration = y.expiration
  <2> HIDE DEF y
  <2>1. QED
    BY <1>5, JoinedType
<1>7. z.expiration = Longer(x, t)
  BY <1>5, <1>6
<1> HIDE DEF z
<1>8. QED
  BY <1>1, <1>2, <1>3, <1>7, ScheduledExtend DEF x

LEMMA ScheduledNext ==
  TypeInv /\ LaterIsScheduled /\ [Next]_vars => LaterIsScheduled'
<1> SUFFICES ASSUME TypeInv, LaterIsScheduled, [Next]_vars PROVE LaterIsScheduled'
  OBVIOUS
<1>1. TypeOK /\ TypeInv' /\ TypeOK'
  BY TypeNext DEF TypeInv
<1>2. CASE UNCHANGED <<entry, entryTable, timeouts, now>>
  BY <1>2 DEF LaterIsScheduled, Live, At
<1>3. ASSUME NEW i \in Interest, NEW l \in Link, NEW o \in Original, NEW life \in Lifetime,
             AddInterest(i, l, o, life)
      PROVE  LaterIsScheduled'
  <2>1. CASE AddNew(i, l, o, life)
    <3>1. now + life \in Time
      BY <1>1, TimeIsLong DEF TypeOK
    <3>2. QED
      BY <1>1, <2>1, <3>1, ScheduledInsert DEF AddNew
  <2>2. CASE AddFull(i, l, o, life)
    BY <1>2, <2>2 DEF AddFull
  <2>3. CASE AddDuplicate(i, l, life) \/ AddAggregated(i, l, life)
    BY <1>1, <2>3, ScheduledRenewed
  <2>4. QED
    BY <1>3, <2>1, <2>2, <2>3 DEF AddInterest
<1>4. CASE PurgeRecord
  <2>1. /\ Shrunk /\ SameDue
        /\ \A t \in Time : t > now => timeouts'[t] = timeouts[t]
    BY <1>1, <1>4, TypePurge, PurgeTakesDue
  <2>2. \A k \in Live' : At(k).expiration \in Time
    <3>1. \A k \in Live' : At(k) \in PITEntry
      BY <1>1, <2>1, EntryThere DEF Shrunk, At
    <3>2. QED
      BY <3>1 DEF PITEntry
  <2>3. now' = now
    BY <1>4 DEF PurgeRecord
  <2>4. QED
    BY <2>1, <2>2, <2>3, ScheduledShrunk
<1>5. CASE AddAfterPurge
  <2>1. /\ adding.interest \in Interest /\ PoolLeft(adding.interest)
        /\ adding.expiration \in Time
    BY <1>1, <1>5 DEF AddAfterPurge, TypeInv, TypeOK
  <2>2. QED
    BY <1>1, <1>5, <2>1, ScheduledInsert DEF AddAfterPurge
<1>6. CASE AddRefused
  BY <1>2, <1>6 DEF AddRefused
<1>7. ASSUME NEW i \in Interest, NEW l \in Link, RemoveInterest(i, l)
      PROVE  LaterIsScheduled'
  <2>1. Shrunk /\ SameDue /\ timeouts' = timeouts /\ now' = now
    BY <1>1, <1>7, TypeRemoveInterest DEF RemoveInterest
  <2>2. QED
    BY <2>1, ScheduledShrunk
<1>8. ASSUME NEW c \in Content, Match(c)
      PROVE  LaterIsScheduled'
  <2>1. /\ Shrunk /\ SameDue /\ now' = now
        /\ \A k \in Live', t \in Time :
             entryTable[k] \in timeouts[t] => entryTable[k] \in timeouts'[t]
    BY <1>1, <1>8, TypeMatch, MatchTakesFound DEF Match
  <2>2. \A k \in Live' : At(k).expiration \in Time
    <3>1. \A k \in Live' : At(k) \in PITEntry
      BY <1>1, <2>1, EntryThere DEF Shrunk, At
    <3>2. QED
      BY <3>1 DEF PITEntry
  <2>3. QED
    BY <2>1, <2>2, ScheduledShrunk
<1>9. ASSUME NEW l \in Link, RemoveLink(l)
      PROVE  LaterIsScheduled'
  <2>1. Shrunk /\ SameDue /\ timeouts' = timeouts /\ now' = now
    BY <1>1, <1>9, TypeRemoveLink DEF RemoveLink
  <2>2. QED
    BY <2>1, ScheduledShrunk
<1>10. CASE Tick
  <2>1. \A k \in Live' : k \in Live /\ entryTable'[k] = entryTable[k] /\ At(k)' = At(k)
    BY <1>10 DEF Tick, Live, At
  <2>2. \A k \in Live : At(k).expiration \in Nat
    <3>1. \A k \in Live : At(k) \in PITEntry
      BY <1>1, EntryThere DEF At
    <3>2. QED
      BY <3>1, TimeIsLong, BoundsAssumption DEF PITEntry
  <2>3. now \in Nat /\ now' = now + 1 /\ timeouts' = timeouts
    BY <1>1, <1>10, BoundsAssumption DEF Tick, TypeOK
  <2>4. QED
    BY <2>1, <2>2, <2>3 DEF LaterIsScheduled
<1>11. CASE UNCHANGED vars
  BY <1>2, <1>11 DEF vars
<1>12. QED
  BY <1>3, <1>4, <1>5, <1>6, <1>7, <1>8, <1>9, <1>10, <1>11 DEF Next

(* Whatever content ids the interests ask for, the purge will find each    *)
(* entry of the table that is due later than now, however often it was     *)
(* extended and whatever entries had its key before it.                    *)
THEOREM LaterAlwaysScheduled == Spec => []LaterIsScheduled
<1>1. Init => LaterIsScheduled
  BY DEF Init, LaterIsScheduled, Live
<1>2. QED
  BY <1>1, TypeInit, TypeNext, ScheduledNext, PTL DEF Spec

(***************************************************************************)
(* Entries nobody waits for, when no interest has a content id.  An entry  *)
(* leaves the table when its last link leaves it; a call then goes on to   *)
(* take links from the entries the clean-up maps name.  Those have the key *)
(* the call was about, so no other entry of the table loses its links; and *)
(* an entry that left the table and is still held has no links left to     *)
(* take from the entry that came after it.                                 *)
(***************************************************************************)

(* A clean-up map names, under an interest, entries filed under it.        *)
MapsByKey ==
  \A l \in Link, i \in Interest : cleanup[l][i] # None => entry[cleanup[l][i]].key = i

(* Only the entry in the table under its key has links.                    *)
OwnersOnly ==
  \A x \in Entry : entry[x] # None =>
    /\ entry[x].interest = entry[x].key
    /\ entry[x].ingress # {} => entryTable[entry[x].key] = x

SettledInv == ListedInv /\ MapsByKey /\ OwnersOnly /\ NoIdleEntry

(* All a step does to the table: the links in v leave the entries of the   *)
(* keys in K, and the entries that have no other link leave the table.     *)
Leave(K, v) ==
  \A k \in TableKey :
    /\ k \in Live' <=> k \in Live /\ (k \in K => At(k).ingress \ v # {})
    /\ k \in Live' =>
         /\ entryTable'[k] = entryTable[k]
         /\ At(k)'.expiration = At(k).expiration
         /\ At(k)'.ingress = IF k \in K THEN At(k).ingress \ v ELSE At(k).ingress

(* What the maps of a step that lists nobody name has the key it had.      *)
LEMMA MapsKept ==
  ASSUME TypeOK, TypeOK', MapsByKey, KeysKept,
         \A l \in Link, i \in Interest : cleanup'[l][i] \in {cleanup[l][i], None}
  PROVE  MapsByKey'
<1> SUFFICES ASSUME NEW l \in Link, NEW i \in Interest, cleanup'[l][i] # None
             PROVE  entry'[cleanup'[l][i]].key = i
  BY DEF MapsByKey
<1>1. cleanup'[l][i] = cleanup[l][i] /\ cleanup'[l][i] \in Entry
  BY DEF TypeOK
<1>2. cleanup'[l][i] \in Held(entryTable', cleanup', timeouts')
  BY <1>1, HeldMeans DEF TypeOK
<1>3. QED
  BY <1>1, <1>2 DEF MapsByKey, KeysKept

(* The entries the maps name under k, when another key has the entry.      *)
LEMMA NotNamed ==
  ASSUME TypeOK, MapsByKey, NEW j \in Live, NEW k \in Interest, j # k
  PROVE  \A l \in Link : cleanup[l][k] # entryTable[j]
<1>1. entryTable[j] # None /\ entry[entryTable[j]].key = j
  BY DEF Live, TypeOK
<1>2. QED
  BY <1>1 DEF MapsByKey

(* One entry loses some links. *)
OnlyOneLoses(e, y, v) ==
  \A z \in Entry : entry[z] # None =>
    e[z].ingress = IF z = y THEN entry[z].ingress \ v ELSE entry[z].ingress

LEMMA OneCleared ==
  ASSUME TypeOK, NEW y \in Entry, entry[y] # None, NEW v
  PROVE  Fewer(entry, Cleared(entry, {y}, v)) /\ OnlyOneLoses(Cleared(entry, {y}, v), y, v)
<1> DEFINE Y == {y}
<1>1. entry \in [Entry -> PITEntry \cup {None}] /\ \A z \in Y \cap Entry : entry[z] # None
  BY DEF TypeOK
<1>2. \A z : z \in Y <=> z = y
  OBVIOUS
<1> HIDE DEF Y
<1>3. /\ Fewer(entry, Cleared(entry, Y, v))
      /\ \A z \in Entry : entry[z] # None =>
           Cleared(entry, Y, v)[z].ingress =
             IF z \in Y THEN entry[z].ingress \ v ELSE entry[z].ingress
  BY <1>1, ClearedFewer
<1>4. QED
  BY <1>2, <1>3 DEF Y, OnlyOneLoses

(* The entries of the table without those links, as they are in e, and the *)
(* table without the entries that have no link left.                       *)
Without(e, K, v) ==
  /\ \A k \in Live : e[entryTable[k]].ingress =
                      IF k \in K THEN At(k).ingress \ v ELSE At(k).ingress
  /\ \A k \in TableKey : entryTable'[k] =
       IF k \in Live /\ k \in K /\ At(k).ingress \ v = {} THEN None ELSE entryTable[k]

LEMMA Leaves ==
  ASSUME TypeOK, TypeOK', OwnersOnly, NEW e, Release(e), Fewer(entry, e), NEW K, NEW v,
         Without(e, K, v)
  PROVE  Leave(K, v) /\ OwnersOnly'
<1>0. /\ \A k \in Live : e[entryTable[k]].ingress =
                         IF k \in K THEN At(k).ingress \ v ELSE At(k).ingress
      /\ \A k \in TableKey : entryTable'[k] =
           IF k \in Live /\ k \in K /\ At(k).ingress \ v = {} THEN None ELSE entryTable[k]
  BY DEF Without
<1>1. \A k \in Live' : At(k)' = e[entryTable'[k]]
  BY ReleaseKeeps
<1>2. ASSUME NEW k \in TableKey
      PROVE  k \in Live' <=> k \in Live /\ (k \in K => At(k).ingress \ v # {})
  BY <1>0 DEF Live
<1>3. ASSUME NEW k \in Live'
      PROVE  /\ k \in Live /\ entryTable'[k] = entryTable[k]
             /\ At(k)'.expiration = At(k).expiration
             /\ At(k)'.ingress = IF k \in K THEN At(k).ingress \ v ELSE At(k).ingress
  <2>1. k \in Live /\ entryTable'[k] = entryTable[k]
    BY <1>0 DEF Live
  <2>2. At(k)' = e[entryTable[k]] /\ entryTable[k] \in Entry /\ entry[entryTable[k]] # None
    BY <1>1, <2>1, EntryThere, InterestAssumption
  <2>3. At(k)'.expiration = At(k).expiration
    BY <2>2 DEF Fewer, At
  <2>4. QED
    BY <1>0, <2>1, <2>2, <2>3
<1>4. ASSUME NEW x \in Entry, entry'[x] # None
      PROVE  /\ entry'[x].interest = entry'[x].key
             /\ entry'[x].ingress # {} => entryTable'[entry'[x].key] = x
  <2>1. entry'[x] = e[x]
    BY <1>4 DEF Release
  <2>2. /\ entry[x] # None /\ e[x].key = entry[x].key /\ e[x].interest = entry[x].interest
        /\ e[x].ingress \subseteq entry[x].ingress
    BY <1>4, <2>1 DEF Fewer
  <2>3. ASSUME e[x].ingress # {} PROVE entryTable'[entry[x].key] = x
    <3>1. entryTable[entry[x].key] = x /\ entry[x].key \in TableKey
      BY <2>2, <2>3 DEF OwnersOnly, TypeOK, PITEntry
    <3>2. entry[x].key \in Live /\ At(entry[x].key) = entry[x]
      BY <3>1, InterestAssumption DEF Live, At
    <3>3. e[x].ingress = IF entry[x].key \in K THEN entry[x].ingress \ v ELSE entry[x].ingress
      BY <1>0, <3>1, <3>2
    <3>4. QED
      BY <1>0, <2>3, <3>1, <3>2, <3>3
  <2>4. QED
    BY <2>1, <2>2, <2>3 DEF OwnersOnly
<1>5. Leave(K, v)
  BY <1>2, <1>3 DEF Leave
<1>6. QED
  BY <1>4, <1>5 DEF OwnersOnly

LEMMA LeaveRemoveInterest ==
  ASSUME SettledInv, NEW i \in Interest, NEW l \in Link, RemoveInterest(i, l)
  PROVE  Leave({i}, {l}) /\ OwnersOnly' /\ MapsByKey'
<1> DEFINE x     == entryTable[i]
           first == Cleared(entry, {x}, {l})
           e     == LosesLinks(first, i, {l})
<1>1. /\ TypeOK /\ TypeOK' /\ KeysKept /\ Structures
      /\ i \in Live /\ x \in Entry /\ entry[x] # None
  BY TypeRemoveInterest, EntryThere, InterestAssumption
  DEF RemoveInterest, SettledInv, ListedInv, TypeInv
<1>2. entryTable' = WithoutEmpty(first, {i}) /\ cleanup' = Uncleaned(i, {l}) /\ Release(e)
  BY DEF RemoveInterest
<1>3. /\ Fewer(entry, first)
      /\ \A y \in Entry : entry[y] # None =>
           first[y].ingress = IF y = x THEN entry[y].ingress \ {l} ELSE entry[y].ingress
  <2> HIDE DEF x
  <2>1. Fewer(entry, first) /\ OnlyOneLoses(first, x, {l})
    BY <1>1, OneCleared
  <2>2. QED
    BY <2>1 DEF OnlyOneLoses
<1> HIDE DEF first
<1>4. /\ Fewer(first, e)
      /\ \A y \in Entry : first[y] # None =>
           e[y].ingress = first[y].ingress \ {m \in {l} : i \in Interest /\ cleanup[m][i] = y}
  <2>1. \A y \in Held(entryTable, cleanup, timeouts) : first[y] # None
    BY <1>1, <1>3, EntryThere DEF Fewer
  <2>2. first \in [Entry -> PITEntry \cup {None}] /\ {l} \in SUBSET Link
    BY <1>3 DEF Fewer
  <2>3. QED
    BY <1>1, <2>1, <2>2, LosesLinksFewer
<1> HIDE DEF e
<1>5. Fewer(entry, e)
  BY <1>3, <1>4, FewerTransitive
<1>6. ASSUME NEW k \in Live
      PROVE  /\ first[entryTable[k]].ingress =
                  IF k \in {i} THEN At(k).ingress \ {l} ELSE At(k).ingress
             /\ e[entryTable[k]].ingress = first[entryTable[k]].ingress
  <2>1. /\ entryTable[k] \in Entry /\ entry[entryTable[k]] # None
        /\ first[entryTable[k]] # None
        /\ entry[entryTable[k]].key = k /\ entry[x].key = i
    BY <1>1, <1>3, EntryThere, InterestAssumption DEF Fewer, TypeOK
  <2>2. first[entryTable[k]].ingress =
          IF k \in {i} THEN At(k).ingress \ {l} ELSE At(k).ingress
    BY <1>3, <2>1 DEF At
  <2>3. k # i => cleanup[l][i] # entryTable[k]
    BY <1>1, NotNamed DEF SettledInv
  <2>4. e[entryTable[k]].ingress = first[entryTable[k]].ingress
    BY <1>4, <2>1, <2>2, <2>3
  <2>5. QED
    BY <2>2, <2>4
<1>7. \A k \in TableKey : entryTable'[k] =
         IF k \in Live /\ k \in {i} /\ At(k).ingress \ {l} = {} THEN None ELSE entryTable[k]
  BY <1>1, <1>2, <1>6 DEF WithoutEmpty
<1>8. Without(e, {i}, {l})
  BY <1>6, <1>7 DEF Without
<1>9. MapsByKey'
  <2>1. \A m \in Link, j \in Interest : cleanup'[m][j] \in {cleanup[m][j], None}
    BY <1>1, <1>2, TakenOut
  <2>2. QED
    BY <1>1, <2>1, MapsKept DEF SettledInv
<1>10. QED
  BY <1>1, <1>2, <1>5, <1>8, <1>9, Leaves DEF SettledInv

(* The purge of a record ends the requests of an entry that has expired,   *)
(* or changes nothing in the table.                                        *)
LEMMA LeavePurge ==
  ASSUME SettledInv, PurgeRecord
  PROVE  /\ OwnersOnly' /\ MapsByKey'
         /\ \E K \in SUBSET Live : Leave(K, Link) /\ \A k \in K : At(k).expiration < now
<1>1. TypeOK /\ TypeOK' /\ KeysKept /\ Structures
  BY TypePurge, EntryThere DEF SettledInv, ListedInv, TypeInv
<1>2. PICK x \in timeouts[Lowest(Due)] :
        LET k     == entry[x].interest
            y     == entryTable[k]
            first == IF y = None THEN entry ELSE Cleared(entry, {y}, entry[x].ingress)
            left  == first[x].ingress
        IN IF Expired(x)
             THEN /\ entryTable' = WithoutEmpty(first, {k})
                  /\ cleanup' = Uncleaned(k, left)
                  /\ Release(LosesLinks(first, k, left))
             ELSE /\ UNCHANGED <<entryTable, cleanup>>
                  /\ Release(entry)
  BY DEF PurgeRecord
<1>3. x \in Entry /\ entry[x] \in PITEntry /\ entry[x] # None
  <2>1. Lowest(Due) \in Time
    <3>1. Due \subseteq Nat /\ Due \subseteq Time /\ Due # {}
      BY TimeIsLong, BoundsAssumption DEF PurgeRecord, Due, TypeOK
    <3>2. QED
      BY <3>1, LowestIn
  <2>2. x \in Held(entryTable, cleanup, timeouts)
    BY <1>1, <1>2, <2>1, HeldMeans DEF Structures
  <2>3. QED
    BY <1>1, <2>2, EntryThere
<1> DEFINE k     == entry[x].interest
           y     == entryTable[k]
           first == IF y = None THEN entry ELSE Cleared(entry, {y}, entry[x].ingress)
           left  == first[x].ingress
<1>4. /\ k \in Interest /\ k \in TableKey /\ entry[x].ingress \subseteq Link
      /\ entry[x].expiration \in Nat /\ now \in Nat
  <2>1. entry[x].expiration \in Nat /\ now \in Nat
    <3>1. entry[x].expiration \in Time /\ now \in 0 .. MaxTime
      BY <1>1, <1>3 DEF PITEntry, TypeOK
    <3>2. \A life \in Lifetime : Time \subseteq Nat
      BY <1>1, TimeIsLong DEF TypeOK
    <3>3. QED
      BY <3>1, <3>2, BoundsAssumption
  <2>2. QED
    BY <1>3, <2>1 DEF PITEntry, TableKey
<1>5. x # y => entry[x].ingress = {}
  BY <1>3 DEF SettledInv, OwnersOnly
<1>6. /\ Fewer(entry, first)
      /\ \A z \in Entry : entry[z] # None =>
           first[z].ingress = IF z = x /\ x = y THEN {} ELSE entry[z].ingress
  <2>1. CASE y = None
    <3>1. first = entry /\ x # y
      BY <1>3, <2>1, InterestAssumption
    <3>2. entry \in [Entry -> PITEntry \cup {None}]
      BY <1>1 DEF TypeOK
    <3> HIDE DEF first, y
    <3>3. QED
      BY <3>1, <3>2 DEF Fewer
  <2>2. CASE y # None
    <3>1. entry[y] # None /\ y \in Entry
      BY <1>1, <1>4, <2>2, EntryThere, InterestAssumption DEF Live
    <3>2. first = Cleared(entry, {y}, entry[x].ingress)
      BY <2>2
    <3> HIDE DEF first, y
    <3> DEFINE w == entry[x].ingress
    <3>3. /\ Fewer(entry, first)
          /\ \A z \in Entry : entry[z] # None =>
               first[z].ingress = IF z = y THEN entry[z].ingress \ w ELSE entry[z].ingress
      <4>1. first = Cleared(entry, {y}, w)
        BY <3>2
      <4>2. TypeOK
        BY <1>1
      <4> HIDE DEF w
      <4>3. Fewer(entry, Cleared(entry, {y}, w)) /\ OnlyOneLoses(Cleared(entry, {y}, w), y, w)
        BY <3>1, <4>2, OneCleared
      <4>4. QED
        BY <4>1, <4>3 DEF OnlyOneLoses
    <3>4. QED
      BY <1>5, <3>3
  <2>3. QED
    BY <2>1, <2>2
<1> HIDE DEF first
<1>7. left = {}
  BY <1>3, <1>5, <1>6
<1> DEFINE e == IF Expired(x) THEN LosesLinks(first, k, left) ELSE entry
<1>8. /\ Release(e)
      /\ \/ /\ Expired(x)
            /\ entryTable' = WithoutEmpty(first, {k}) /\ cleanup' = Uncleaned(k, left)
         \/ ~Expired(x) /\ entryTable' = entryTable /\ cleanup' = cleanup
  BY <1>2 DEF first
<1>9. /\ Fewer(entry, e)
      /\ \A z \in Entry : entry[z] # None =>
           e[z].ingress = IF Expired(x) THEN first[z].ingress ELSE entry[z].ingress
  <2>1. \A z \in Held(entryTable, cleanup, timeouts) : first[z] # None
    BY <1>1, <1>6, EntryThere DEF Fewer
  <2>2. first \in [Entry -> PITEntry \cup {None}] /\ left \in SUBSET Link
    BY <1>6, <1>7 DEF Fewer
  <2>3. /\ Fewer(first, LosesLinks(first, k, left))
        /\ \A z \in Entry : first[z] # None =>
             LosesLinks(first, k, left)[z].ingress =
               first[z].ingress \ {m \in left : k \in Interest /\ cleanup[m][k] = z}
    <3> HIDE DEF left, k
    <3>1. QED
      BY <1>1, <2>1, <2>2, LosesLinksFewer
  <2>4. Fewer(entry, LosesLinks(first, k, left))
    BY <1>6, <2>3, FewerTransitive
  <2>5. Fewer(entry, entry)
    BY <1>1 DEF Fewer, TypeOK
  <2> HIDE DEF left, k
  <2>6. \A z \in Entry : entry[z] # None =>
           LosesLinks(first, k, left)[z].ingress = first[z].ingress
    BY <1>6, <1>7, <2>3 DEF Fewer
  <2>7. QED
    BY <2>4, <2>5, <2>6
<1> HIDE DEF e
<1> DEFINE K == IF Expired(x) /\ x = y THEN {k} ELSE {}
<1>10. \A j \in Live : /\ entryTable[j] \in Entry /\ entry[entryTable[j]] # None
                       /\ At(j) = entry[entryTable[j]] /\ At(j).ingress # {}
                       /\ At(j).ingress \subseteq Link
                       /\ entryTable[j] = x => j = k
  <2>1. \A j \in Live : /\ entryTable[j] \in Entry /\ entry[entryTable[j]] # None
                        /\ entry[entryTable[j]] \in PITEntry /\ entry[entryTable[j]].key = j
    BY <1>1, EntryThere, InterestAssumption DEF TypeOK
  <2>2. entry[x].key = k
    BY <1>3 DEF SettledInv, OwnersOnly
  <2>3. QED
    BY <2>1, <2>2 DEF At, SettledInv, NoIdleEntry, PITEntry
<1>11. \A j \in Live : e[entryTable[j]].ingress =
          IF j \in K THEN At(j).ingress \ Link ELSE At(j).ingress
  <2> SUFFICES ASSUME NEW j \in Live
               PROVE  e[entryTable[j]].ingress =
                        IF j \in K THEN At(j).ingress \ Link ELSE At(j).ingress
    OBVIOUS
  <2>1. CASE ~Expired(x) \/ x # y
    BY <1>6, <1>9, <1>10, <2>1
  <2>2. CASE Expired(x) /\ x = y
    <3>1. entryTable[j] = x <=> j = k
      BY <1>10, <2>2
    <3>2. QED
      BY <1>6, <1>9, <1>10, <2>2, <3>1
  <2>3. QED
    BY <2>1, <2>2
<1>12. \A j \in TableKey : entryTable'[j] =
          IF j \in Live /\ j \in K /\ At(j).ingress \ Link = {} THEN None ELSE entryTable[j]
  <2> SUFFICES ASSUME NEW j \in TableKey
               PROVE  entryTable'[j] = IF j \in Live /\ j \in K /\ At(j).ingress \ Link = {}
                                         THEN None ELSE entryTable[j]
    OBVIOUS
  <2>1. CASE ~Expired(x)
    BY <1>8, <2>1
  <2>2. CASE Expired(x) /\ x = y
    <3>1. k \in Live /\ At(k).ingress \ Link = {} /\ first[entryTable[k]].ingress = {}
      BY <1>3, <1>4, <1>6, <1>10, <2>2, InterestAssumption DEF Live
    <3>2. entryTable' = WithoutEmpty(first, {k})
      BY <1>8, <2>2
    <3> HIDE DEF k
    <3>3. QED
      BY <2>2, <3>1, <3>2 DEF WithoutEmpty
  <2>3. CASE Expired(x) /\ x # y
    <3>1. j \in Live => first[entryTable[j]].ingress # {}
      BY <1>6, <1>10, <2>3
    <3>2. entryTable' = WithoutEmpty(first, {k})
      BY <1>8, <2>3
    <3>3. QED
      BY <2>3, <3>1, <3>2 DEF WithoutEmpty
  <2>4. QED
    BY <2>1, <2>2, <2>3
<1>13. K \in SUBSET Live /\ \A j \in K : At(j).expiration < now
  BY <1>3, <1>4, InterestAssumption DEF Live, At, Expired
<1>14. Leave(K, Link) /\ OwnersOnly'
  <2>1. Without(e, K, Link)
    BY <1>11, <1>12 DEF Without
  <2>2. TypeOK /\ TypeOK' /\ OwnersOnly /\ Release(e) /\ Fewer(entry, e)
    BY <1>1, <1>8, <1>9 DEF SettledInv
  <2> HIDE DEF K, k, y, left
  <2>3. QED
    BY <2>1, <2>2, Leaves
<1>15. MapsByKey'
  <2>1. \A m \in Link, j \in Interest : cleanup'[m][j] \in {cleanup[m][j], None}
    BY <1>1, <1>8, TakenOut
  <2>2. QED
    BY <1>1, <2>1, MapsKept DEF SettledInv
<1>16. QED
  BY <1>13, <1>14, <1>15

LEMMA LeaveRemoveLink ==
  ASSUME SettledInv, Unhashed, NEW l \in Link, RemoveLink(l)
  PROVE  Leave(Live, {l}) /\ OwnersOnly' /\ MapsByKey'
<1> DEFINE named == {i \in Interest : cleanup[l][i] # None} \cap Live
           X     == {entryTable[i] : i \in named}
           first == Cleared(entry, X, {l})
<1>1. TypeOK /\ TypeOK' /\ KeysKept /\ Structures /\ \A x \in X : entry[x] # None
  BY TypeRemoveLink, EntryThere, InterestAssumption DEF SettledInv, ListedInv, TypeInv
<1>2. /\ entryTable' = WithoutEmpty(first, named) /\ Release(first)
      /\ cleanup' = [cleanup EXCEPT ![l] = [i \in Interest |-> None]]
  BY DEF RemoveLink
<1>3. /\ Fewer(entry, first)
      /\ \A y \in Entry : entry[y] # None =>
           first[y].ingress = IF y \in X THEN entry[y].ingress \ {l} ELSE entry[y].ingress
  <2>1. entry \in [Entry -> PITEntry \cup {None}] /\ \A x \in X \cap Entry : entry[x] # None
    BY <1>1 DEF TypeOK
  <2> HIDE DEF X
  <2>2. QED
    BY <2>1, ClearedFewer
<1> HIDE DEF first
<1>4. ASSUME NEW k \in Live
      PROVE  /\ At(k).ingress \ {l} # At(k).ingress => k \in named
             /\ first[entryTable[k]].ingress = At(k).ingress \ {l}
             /\ At(k).ingress # {}
  <2>1. /\ entryTable[k] \in Entry /\ entry[entryTable[k]] # None /\ k \in Interest
        /\ entryTable[k] # None
    BY <1>1, EntryThere, InterestAssumption DEF Live, TableKey, Unhashed
  <2>2. l \in At(k).ingress => k \in named
    BY <2>1 DEF SettledInv, ListedInv, IngressListed, InterestIsKey
  <2>3. k \in named => entryTable[k] \in X
    OBVIOUS
  <2>4. first[entryTable[k]].ingress = At(k).ingress \ {l}
    BY <1>3, <2>1, <2>2, <2>3 DEF At
  <2>5. QED
    BY <2>2, <2>4 DEF SettledInv, NoIdleEntry
<1>5. \A k \in TableKey : entryTable'[k] =
         IF k \in Live /\ k \in Live /\ At(k).ingress \ {l} = {} THEN None ELSE entryTable[k]
  <2> HIDE DEF named
  <2>1. \A k \in TableKey : entryTable'[k] =
          IF k \in named \cap Live /\ first[entryTable[k]].ingress = {} THEN None ELSE entryTable[k]
    BY <1>2 DEF WithoutEmpty
  <2>2. QED
    BY <1>4, <2>1
<1>6. Without(first, Live, {l})
  BY <1>4, <1>5 DEF Without
<1>7. MapsByKey'
  <2>1. \A m \in Link, j \in Interest : cleanup'[m][j] \in {cleanup[m][j], None}
    BY <1>1, <1>2 DEF Structures
  <2>2. QED
    BY <1>1, <2>1, MapsKept DEF SettledInv
<1>8. QED
  BY <1>1, <1>2, <1>3, <1>6, <1>7, Leaves DEF SettledInv

LEMMA LeaveMatch ==
  ASSUME SettledInv, Unhashed, NEW c \in Content, Match(c)
  PROVE  Leave(Matched(c), Link) /\ OwnersOnly' /\ MapsByKey'
<1> DEFINE found == Matched(c)
           e == AfterMatch(c)
<1>1. TypeOK /\ TypeOK' /\ KeysKept
  BY TypeMatch DEF SettledInv, ListedInv, TypeInv
<1>2. /\ entryTable' = [k \in TableKey |-> IF k \in found THEN None ELSE entryTable[k]]
      /\ cleanup' = [l \in Link |-> [i \in Interest |->
                       IF i \in Waited(c, l) THEN None ELSE cleanup[l][i]]]
      /\ Release(e) /\ Fewer(entry, e)
      /\ \A x \in Entry : entry[x] # None => e[x].ingress = entry[x].ingress \ Answered(c, x)
  BY <1>1, MatchLeaves
<1> HIDE DEF e
<1>3. ASSUME NEW k \in Live
      PROVE  /\ entryTable[k] \in Entry /\ entry[entryTable[k]] # None /\ k \in Interest
             /\ At(k) = entry[entryTable[k]] /\ At(k).ingress \subseteq Link
  <2>1. entryTable[k] \in Entry /\ entry[entryTable[k]] \in PITEntry
    BY <1>1, EntryThere
  <2>2. QED
    BY <2>1, InterestAssumption DEF Live, TableKey, Unhashed, PITEntry, At
<1>4. ASSUME NEW k \in Live
      PROVE  e[entryTable[k]].ingress = IF k \in found THEN At(k).ingress \ Link
                                                       ELSE At(k).ingress
  <2>1. CASE k \in found
    <3>1. \A l \in At(k).ingress : cleanup[l][k] = entryTable[k]
      BY <1>3 DEF SettledInv, ListedInv, IngressListed, InterestIsKey
    <3>2. At(k).ingress \subseteq Answered(c, entryTable[k])
      BY <1>3, <2>1, <3>1 DEF Answered, Waited
    <3>3. QED
      BY <1>2, <1>3, <2>1, <3>2
  <2>2. CASE k \notin found
    <3>1. \A j \in found \cap Interest, l \in Link : cleanup[l][j] # entryTable[k]
      BY <1>1, <2>2, NotNamed DEF SettledInv
    <3>2. Answered(c, entryTable[k]) = {}
      BY <3>1 DEF Answered, Waited
    <3>3. QED
      BY <1>2, <1>3, <2>2, <3>2
  <2>3. QED
    BY <2>1, <2>2
<1>5. \A k \in TableKey : entryTable'[k] =
         IF k \in Live /\ k \in found /\ At(k).ingress \ Link = {} THEN None ELSE entryTable[k]
  <2>1. found \subseteq Live
    BY DEF Matched
  <2>2. QED
    BY <1>2, <1>3, <2>1
<1>6. Without(e, found, Link)
  BY <1>4, <1>5 DEF Without
<1>7. MapsByKey'
  <2>1. \A m \in Link, j \in Interest : cleanup'[m][j] \in {cleanup[m][j], None}
    BY <1>2
  <2>2. QED
    BY <1>1, <2>1, MapsKept DEF SettledInv
<1>8. Release(e) /\ Fewer(entry, e) /\ OwnersOnly
  BY <1>2 DEF SettledInv
<1>9. QED
  BY <1>1, <1>6, <1>7, <1>8, Leaves

(* All a step does to the table: i has the entry z.                        *)
Files(i, z) ==
  /\ Live' = Live \cup {i}
  /\ \A k \in Live' : At(k)' = IF k = i THEN z ELSE At(k)

(* A step that files z, an entry of i that a link waits for, as x.         *)
LEMMA SettledFiled ==
  ASSUME TypeOK, TypeOK', MapsByKey, OwnersOnly, NEW i \in Interest, NEW x \in Entry, NEW z,
         z.key = i, z.interest = i, z.ingress # {}, Release([entry EXCEPT ![x] = z]),
         \/ entryTable[i] = None /\ entry[x] = None
         \/ entryTable[i] = x,
         entryTable' = [entryTable EXCEPT ![i] = x],
         \A l \in Link, j \in Interest : \/ cleanup'[l][j] = cleanup[l][j]
                                         \/ (j = i /\ cleanup'[l][j] = x)
  PROVE  Files(i, z) /\ MapsByKey' /\ OwnersOnly'
<1>1. /\ entry \in [Entry -> PITEntry \cup {None}] /\ i \in TableKey
      /\ entryTable \in [TableKey -> Entry \cup {None}] /\ x # None
  BY InterestAssumption DEF TypeOK, TableKey
<1>2. Live' = Live \cup {i}
  BY <1>1 DEF Live
<1>3. ASSUME NEW k \in Live'
      PROVE  At(k)' = IF k = i THEN z ELSE At(k)
  <2>1. At(k)' = [entry EXCEPT ![x] = z][entryTable'[k]]
    BY ReleaseKeeps
  <2>2. CASE k = i
    BY <1>1, <2>1, <2>2
  <2>3. CASE k # i
    <3>1. k \in Live /\ entryTable'[k] = entryTable[k]
      BY <1>1, <1>2, <2>3
    <3>2. entryTable[k] \in Entry /\ entryTable[k] # x
      <4>1. entryTable[k] \in Entry /\ entry[entryTable[k]] # None /\ entry[entryTable[k]].key = k
        BY <3>1, EntryThere, InterestAssumption DEF TypeOK
      <4>2. entryTable[i] = x => entry[x].key = i
        BY <1>1 DEF TypeOK, Live
      <4>3. QED
        BY <2>3, <4>1, <4>2
    <3>3. QED
      BY <1>1, <2>1, <2>3, <3>1, <3>2 DEF At
  <2>4. QED
    BY <2>2, <2>3
<1>4. \A y \in Entry : entry'[y] # None => entry'[y] = IF y = x THEN z ELSE entry[y]
  BY <1>1 DEF Release
<1>5. ASSUME NEW l \in Link, NEW j \in Interest, cleanup'[l][j] # None
      PROVE  entry'[cleanup'[l][j]].key = j
  <2> DEFINE y == cleanup'[l][j]
  <2>1. y \in Entry /\ y \in Held(entryTable', cleanup', timeouts')
    <3>1. y \in Entry
      BY <1>5 DEF TypeOK
    <3>2. QED
      BY <3>1, HeldMeans DEF TypeOK
  <2>2. entry'[y] = IF y = x THEN z ELSE entry[y]
    <3>1. entry'[y] # None
      BY <2>1 DEF TypeOK
    <3> HIDE DEF y
    <3>2. QED
      BY <1>4, <2>1, <3>1
  <2>3. CASE j = i /\ y = x
    BY <2>2, <2>3
  <2>4. CASE cleanup'[l][j] = cleanup[l][j]
    <3>1. entry[y].key = j
      BY <1>5, <2>4 DEF MapsByKey
    <3>2. entry[y] # None
      <4>1. y \in Held(entryTable, cleanup, timeouts)
        BY <2>1, <2>4, HeldMeans DEF TypeOK
      <4>2. QED
        BY <4>1 DEF TypeOK
    <3>3. entryTable[i] = x => entry[x].key = i
      BY <1>1 DEF TypeOK, Live
    <3>4. QED
      BY <2>2, <3>1, <3>2, <3>3
  <2>5. QED
    BY <2>3, <2>4
<1>6. ASSUME NEW y \in Entry, entry'[y] # None
      PROVE  /\ entry'[y].interest = entry'[y].key
             /\ entry'[y].ingress # {} => entryTable'[entry'[y].key] = y
  <2>1. CASE y = x
    BY <1>1, <1>4, <1>6, <2>1
  <2>2. CASE y # x
    <3>1. entry'[y] = entry[y] /\ entry[y] # None /\ entry[y].key \in TableKey
      BY <1>1, <1>4, <1>6, <2>2 DEF PITEntry
    <3>2. entry[y].ingress # {} => entryTable[entry[y].key] = y
      BY <3>1 DEF OwnersOnly
    <3>3. entry[y].ingress # {} => entry[y].key # i
      BY <2>2, <3>2, InterestAssumption
    <3>4. QED
      BY <1>1, <3>1, <3>2, <3>3 DEF OwnersOnly
  <2>3. QED
    BY <2>1, <2>2
<1>7. QED
  BY <1>2, <1>3, <1>5, <1>6 DEF Files, MapsByKey, OwnersOnly

LEMMA SettledInsert ==
  ASSUME SettledInv, TypeOK', Unhashed, NEW i \in Interest, NEW l \in Link, NEW o, NEW t,
         i \notin Live, PoolLeft(i), Insert(i, l, o, t)
  PROVE  Files(i, NewEntry(i, i, l, o, t)) /\ MapsByKey' /\ OwnersOnly'
<1> DEFINE p == Lowest(Free)
           a == NewEntry(i, i, l, o, t)
<1>1. /\ p \in Entry /\ entry[p] = None /\ entryTable[i] = None
      /\ cleanup \in [Link -> [Interest -> Entry \cup {None}]]
  BY PoolGives DEF Free, SettledInv, ListedInv, TypeInv, TypeOK, Live, TableKey
<1>2. a.key = i /\ a.interest = i /\ a.ingress # {}
  BY DEF NewEntry
<1>3. /\ entryTable' = [entryTable EXCEPT ![i] = p]
      /\ ListFor(l, i, p) /\ Release([entry EXCEPT ![p] = a])
  BY DEF Insert, Unhashed
<1> HIDE DEF p, a
<1>4. \A m \in Link, j \in Interest : \/ cleanup'[m][j] = cleanup[m][j]
                                      \/ (j = i /\ cleanup'[m][j] = p)
  BY <1>1, <1>3 DEF ListFor
<1>5. TypeOK /\ MapsByKey /\ OwnersOnly
  BY DEF SettledInv, ListedInv, TypeInv
<1>6. Files(i, a) /\ MapsByKey' /\ OwnersOnly'
  BY <1>1, <1>2, <1>3, <1>4, <1>5, SettledFiled
<1>7. QED
  BY <1>6 DEF a


LEMMA SettledRenewed ==
  ASSUME SettledInv, TypeOK', NEW i \in Interest, NEW l \in Link, NEW life \in Lifetime,
         AddDuplicate(i, l, life) \/ AddAggregated(i, l, life)
  PROVE  /\ \E z : Files(i, z) /\ z.ingress = At(i).ingress \cup {l}
                   /\ z.expiration = Longer(entryTable[i], now + life)
         /\ MapsByKey' /\ OwnersOnly'
<1> DEFINE x == entryTable[i]
           t == now + life
           y == Prolonged(entry[x], Longer(x, t))
           z == IF AddDuplicate(i, l, life) THEN y ELSE Joined(y, l)
<1>1. /\ TypeOK /\ MapsByKey /\ OwnersOnly /\ Structures
      /\ i \in Live /\ i \in TableKey /\ x \in Entry /\ entry[x] \in PITEntry
      /\ entry[x].key = i /\ entry[x].interest = i
  <2>1. TypeOK /\ MapsByKey /\ OwnersOnly /\ i \in Live
    BY DEF SettledInv, ListedInv, TypeInv, AddDuplicate, AddAggregated
  <2>2. QED
    BY <2>1, EntryThere DEF TypeOK, SettledInv, ListedInv, InterestIsKey, At
<1>2. t \in Time
  BY <1>1, TimeIsLong DEF TypeOK
<1>3. /\ Extend(x, t) /\ entryTable' = entryTable
      /\ cleanup' = cleanup \/ ListFor(l, i, x)
      /\ Release([entry EXCEPT ![x] = z])
      /\ AddDuplicate(i, l, life) => l \in entry[x].ingress
  BY DEF AddDuplicate, AddAggregated
<1> HIDE DEF x
<1>4. Longer(x, t) \in Time
  <2> HIDE DEF t
  <2>1. QED
    BY <1>1, <1>2, <1>3, ExtendType
<1>5. /\ y \in PITEntry /\ y.key = i /\ y.interest = i
      /\ y.ingress = entry[x].ingress /\ y.expiration = Longer(x, t)
  <2> HIDE DEF t
  <2>1. QED
    BY <1>1, <1>4, ProlongedType
<1>6. /\ z.key = i /\ z.interest = i /\ z.ingress = entry[x].ingress \cup {l}
      /\ z.expiration = Longer(x, t)
  <2> HIDE DEF y, t
  <2>1. QED
    BY <1>3, <1>5, JoinedType
<1> HIDE DEF z
<1>7. \A m \in Link, j \in Interest : \/ cleanup'[m][j] = cleanup[m][j]
                                      \/ (j = i /\ cleanup'[m][j] = x)
  BY <1>1, <1>3 DEF ListFor, Structures
<1>8. entryTable' = [entryTable EXCEPT ![i] = x] /\ entryTable[i] = x
  BY <1>1, <1>3 DEF Structures, x
<1>9. z.ingress # {}
  BY <1>6
<1>10. Files(i, z) /\ MapsByKey' /\ OwnersOnly'
  <2> HIDE DEF y, t
  <2>1. TypeOK /\ MapsByKey /\ OwnersOnly /\ x \in Entry /\ z.key = i /\ z.interest = i
    BY <1>1, <1>6
  <2>2. QED
    BY <1>3, <1>7, <1>8, <1>9, <2>1, SettledFiled
<1>11. z.ingress = At(i).ingress \cup {l} /\ z.expiration = Longer(entryTable[i], now + life)
  <2>1. At(i) = entry[x] /\ entryTable[i] = x
    BY DEF At, x
  <2>2. QED
    BY <1>6, <2>1
<1> HIDE DEF y
<1>12. QED
  BY <1>10, <1>11

(* A call that purges still has an interest that is not pending to add,    *)
(* for one of the lifetimes from now.                                      *)
AddingInv ==
  adding # None => /\ adding.interest \notin Live
                   /\ \E life \in Lifetime : adding.expiration = now + life

LEMMA AddingNext ==
  TypeInv /\ AddingInv /\ [Next]_vars => AddingInv'
<1> SUFFICES ASSUME TypeInv, AddingInv, [Next]_vars, adding' # None PROVE AddingInv'
  BY DEF AddingInv
<1>1. TypeOK
  BY DEF TypeInv
<1>2. CASE UNCHANGED <<entryTable, adding, now>>
  BY <1>2 DEF AddingInv, Live
<1>3. ASSUME NEW i \in Interest, NEW l \in Link, NEW o \in Original, NEW life \in Lifetime,
             AddInterest(i, l, o, life)
      PROVE  AddingInv'
  <2>1. CASE AddFull(i, l, o, life)
    BY <2>1 DEF AddFull, AddingInv, Live
  <2>2. CASE AddNew(i, l, o, life) \/ AddDuplicate(i, l, life) \/ AddAggregated(i, l, life)
    BY <2>2 DEF AddNew, AddDuplicate, AddAggregated
  <2>3. QED
    BY <1>3, <2>1, <2>2 DEF AddInterest
<1>4. CASE PurgeRecord
  <2>1. adding' = adding /\ now' = now /\ \A k \in Live' : k \in Live
    BY <1>1, <1>4, TypePurge DEF PurgeRecord, Shrunk
  <2>2. QED
    BY <2>1 DEF AddingInv
<1>5. CASE AddAfterPurge \/ AddRefused \/ Tick
  BY <1>5 DEF AddAfterPurge, AddRefused, Tick
<1>6. CASE \/ \E i \in Interest, l \in Link : RemoveInterest(i, l)
           \/ \E c \in Content : Match(c)
           \/ \E l \in Link : RemoveLink(l)
  BY <1>6 DEF RemoveInterest, Match, RemoveLink
<1>7. CASE UNCHANGED vars
  BY <1>2, <1>7 DEF vars
<1>8. QED
  BY <1>3, <1>4, <1>5, <1>6, <1>7 DEF Next

PendingInv == SettledInv /\ AddingInv /\ LimitInv

(* What a step of the PIT does to the table.                               *)
LEMMA Effects ==
  ASSUME PendingInv, TypeOK', Unhashed, [Next]_vars
  PROVE  /\ MapsByKey' /\ OwnersOnly'
         /\ \/ UNCHANGED <<entry, entryTable>>
            \/ \E K, v : Leave(K, v)
            \/ \E i, z : Files(i, z) /\ z.ingress # {}
<1> DEFINE Done == /\ MapsByKey' /\ OwnersOnly'
                   /\ \/ UNCHANGED <<entry, entryTable>>
                      \/ \E K, v : Leave(K, v)
                      \/ \E i, z : Files(i, z) /\ z.ingress # {}
<1>1. SettledInv /\ AddingInv /\ TypeInv /\ TypeOK
  BY DEF PendingInv, SettledInv, ListedInv, TypeInv
<1>2. ASSUME NEW i, NEW z, Files(i, z), z.ingress # {}, MapsByKey', OwnersOnly' PROVE Done
  BY <1>2
<1>3. ASSUME NEW K, NEW v, Leave(K, v), MapsByKey', OwnersOnly' PROVE Done
  BY <1>3
<1>4. CASE UNCHANGED <<entry, entryTable, cleanup>>
  BY <1>1, <1>4 DEF SettledInv, MapsByKey, OwnersOnly
<1> HIDE DEF Done
<1>5. ASSUME NEW i \in Interest, NEW l \in Link, NEW o, NEW t,
             i \notin Live, PoolLeft(i), Insert(i, l, o, t)
      PROVE  Done
  <2> DEFINE z == NewEntry(i, i, l, o, t)
  <2>1. Files(i, z) /\ MapsByKey' /\ OwnersOnly'
    BY <1>1, <1>5, SettledInsert
  <2>2. z.ingress # {}
    BY DEF NewEntry
  <2> HIDE DEF z
  <2>3. QED
    BY <1>2, <2>1, <2>2
<1>6. ASSUME NEW i \in Interest, NEW l \in Link, NEW o \in Original, NEW life \in Lifetime,
             AddInterest(i, l, o, life)
      PROVE  Done
  <2>1. CASE AddNew(i, l, o, life)
    BY <1>5, <2>1 DEF AddNew
  <2>2. CASE AddFull(i, l, o, life)
    BY <1>4, <2>2 DEF AddFull, Done
  <2>3. CASE AddDuplicate(i, l, life) \/ AddAggregated(i, l, life)
    BY <1>1, <1>2, <2>3, SettledRenewed
  <2>4. QED
    BY <1>6, <2>1, <2>2, <2>3 DEF AddInterest
<1>7. CASE PurgeRecord
  BY <1>1, <1>3, <1>7, LeavePurge
<1>8. CASE AddAfterPurge
  <2>1. /\ adding.interest \in Interest /\ adding.link \in Link
        /\ PoolLeft(adding.interest) /\ adding.interest \notin Live
    BY <1>1, <1>8 DEF AddAfterPurge, TypeInv, TypeOK, AddingInv
  <2>2. Insert(adding.interest, adding.link, adding.original, adding.expiration)
    BY <1>8 DEF AddAfterPurge
  <2>3. Done
    BY <1>5, <2>1, <2>2
  <2>4. QED
    BY <2>3 DEF Done
<1>9. CASE AddRefused \/ Tick \/ UNCHANGED vars
  BY <1>4, <1>9 DEF AddRefused, Tick, vars, Done
<1>10. ASSUME NEW i \in Interest, NEW l \in Link, RemoveInterest(i, l)
       PROVE  Done
  BY <1>1, <1>3, <1>10, LeaveRemoveInterest
<1>11. ASSUME NEW c \in Content, Match(c)
       PROVE  Done
  BY <1>1, <1>3, <1>11, LeaveMatch
<1>12. ASSUME NEW l \in Link, RemoveLink(l)
       PROVE  Done
  BY <1>1, <1>3, <1>12, LeaveRemoveLink
<1>13. QED
  BY <1>6, <1>7, <1>8, <1>9, <1>10, <1>11, <1>12 DEF Next, Done

LEMMA PendingNext ==
  ASSUME Unhashed
  PROVE  PendingInv /\ [Next]_vars => PendingInv'
<1> SUFFICES ASSUME PendingInv, [Next]_vars PROVE PendingInv'
  OBVIOUS
<1>1. ListedInv' /\ AddingInv' /\ LimitInv'
  BY ListedNext, AddingNext, LimitNext DEF PendingInv, SettledInv, ListedInv
<1>2. TypeOK'
  BY <1>1 DEF ListedInv, TypeInv
<1>3. NoIdleEntry
  BY DEF PendingInv, SettledInv
<1>4. NoIdleEntry'
  <2>1. CASE UNCHANGED <<entry, entryTable>>
    BY <1>3, <2>1 DEF NoIdleEntry, Live, At
  <2>2. ASSUME NEW K, NEW v, Leave(K, v) PROVE NoIdleEntry'
    <3>1. \A k \in Live' : k \in TableKey
      BY DEF Live
    <3>2. QED
      BY <1>3, <2>2, <3>1 DEF NoIdleEntry, Leave
  <2>3. ASSUME NEW i, NEW z, Files(i, z), z.ingress # {} PROVE NoIdleEntry'
    BY <1>3, <2>3 DEF NoIdleEntry, Files
  <2>4. QED
    BY <1>2, <2>1, <2>2, <2>3, Effects
<1>5. MapsByKey' /\ OwnersOnly'
  BY <1>2, Effects
<1>6. QED
  BY <1>1, <1>4, <1>5 DEF PendingInv, SettledInv

LEMMA PendingInit == Init => PendingInv
<1> SUFFICES ASSUME Init PROVE PendingInv
  OBVIOUS
<1>1. ListedInv /\ LimitInv /\ Live = {}
  BY ListedInit, LimitInit DEF Init, Live
<1>2. QED
  BY <1>1 DEF Init, PendingInv, SettledInv, AddingInv, MapsByKey, OwnersOnly, NoIdleEntry

(* When no interest has a content id, a link waits for every entry,        *)
(* whatever links were removed, interests withdrawn and records purged     *)
(* under its key, and until it is due a purge finds it by its record.      *)
THEOREM AlwaysWaitedForAndScheduled ==
  ASSUME Unhashed
  PROVE  Spec => []WaitedForAndScheduled
<1>1. PendingInv => NoIdleEntry
  BY DEF PendingInv, SettledInv
<1>2. LaterIsScheduled /\ NoIdleEntry => WaitedForAndScheduled
  BY DEF WaitedForAndScheduled
<1>3. QED
  BY <1>1, <1>2, PendingInit, PendingNext, LaterAlwaysScheduled, PTL DEF Spec

(***************************************************************************)
(* The refinement of PendingInterests, when no interest has a content id.  *)
(***************************************************************************)

LEMMA PendingMeans ==
  ASSUME PendingInv, Unhashed
  PROVE  /\ \A i \in Interest : /\ Pending[i] = IF i \in Live THEN At(i).ingress ELSE {}
                                /\ Until[i] = IF i \in Live THEN At(i).expiration ELSE 0
                                /\ Pending[i] # {} <=> i \in Live
                                /\ i \in TableKey
         /\ \A k \in Live : k \in Interest /\ At(k).ingress \subseteq Link
                            /\ At(k).expiration \in Nat
<1>1. \A k \in Live : k \in Interest /\ At(k).ingress # {}
  BY DEF Live, TableKey, Unhashed, PendingInv, SettledInv, NoIdleEntry
<1>2. \A k \in Live : At(k).ingress \subseteq Link /\ At(k).expiration \in Nat
  <2>1. TypeOK
    BY DEF PendingInv, SettledInv, ListedInv, TypeInv
  <2>2. \A k \in Live : At(k) \in PITEntry
    BY <2>1, EntryThere DEF At
  <2>3. QED
    BY <2>2, TimeIsLong, BoundsAssumption DEF PITEntry
<1>3. QED
  BY <1>1, <1>2 DEF Pending, Until, TableKey

(* The links in v no longer wait for the interests in K. *)
LEMMA LeaveRefines ==
  ASSUME PendingInv, PendingInv', Unhashed, NEW K, NEW v, Leave(K, v)
  PROVE  /\ Pending' = [i \in Interest |-> IF i \in K THEN Pending[i] \ v ELSE Pending[i]]
         /\ Until' = [i \in Interest |-> IF Pending'[i] = {} THEN 0 ELSE Until[i]]
<1>1. ASSUME NEW i \in Interest
      PROVE  /\ Pending'[i] = IF i \in K THEN Pending[i] \ v ELSE Pending[i]
             /\ Until'[i] = IF Pending'[i] = {} THEN 0 ELSE Until[i]
  <2>1. /\ Pending[i] = IF i \in Live THEN At(i).ingress ELSE {}
        /\ Until[i] = IF i \in Live THEN At(i).expiration ELSE 0
        /\ i \in TableKey
    BY PendingMeans
  <2>2. /\ Pending'[i] = IF i \in Live' THEN At(i)'.ingress ELSE {}
        /\ Until'[i] = IF i \in Live' THEN At(i)'.expiration ELSE 0
        /\ Pending'[i] # {} <=> i \in Live'
    BY DEF Pending, Until, PendingInv, SettledInv, NoIdleEntry
  <2>3. /\ i \in Live' <=> i \in Live /\ (i \in K => At(i).ingress \ v # {})
        /\ i \in Live' =>
             /\ At(i)'.expiration = At(i).expiration
             /\ At(i)'.ingress = IF i \in K THEN At(i).ingress \ v ELSE At(i).ingress
    BY <2>1 DEF Leave
  <2>4. QED
    BY <2>1, <2>2, <2>3
<1>2. Pending' = [i \in Interest |-> Pending'[i]] /\ Until' = [i \in Interest |-> Until'[i]]
  BY DEF Pending, Until
<1>3. QED
  BY <1>1, <1>2

(* The requests of the interests in K end. *)
LEMMA LeaveForgets ==
  ASSUME PendingInv, PendingInv', Unhashed, NEW K, Leave(K, Link)
  PROVE  Requests!Forget(K)
<1>1. /\ Pending' = [i \in Interest |-> IF i \in K THEN Pending[i] \ Link ELSE Pending[i]]
      /\ Until' = [i \in Interest |-> IF Pending'[i] = {} THEN 0 ELSE Until[i]]
  BY LeaveRefines
<1>2. \A i \in Interest : Pending[i] \ Link = {} /\ (Pending[i] = {} => Until[i] = 0)
  BY PendingMeans
<1>3. Pending' = [i \in Interest |-> IF i \in K THEN {} ELSE Pending[i]]
  BY <1>1, <1>2
<1>4. Until' = [i \in Interest |-> IF i \in K THEN 0 ELSE Until[i]]
  BY <1>1, <1>2, <1>3
<1>5. QED
  BY <1>3, <1>4 DEF Requests!Forget

(* One more link waits for i. *)
LEMMA FilesRefines ==
  ASSUME PendingInv, PendingInv', Unhashed, NEW i \in Interest, NEW z, Files(i, z)
  PROVE  /\ Pending' = [Pending EXCEPT ![i] = z.ingress]
         /\ Until' = [Until EXCEPT ![i] = z.expiration]
<1>1. \A j \in Interest : /\ Pending'[j] = IF j = i THEN z.ingress ELSE Pending[j]
                          /\ Until'[j] = IF j = i THEN z.expiration ELSE Until[j]
  BY DEF Pending, Until, Files
<1>2. /\ Pending' = [j \in Interest |-> Pending'[j]] /\ Until' = [j \in Interest |-> Until'[j]]
      /\ Pending = [j \in Interest |-> Pending[j]] /\ Until = [j \in Interest |-> Until[j]]
  BY DEF Pending, Until
<1> HIDE DEF Pending, Until
<1>3. QED
  BY <1>1, <1>2

LEMMA WaitingIsLive ==
  ASSUME PendingInv, Unhashed
  PROVE  Requests!Waiting = Live
<1>1. \A i : i \in Requests!Waiting <=> i \in Interest /\ Pending[i] # {}
  BY DEF Requests!Waiting
<1>2. \A i : i \in Requests!Waiting <=> i \in Live
  BY <1>1, PendingMeans
<1>3. QED
  BY <1>2

(* What the caller is told of the last call, as PendingInterests has it.   *)
LEMMA ReplyMeans ==
  \A r : Result(r).result = r /\ Result(r).links = {}
BY DEF Result

LEMMA InsertRefines ==
  ASSUME PendingInv, PendingInv', Unhashed, NEW i \in Interest, NEW l \in Link, NEW o,
         NEW life \in Lifetime, i \notin Live, PoolLeft(i), Insert(i, l, o, now + life),
         reply' = Result("Forward"), now' = now
  PROVE  Requests!Ask(i, l, life)
<1> DEFINE z == NewEntry(i, i, l, o, now + life)
<1>1. SettledInv /\ TypeOK' /\ now + life \in Nat
  <2>1. now \in Nat /\ life \in Nat
    BY BoundsAssumption DEF PendingInv, SettledInv, ListedInv, TypeInv, TypeOK
  <2>2. QED
    BY <2>1 DEF PendingInv, SettledInv, ListedInv, TypeInv
<1>2. Files(i, z)
  BY <1>1, SettledInsert
<1>3. z.ingress = {l} /\ z.expiration = now + life
  BY DEF NewEntry
<1> HIDE DEF z
<1>4. /\ Pending' = [Pending EXCEPT ![i] = {l}]
      /\ Until' = [Until EXCEPT ![i] = now + life]
  BY <1>2, <1>3, FilesRefines
<1>5. Pending[i] = {} /\ Until[i] = 0
  BY PendingMeans
<1>6. /\ Pending' = [Pending EXCEPT ![i] = @ \cup {l}]
      /\ Until' = [Until EXCEPT ![i] = Requests!Later(@, now + life)]
  <2>1. {l} = Pending[i] \cup {l}
    BY <1>5
  <2>2. now + life = Requests!Later(Until[i], now + life)
    BY <1>1, <1>5 DEF Requests!Later
  <2>3. QED
    BY <1>4, <2>1, <2>2
<1>7. <<reply'.result, reply'.links>> = <<"Forward", {}>>
  BY ReplyMeans
<1>8. QED
  BY <1>5, <1>6, <1>7 DEF Requests!Ask

LEMMA RenewRefines ==
  ASSUME PendingInv, PendingInv', Unhashed, NEW i \in Interest, NEW l \in Link,
         NEW life \in Lifetime, AddDuplicate(i, l, life) \/ AddAggregated(i, l, life)
  PROVE  Requests!Ask(i, l, life)
<1>1. SettledInv /\ TypeOK' /\ i \in Live /\ now' = now
  BY DEF PendingInv, SettledInv, ListedInv, TypeInv, AddDuplicate, AddAggregated
<1>2. \E z : Files(i, z) /\ z.ingress = At(i).ingress \cup {l}
             /\ z.expiration = Longer(entryTable[i], now + life)
  BY <1>1, SettledRenewed
<1>3. PICK z : Files(i, z) /\ z.ingress = At(i).ingress \cup {l}
               /\ z.expiration = Longer(entryTable[i], now + life)
  BY <1>2
<1>4. Pending[i] = At(i).ingress /\ Until[i] = At(i).expiration /\ Pending[i] # {}
  BY <1>1, PendingMeans
<1>5. /\ Pending' = [Pending EXCEPT ![i] = z.ingress]
      /\ Until' = [Until EXCEPT ![i] = z.expiration]
  BY <1>3, FilesRefines
<1>6. Longer(entryTable[i], now + life) = Requests!Later(Until[i], now + life)
  <2>1. now + life \in Nat /\ Until[i] \in Nat
    <3>1. now \in Nat /\ life \in Nat
      BY BoundsAssumption DEF PendingInv, SettledInv, ListedInv, TypeInv, TypeOK
    <3>2. QED
      BY <1>1, <1>4, <3>1, PendingMeans
  <2>2. QED
    BY <1>4, <2>1 DEF Longer, Requests!Later, At
<1>7. /\ Pending' = [Pending EXCEPT ![i] = @ \cup {l}]
      /\ Until' = [Until EXCEPT ![i] = Requests!Later(@, now + life)]
  <2>1. z.ingress = Pending[i] \cup {l}
    BY <1>3, <1>4
  <2>2. z.expiration = Requests!Later(Until[i], now + life)
    BY <1>3, <1>6
  <2>3. QED
    BY <1>5, <2>1, <2>2
<1>8. <<reply'.result, reply'.links>> =
        IF Pending[i] = {} \/ l \in Pending[i] THEN <<"Forward", {}>> ELSE <<"Aggregated", {}>>
  BY <1>4, ReplyMeans DEF AddDuplicate, AddAggregated, At
<1>9. QED
  BY <1>1, <1>7, <1>8 DEF Requests!Ask

LEMMA RefuseRefines ==
  ASSUME PendingInv, PendingInv', Unhashed, AddRefused
  PROVE  Requests!Refuse(adding.interest) /\ adding.interest \in Interest
<1>1. adding.interest \in Interest /\ adding.interest \notin Live
  BY DEF AddRefused, PendingInv, SettledInv, ListedInv, TypeInv, TypeOK, AddingInv
<1>2. Cardinality(Live) >= Capacity
  <2>1. Cardinality(Live) \in Nat
    BY FS_CardinalityType DEF PendingInv, LimitInv
  <2>2. QED
    BY <2>1, BoundsAssumption DEF AddRefused, HasRoom
<1>3. Pending' = Pending /\ Until' = Until /\ now' = now
  BY DEF AddRefused, Pending, Until, Live, At
<1>4. <<reply'.result, reply'.links>> = <<"Error", {}>>
  BY ReplyMeans DEF AddRefused
<1>5. /\ adding.interest \notin Requests!Waiting
      /\ Requests!Cardinality(Requests!Waiting) >= Capacity
  <2>1. \A S : Requests!Cardinality(S) = Cardinality(S)
    BY DEF Requests!Cardinality, Cardinality
  <2>2. QED
    BY <1>1, <1>2, <2>1, WaitingIsLive
<1>6. QED
  BY <1>1, <1>3, <1>4, <1>5 DEF Requests!Refuse

LEMMA PurgeRefines ==
  ASSUME PendingInv, PendingInv', Unhashed, PurgeRecord
  PROVE  \E K \in SUBSET Requests!Waiting : Requests!Expire(K)
<1>1. \E K \in SUBSET Live : Leave(K, Link) /\ \A k \in K : At(k).expiration < now
  BY LeavePurge DEF PendingInv
<1>2. PICK K \in SUBSET Live : Leave(K, Link) /\ \A k \in K : At(k).expiration < now
  BY <1>1
<1>3. \A k \in K : Until[k] < now
  BY <1>2, PendingMeans
<1>4. Requests!Forget(K)
  BY <1>2, LeaveForgets
<1>5. now' = now /\ reply' = reply
  BY DEF PurgeRecord
<1>6. K \in SUBSET Requests!Waiting
  BY WaitingIsLive
<1>7. QED
  BY <1>3, <1>4, <1>5, <1>6 DEF Requests!Expire

LEMMA MatchRefines ==
  ASSUME PendingInv, PendingInv', Unhashed, NEW c \in Content, Match(c)
  PROVE  Requests!Answer(c)
<1>1. Leave(Matched(c), Link)
  BY LeaveMatch DEF PendingInv
<1>2. Requests!Forget(Matched(c))
  BY <1>1, LeaveForgets
<1>3. /\ Matched(c) \subseteq Matches(c)
      /\ \A i \in Matches(c) : i \in Interest /\ (i \notin Matched(c) => i \notin Live)
  BY PendingMeans DEF Matched, Matches
<1>4. \A i \in Interest : i \notin Live => Pending[i] = {} /\ Until[i] = 0
  BY PendingMeans
<1>5. Requests!Forget(Matches(c))
  <2>1. \A i \in Interest :
          /\ Pending[i] = {} /\ Until[i] = 0
          \/ (i \in Matched(c) <=> i \in Matches(c))
    BY <1>3, <1>4
  <2>2. Pending' = [i \in Interest |-> IF i \in Matches(c) THEN {} ELSE Pending[i]]
    BY <1>2, <2>1 DEF Requests!Forget
  <2>3. Until' = [i \in Interest |-> IF i \in Matches(c) THEN 0 ELSE Until[i]]
    BY <1>2, <2>1 DEF Requests!Forget
  <2>4. QED
    BY <2>2, <2>3 DEF Requests!Forget
<1>6. reply'.links = UNION {Pending[i] : i \in Matches(c)}
  <2>1. reply'.links = UNION {At(k).ingress : k \in Matched(c)}
    BY DEF Match, PITValue, At
  <2>2. \A l : (\E k \in Matched(c) : l \in At(k).ingress)
               <=> (\E i \in Matches(c) : l \in Pending[i])
    <3>1. \A k \in Matched(c) : k \in Matches(c) /\ Pending[k] = At(k).ingress
      BY <1>3, PendingMeans DEF Matched
    <3>2. \A i \in Matches(c) : Pending[i] # {} => i \in Matched(c)
      BY <1>3, <1>4
    <3>3. QED
      BY <3>1, <3>2
  <2>3. QED
    BY <2>1, <2>2
<1>7. reply'.result = "Match" /\ now' = now
  BY DEF Match, PITValue
<1>8. QED
  BY <1>5, <1>6, <1>7 DEF Requests!Answer

LEMMA RemoveRefines ==
  ASSUME PendingInv, PendingInv', Unhashed, NEW l \in Link,
         (\E i \in Interest : RemoveInterest(i, l)) \/ RemoveLink(l)
  PROVE  \E S \in SUBSET Interest : Requests!Withdraw(l, S)
<1>1. PICK K \in SUBSET Interest : Leave(K, {l})
  <2>1. CASE \E i \in Interest : RemoveInterest(i, l)
    <3>1. PICK i \in Interest : RemoveInterest(i, l)
      BY <2>1
    <3>2. Leave({i}, {l})
      BY <3>1, LeaveRemoveInterest DEF PendingInv
    <3>3. QED
      BY <3>2
  <2>2. CASE RemoveLink(l)
    <3>1. Leave(Live, {l})
      BY <2>2, LeaveRemoveLink DEF PendingInv
    <3>2. Live \in SUBSET Interest
      BY PendingMeans
    <3>3. QED
      BY <3>1, <3>2
  <2>3. QED
    BY <2>1, <2>2
<1>2. /\ Pending' = [i \in Interest |-> IF i \in K THEN Pending[i] \ {l} ELSE Pending[i]]
      /\ Until' = [i \in Interest |-> IF Pending'[i] = {} THEN 0 ELSE Until[i]]
  BY <1>1, LeaveRefines
<1>3. <<reply'.result, reply'.links>> = <<"None", {}>> /\ now' = now
  BY ReplyMeans DEF RemoveInterest, RemoveLink
<1>4. Requests!Withdraw(l, K)
  BY <1>2, <1>3 DEF Requests!Withdraw
<1>5. QED
  BY <1>4

LEMMA NextRefines ==
  ASSUME Unhashed
  PROVE  PendingInv /\ PendingInv' /\ [Next]_vars => [Requests!Next]_(Requests!vars)
<1> SUFFICES ASSUME PendingInv, PendingInv', [Next]_vars PROVE [Requests!Next]_(Requests!vars)
  OBVIOUS
<1>1. ASSUME UNCHANGED <<entry, entryTable, now, reply>> PROVE UNCHANGED Requests!vars
  BY <1>1 DEF Requests!vars, Pending, Until, Live, At
<1>2. ASSUME NEW i \in Interest, NEW l \in Link, NEW o \in Original, NEW life \in Lifetime,
             AddInterest(i, l, o, life)
      PROVE  Requests!Ask(i, l, life) \/ UNCHANGED Requests!vars
  <2>1. CASE AddNew(i, l, o, life)
    BY <2>1, InsertRefines DEF AddNew
  <2>2. CASE AddFull(i, l, o, life)
    BY <1>1, <2>2 DEF AddFull
  <2>3. CASE AddDuplicate(i, l, life) \/ AddAggregated(i, l, life)
    BY <2>3, RenewRefines
  <2>4. QED
    BY <1>2, <2>1, <2>2, <2>3 DEF AddInterest
<1>3. CASE PurgeRecord
  BY <1>3, PurgeRefines DEF Requests!Next
<1>4. CASE AddAfterPurge
  <2>1. /\ adding.interest \in Interest /\ adding.link \in Link
        /\ PoolLeft(adding.interest) /\ adding.interest \notin Live
        /\ \E life \in Lifetime : adding.expiration = now + life
    BY <1>4 DEF AddAfterPurge, PendingInv, SettledInv, ListedInv, TypeInv, TypeOK, AddingInv
  <2>2. PICK life \in Lifetime : adding.expiration = now + life
    BY <2>1
  <2>3. Insert(adding.interest, adding.link, adding.original, now + life)
        /\ reply' = Result("Forward") /\ now' = now
    BY <1>4, <2>2 DEF AddAfterPurge
  <2>4. Requests!Ask(adding.interest, adding.link, life)
    BY <2>1, <2>3, InsertRefines
  <2>5. QED
    BY <2>1, <2>4 DEF Requests!Next
<1>5. CASE AddRefused
  BY <1>5, RefuseRefines DEF Requests!Next
<1>6. ASSUME NEW l \in Link, (\E i \in Interest : RemoveInterest(i, l)) \/ RemoveLink(l)
      PROVE  Requests!Next
  BY <1>6, RemoveRefines DEF Requests!Next
<1>7. ASSUME NEW c \in Content, Match(c)
      PROVE  Requests!Next
  BY <1>7, MatchRefines DEF Requests!Next
<1>8. CASE Tick
  <2>1. Pending' = Pending /\ Until' = Until
    BY <1>8 DEF Tick, Pending, Until, Live, At
  <2>2. Requests!Tick
    BY <1>8, <2>1 DEF Tick, Requests!Tick
  <2>3. QED
    BY <2>2 DEF Requests!Next
<1>9. CASE UNCHANGED vars
  BY <1>1, <1>9 DEF vars
<1>10. QED
  BY <1>2, <1>3, <1>4, <1>5, <1>6, <1>7, <1>8, <1>9 DEF Next, Requests!Next

(* When no interest has a content id, the PIT keeps the pending interests  *)
(* it promises, whatever is aggregated, extended, withdrawn, purged and    *)
(* asked for again: content answers exactly the links that wait for it, a  *)
(* request is dropped only when all those for its content have expired or  *)
(* its link goes away or withdraws it, and an interest is refused only     *)
(* when Capacity others are pending.                                       *)
THEOREM PITKeepsPendingInterests ==
  ASSUME Unhashed
  PROVE  Spec => ImplementsPendingInterests
<1>1. Init => Requests!Init
  <2> SUFFICES ASSUME Init PROVE Requests!Init
    OBVIOUS
  <2>1. Live = {} /\ now = 0 /\ reply = Result("None")
    BY DEF Init, Live
  <2>2. Pending = [i \in Interest |-> {}] /\ Until = [i \in Interest |-> 0]
    BY <2>1 DEF Pending, Until
  <2>3. QED
    BY <2>1, <2>2, ReplyMeans DEF Requests!Init
<1>2. QED
  BY <1>1, PendingInit, PendingNext, NextRefines, PTL
  DEF Spec, ImplementsPendingInterests, Requests!Spec
==============================================================================
