-------------------------- MODULE AthenaFIBProofs --------------------------
(***************************************************************************)
(* What holds of AthenaFIB for every set of names, links and translations. *)
(***************************************************************************)
EXTENDS AthenaFIB, WellFoundedInduction, SequenceTheorems, TLAPS

(* A non-empty set of natural numbers has a least element.                 *)
LEMMA LeastNatural ==
  ASSUME NEW T, T \subseteq Nat, T # {}
  PROVE  \E x \in T : \A y \in T : x <= y
<1>1. \E x \in T : \A y \in T : ~(<<y, x>> \in OpToRel(<, Nat))
  BY NatLessThanWellFounded, WFMin
<1>2. PICK x \in T : \A y \in T : ~(<<y, x>> \in OpToRel(<, Nat))
  BY <1>1
<1>3. \A y \in T : ~(y < x)
  BY <1>2 DEF OpToRel
<1>4. QED
  BY <1>3

(* A non-empty set of positions of a name has a last one.                  *)
LEMMA GreatestPosition ==
  ASSUME NEW b \in Nat, NEW S, S \subseteq 1 .. b, S # {}
  PROVE  \E k \in S : \A j \in S : j <= k
<1> DEFINE T == {b - k : k \in S}
<1>1. \A k \in S : k \in Int /\ b - k \in Nat
  OBVIOUS
<1>2. T \subseteq Nat
  BY <1>1
<1>3. T # {}
  OBVIOUS
<1> HIDE DEF T
<1>4. PICK x \in T : \A y \in T : x <= y
  BY <1>2, <1>3, LeastNatural
<1>5. PICK k \in S : x = b - k
  BY DEF T
<1>6. \A j \in S : b - k <= b - j
  BY <1>4, <1>5 DEF T
<1>7. \A j \in S : j <= k
  BY <1>1, <1>6
<1>8. QED
  BY <1>7

(***************************************************************************)
(* The lookup                                                              *)
(***************************************************************************)

(* Trimming nothing off a name leaves the name.                            *)
LEMMA TrimNothing ==
  ASSUME NEW n \in Name
  PROVE  Len(n) \in 1 .. Len(n) /\ Len(n) \in Nat /\ Trim(n, Len(n)) = n
<1>1. n \in Seq(Segment) /\ n # <<>>
  BY NamesAssumption
<1>2. Len(n) \in Nat /\ Len(n) > 0
  BY <1>1, LenProperties, EmptySeq
<1>3. SubSeq(n, 1, Len(n)) = n
  BY <1>1, SubSeqFull
<1>4. QED
  BY <1>2, <1>3 DEF Trim

(* A lookup that stops, stops at the longest name that stops it.           *)
LEMMA MatchProperties ==
  ASSUME NEW n \in Name, NEW ingress, MatchLength(n, ingress) # 0
  PROVE  LET k == MatchLength(n, ingress)
         IN /\ k \in 1 .. Len(n)
            /\ Trim(n, k) \in Name
            /\ Stops(Trim(n, k), ingress)
            /\ \A j \in 1 .. Len(n) : Stops(Trim(n, j), ingress) => j <= k
<1>1. Hits(n, ingress) # {}
  BY DEF MatchLength
<1>2. Hits(n, ingress) \subseteq 1 .. Len(n)
  BY DEF Hits
<1>3. \E k \in Hits(n, ingress) : \A j \in Hits(n, ingress) : j <= k
  BY <1>1, <1>2, TrimNothing, GreatestPosition
<1>4. /\ MatchLength(n, ingress) \in Hits(n, ingress)
      /\ \A j \in Hits(n, ingress) : j <= MatchLength(n, ingress)
  BY <1>1, <1>3 DEF MatchLength
<1>5. QED
  BY <1>4, NamesAssumption DEF Hits

(* Looked up without an ingress, a name that has an entry finds it.        *)
LEMMA MatchOwn ==
  ASSUME TypeOK, NEW n \in Name, tableByName[n] # NoEntry
  PROVE  MatchLength(n, NoLink) = Len(n) /\ Trim(n, Len(n)) = n
<1>1. tableByName[n].links \subseteq Link
  BY DEF TypeOK, FIBValue
<1>2. Stops(n, NoLink)
  BY <1>1, SentinelAssumption DEF Stops
<1>3. Len(n) \in Hits(n, NoLink)
  BY <1>2, TrimNothing DEF Hits
<1>4. MatchLength(n, NoLink) # 0
  <2>1. PICK k \in Hits(n, NoLink) : \A j \in Hits(n, NoLink) : j <= k
    BY <1>3, TrimNothing, GreatestPosition DEF Hits
  <2>2. MatchLength(n, NoLink) \in Hits(n, NoLink)
    BY <1>3, <2>1 DEF MatchLength
  <2>3. QED
    BY <2>2, TrimNothing DEF Hits
<1>5. QED
  BY <1>2, <1>4, MatchProperties, TrimNothing

(***************************************************************************)
(* Types                                                                   *)
(***************************************************************************)

LEMMA TypeInit == Init => TypeOK
  BY DEF Init, TypeOK

LEMMA TypeNext == TypeOK /\ [Next]_vars => TypeOK'
<1> SUFFICES ASSUME TypeOK, [Next]_vars PROVE TypeOK'
  OBVIOUS
<1>1. ASSUME NEW n \in Name, NEW t \in Translation, NEW v \in (SUBSET Link) \ {{}},
             AddTranslationRoute(n, t, v)
      PROVE  TypeOK'
  <2>1. t.prefix \in Prefix /\ t.key \in Key
    BY DEF Prefix, Key
  <2>2. tableByName'[n] \in FIBValue
    BY <1>1, <2>1 DEF AddTranslationRoute, Added, List, TypeOK, FIBValue, WithLinks
  <2>3. tableByName' \in [Name -> FIBValue \cup {NoEntry}]
    BY <1>1, <2>2 DEF AddTranslationRoute, Added, List, TypeOK
  <2>4. QED
    BY <1>1, <2>3 DEF AddTranslationRoute, Added, List, TypeOK
<1>2. ASSUME NEW v \in (SUBSET Link) \ {{}}, AddDefaultRoute(v)
      PROVE  TypeOK'
  BY <1>2 DEF AddDefaultRoute, DefaultLinks, TypeOK
<1>3. ASSUME NEW v \in SUBSET Link, ClearDefault(v)
      PROVE  defaultRoute' \in {NoEntry} \cup SUBSET Link
  BY <1>3 DEF ClearDefault, DefaultLinks, TypeOK
<1>4. ASSUME NEW v \in (SUBSET Link) \ {{}}, DeleteDefaultRoute(v)
      PROVE  TypeOK'
  BY <1>3, <1>4 DEF DeleteDefaultRoute, TypeOK
<1>5. ASSUME NEW n \in Name, NEW v \in SUBSET Link, DeleteFrom(n, v), UNCHANGED rl
      PROVE  TypeOK'
  <2>1. CASE DeleteMatched(n, v)
    <3> DEFINE m == Trim(n, MatchLength(n, NoLink))
    <3>1. m \in Name /\ tableByName[m] \in FIBValue
      BY <2>1, MatchProperties DEF DeleteMatched, Stops, TypeOK
    <3>2. WithLinks(tableByName[m], tableByName[m].links \ v) \in FIBValue
      BY <3>1 DEF FIBValue, WithLinks
    <3>3. tableByName' \in [Name -> FIBValue \cup {NoEntry}]
      BY <2>1, <3>1, <3>2 DEF DeleteMatched, TypeOK
    <3>4. QED
      BY <1>5, <2>1, <3>3 DEF DeleteMatched, Unlist, TypeOK
  <2>2. CASE DeleteUnmatched(n, v)
    BY <1>5, <2>2 DEF DeleteUnmatched, DefaultLinks, Unlist, TypeOK
  <2>3. CASE DeleteNothing(n, v)
    BY <1>5, <2>3 DEF DeleteNothing, TypeOK
  <2>4. QED
    BY <1>5, <2>1, <2>2, <2>3 DEF DeleteFrom
<1>6. ASSUME NEW n \in Name, NEW v \in (SUBSET Link) \ {{}}, DeleteRoute(n, v)
      PROVE  TypeOK'
  BY <1>5, <1>6 DEF DeleteRoute
<1>7. ASSUME NEW l \in Link, RemoveLinkBegin(l)
      PROVE  TypeOK'
  BY <1>7 DEF RemoveLinkBegin, TypeOK
<1>8. CASE RemoveLinkDelete
  <2>1. PICK n \in listOfLinks[rl] : DeleteFrom(n, {rl})
    BY <1>8 DEF RemoveLinkDelete
  <2>2. n \in Name /\ {rl} \in SUBSET Link
    BY <1>8, <2>1 DEF RemoveLinkDelete, TypeOK
  <2>3. QED
    BY <1>5, <1>8, <2>1, <2>2 DEF RemoveLinkDelete
<1>9. CASE RemoveLinkEnd
  <2>1. {rl} \in SUBSET Link
    BY <1>9 DEF RemoveLinkEnd, TypeOK
  <2>2. QED
    BY <1>3, <1>9, <2>1 DEF RemoveLinkEnd, TypeOK
<1>10. CASE UNCHANGED vars
  BY <1>10 DEF vars, TypeOK
<1>11. QED
  BY <1>1, <1>2, <1>4, <1>6, <1>7, <1>8, <1>9, <1>10 DEF Next

(* Every table, list and vector of the FIB keeps its type.                 *)
THEOREM TypeCorrect == Spec => []TypeOK
  BY TypeInit, TypeNext, PTL DEF Spec

(***************************************************************************)
(* The reverse index.  RoutesListed is inductive with the types alone and  *)
(* needs nothing of the deletes: a delete takes a name off the lists of v  *)
(* only after the vector it worked on lost v, and the name itself either   *)
(* owns that vector or has no entry.                                       *)
(***************************************************************************)

(* What a delete does to the routes of a name.                             *)
LEMMA DeleteEffect ==
  ASSUME TypeOK, NEW n \in Name, NEW v \in SUBSET Link, DeleteFrom(n, v)
  PROVE  /\ \A m \in Name, l \in Link :
              Uses(m, l)' => Uses(m, l) /\ (m = n => l \notin v)
         /\ \A l \in Link : listOfLinks'[l] \in {listOfLinks[l], listOfLinks[l] \ {n}}
         /\ \A l \in Link \ v : listOfLinks'[l] = listOfLinks[l]
<1>1. CASE DeleteMatched(n, v)
  <2> DEFINE m == Trim(n, MatchLength(n, NoLink))
  <2>1. m \in Name /\ tableByName[m] \in FIBValue
    BY <1>1, MatchProperties DEF DeleteMatched, Stops, TypeOK
  <2>2. m # n => tableByName[n] = NoEntry
    BY MatchOwn
  <2>3. tableByName'[m] = NoEntry \/ tableByName'[m].links = tableByName[m].links \ v
    BY <1>1, <2>1 DEF DeleteMatched, TypeOK, WithLinks
  <2>4. \A o \in Name : o # m => tableByName'[o] = tableByName[o]
    BY <1>1, <2>1 DEF DeleteMatched, TypeOK
  <2>5. \A o \in Name, l \in Link : Uses(o, l)' => Uses(o, l) /\ (o = n => l \notin v)
    <3> SUFFICES ASSUME NEW o \in Name, NEW l \in Link, Uses(o, l)'
                 PROVE  Uses(o, l) /\ (o = n => l \notin v)
      OBVIOUS
    <3> HIDE DEF m
    <3>1. CASE o = m
      BY <2>1, <2>2, <2>3, <3>1, SentinelAssumption DEF Uses
    <3>2. CASE o # m
      BY <2>2, <2>4, <3>2 DEF Uses
    <3>3. QED
      BY <3>1, <3>2
  <2>6. QED
    BY <1>1, <2>5 DEF DeleteMatched, Unlist
<1>2. CASE DeleteUnmatched(n, v)
  <2>1. tableByName[n] = NoEntry
    BY <1>2, MatchOwn, TrimNothing DEF DeleteUnmatched
  <2>2. QED
    BY <1>2, <2>1 DEF DeleteUnmatched, Unlist, Uses
<1>3. CASE DeleteNothing(n, v)
  <2>1. \A l \in v : ~Uses(n, l)
    <3>1. CASE tableByName[n] = NoEntry
      BY <3>1 DEF Uses
    <3>2. CASE tableByName[n] # NoEntry
      <4>1. Lookup(n, NoLink) = tableByName[n]
        BY <3>2, MatchOwn, TrimNothing, SentinelAssumption
           DEF Lookup, Reduced, TypeOK, FIBValue
      <4>2. QED
        BY <1>3, <3>2, <4>1 DEF DeleteNothing, Uses
    <3>3. QED
      BY <3>1, <3>2
  <2>2. QED
    BY <1>3, <2>1 DEF DeleteNothing, Uses
<1>4. QED
  BY <1>1, <1>2, <1>3 DEF DeleteFrom

LEMMA ListedNext == TypeOK /\ RoutesListed /\ [Next]_vars => RoutesListed'
<1> SUFFICES ASSUME TypeOK, RoutesListed, [Next]_vars,
                    NEW m \in Name, NEW l \in Link, Uses(m, l)'
             PROVE  m \in listOfLinks'[l]
  BY DEF RoutesListed, Uses
<1>1. ASSUME NEW n \in Name, NEW t \in Translation, NEW v \in (SUBSET Link) \ {{}},
             AddTranslationRoute(n, t, v)
      PROVE  m \in listOfLinks'[l]
  <2>1. CASE m = n
    <3>1. Uses(n, l) \/ l \in v
      BY <1>1, <2>1 DEF AddTranslationRoute, Added, List, Uses, TypeOK, WithLinks
    <3>2. QED
      BY <1>1, <2>1, <3>1 DEF AddTranslationRoute, Added, List, RoutesListed, TypeOK
  <2>2. CASE m # n
    BY <1>1, <2>2 DEF AddTranslationRoute, Added, List, RoutesListed, Uses, TypeOK
  <2>3. QED
    BY <2>1, <2>2
<1>2. ASSUME NEW n \in Name, NEW v \in SUBSET Link, DeleteFrom(n, v)
      PROVE  m \in listOfLinks'[l]
  <2>1. Uses(m, l) /\ (m = n => l \notin v)
    BY <1>2, DeleteEffect
  <2>2. m \in listOfLinks[l]
    BY <2>1 DEF RoutesListed
  <2>3. QED
    BY <1>2, <2>1, <2>2, DeleteEffect
<1>3. CASE RemoveLinkDelete
  <2>1. PICK n \in listOfLinks[rl] : DeleteFrom(n, {rl})
    BY <1>3 DEF RemoveLinkDelete
  <2>2. n \in Name /\ {rl} \in SUBSET Link
    BY <1>3, <2>1 DEF RemoveLinkDelete, TypeOK
  <2>3. QED
    BY <1>2, <2>1, <2>2
<1>4. CASE UNCHANGED <<tableByName, listOfLinks>>
  BY <1>4 DEF RoutesListed, Uses
<1>5. QED
  BY <1>1, <1>2, <1>3, <1>4
     DEF Next, vars, AddDefaultRoute, DeleteDefaultRoute, DeleteRoute,
         RemoveLinkBegin, RemoveLinkEnd

(* The lists that athenaFIB_RemoveLink walks name every route over a link, *)
(* whatever prefixes are added and deleted, strays included.               *)
THEOREM ListsCoverRoutes == Spec => []RoutesListed
<1>1. Init => RoutesListed
  BY DEF Init, RoutesListed, Uses
<1>2. QED
  BY <1>1, TypeInit, TypeNext, ListedNext, PTL DEF Spec

(* A link for which athenaFIB_RemoveLink returns is used by no route.      *)
THEOREM RemovedLinkUnused == Spec => RemovedLinkIsGone
<1>1. TypeOK /\ RoutesListed /\ [Next]_vars
      => [\A l \in Link : rl = l /\ rl' = NoLink =>
            /\ \A n \in Name : ~Uses(n, l)'
            /\ l \notin DefaultLinks']_vars
  <2> SUFFICES ASSUME TypeOK, RoutesListed, [Next]_vars,
                      NEW l \in Link, rl = l, rl' = NoLink
               PROVE  /\ \A n \in Name : ~Uses(n, l)'
                      /\ l \notin DefaultLinks'
    OBVIOUS
  <2>1. RemoveLinkEnd
    BY SentinelAssumption
       DEF Next, vars, AddTranslationRoute, AddDefaultRoute, DeleteDefaultRoute,
           DeleteRoute, RemoveLinkBegin, RemoveLinkDelete
  <2>2. \A n \in Name : ~Uses(n, l)
    BY <2>1 DEF RemoveLinkEnd, RoutesListed
  <2>3. l \notin DefaultLinks'
    BY <2>1 DEF RemoveLinkEnd, ClearDefault, DefaultLinks
  <2>4. QED
    BY <2>1, <2>2, <2>3 DEF RemoveLinkEnd, Uses
<1>2. QED
  BY <1>1, TypeCorrect, ListsCoverRoutes, PTL DEF Spec, RemovedLinkIsGone

(***************************************************************************)
(* A forwarder whose routes are only deleted where they were added.        *)
(***************************************************************************)

(* The invariant of such a forwarder: table and reverse index are dual and *)
(* nothing is left empty.                                                  *)
DualInv == TypeOK /\ RoutesListed /\ ListsRouted /\ NoDeadEntry

(* A delete of a name that has an entry works on that entry.               *)
LEMMA DeleteOwn ==
  ASSUME TypeOK, NEW n \in Name, NEW v \in SUBSET Link,
         tableByName[n] # NoEntry, DeleteFrom(n, v)
  PROVE  \/ UNCHANGED <<tableByName, listOfLinks, defaultRoute>>
         \/ /\ tableByName' = [tableByName EXCEPT ![n] =
                 IF tableByName[n].links \ v = {} THEN NoEntry
                 ELSE WithLinks(tableByName[n], tableByName[n].links \ v)]
            /\ Unlist(n, v)
            /\ UNCHANGED defaultRoute
<1>1. MatchLength(n, NoLink) = Len(n) /\ Trim(n, Len(n)) = n /\ Len(n) # 0
  BY MatchOwn, TrimNothing
<1>2. QED
  BY <1>1 DEF DeleteFrom, DeleteMatched, DeleteUnmatched, DeleteNothing

LEMMA DeleteOwnKeepsDual ==
  ASSUME DualInv, NEW n \in Name, NEW v \in SUBSET Link,
         tableByName[n] # NoEntry, DeleteFrom(n, v)
  PROVE  ListsRouted' /\ NoDeadEntry'
<1>1. CASE UNCHANGED <<tableByName, listOfLinks, defaultRoute>>
  BY <1>1 DEF DualInv, ListsRouted, NoDeadEntry, Uses
<1>2. CASE /\ tableByName' = [tableByName EXCEPT ![n] =
                 IF tableByName[n].links \ v = {} THEN NoEntry
                 ELSE WithLinks(tableByName[n], tableByName[n].links \ v)]
           /\ Unlist(n, v)
           /\ UNCHANGED defaultRoute
  <2>1. \A m \in Name : m # n => tableByName'[m] = tableByName[m]
    BY <1>2 DEF DualInv, TypeOK
  <2>2. IF tableByName[n].links \ v = {}
          THEN tableByName'[n] = NoEntry
          ELSE /\ tableByName'[n] = WithLinks(tableByName[n], tableByName[n].links \ v)
               /\ tableByName'[n].links = tableByName[n].links \ v
    BY <1>2 DEF DualInv, TypeOK, WithLinks
  <2>3. WithLinks(tableByName[n], tableByName[n].links \ v) # NoEntry
    BY SentinelAssumption DEF DualInv, TypeOK, FIBValue, WithLinks
  <2>4. NoDeadEntry'
    BY <1>2, <2>1, <2>2 DEF DualInv, NoDeadEntry
  <2>5. ASSUME NEW l \in Link, NEW m \in listOfLinks'[l]
        PROVE  Uses(m, l)'
    <3>1. m \in listOfLinks[l] /\ (l \in v => m # n) /\ m \in Name
      BY <1>2, <2>5 DEF Unlist, DualInv, TypeOK
    <3>2. Uses(m, l)
      BY <3>1 DEF DualInv, ListsRouted
    <3>3. CASE m = n
      BY <2>2, <2>3, <3>1, <3>2, <3>3 DEF Uses
    <3>4. CASE m # n
      BY <2>1, <3>1, <3>2, <3>4 DEF Uses
    <3>5. QED
      BY <3>3, <3>4
  <2>6. QED
    BY <2>4, <2>5 DEF ListsRouted
<1>3. QED
  BY <1>1, <1>2, DeleteOwn DEF DualInv

LEMMA DualNext ==
  ASSUME StrayDeletes = FALSE
  PROVE  DualInv /\ [Next]_vars => DualInv'
<1> SUFFICES ASSUME DualInv, [Next]_vars PROVE ListsRouted' /\ NoDeadEntry'
  BY TypeNext, ListedNext DEF DualInv
<1>1. ASSUME NEW n \in Name, NEW t \in Translation, NEW v \in (SUBSET Link) \ {{}},
             AddTranslationRoute(n, t, v)
      PROVE  ListsRouted' /\ NoDeadEntry'
  <2>1. /\ tableByName'[n] = IF tableByName[n] = NoEntry THEN WithLinks(t, v)
                             ELSE WithLinks(tableByName[n], tableByName[n].links \cup v)
        /\ \A m \in Name : m # n => tableByName'[m] = tableByName[m]
    BY <1>1 DEF AddTranslationRoute, Added, List, DualInv, TypeOK
  <2>2. t.prefix \in Prefix /\ t.key \in Key
    BY DEF Prefix, Key
  <2>3. tableByName'[n] \in FIBValue
    BY <2>1, <2>2 DEF DualInv, TypeOK, FIBValue, WithLinks
  <2>4. /\ tableByName'[n] # NoEntry
        /\ tableByName'[n].links # {}
        /\ v \subseteq tableByName'[n].links
        /\ \A l \in Link : Uses(n, l) => l \in tableByName'[n].links
    <3>1. tableByName'[n] # NoEntry
      BY <2>3, SentinelAssumption
    <3>2. CASE tableByName[n] = NoEntry
      <4>1. tableByName'[n].links = v
        BY <2>1, <3>2 DEF WithLinks
      <4>2. QED
        BY <3>1, <3>2, <4>1 DEF Uses
    <3>3. CASE tableByName[n] # NoEntry
      <4>1. tableByName'[n].links = tableByName[n].links \cup v
        BY <2>1, <3>3 DEF WithLinks
      <4>2. QED
        BY <3>1, <4>1 DEF Uses
    <3>4. QED
      BY <3>2, <3>3
  <2>5. NoDeadEntry'
    BY <1>1, <2>1, <2>4 DEF DualInv, NoDeadEntry, AddTranslationRoute
  <2>6. ASSUME NEW l \in Link, NEW m \in listOfLinks'[l]
        PROVE  Uses(m, l)'
    <3>1. m \in Name /\ (Uses(m, l) \/ (m = n /\ l \in v))
      BY <1>1, <2>6 DEF AddTranslationRoute, Added, List, DualInv, TypeOK, ListsRouted
    <3>2. QED
      BY <2>1, <2>4, <3>1 DEF Uses
  <2>7. QED
    BY <2>5, <2>6 DEF ListsRouted
<1>2. ASSUME NEW v \in (SUBSET Link) \ {{}}, AddDefaultRoute(v)
      PROVE  ListsRouted' /\ NoDeadEntry'
  <2>1. defaultRoute' # {}
    BY <1>2 DEF AddDefaultRoute
  <2>2. UNCHANGED <<tableByName, listOfLinks>>
    BY <1>2 DEF AddDefaultRoute
  <2>3. QED
    BY <2>1, <2>2 DEF DualInv, ListsRouted, NoDeadEntry, Uses
<1>3. ASSUME NEW v \in SUBSET Link, ClearDefault(v)
      PROVE  defaultRoute' # {}
  BY <1>3, SentinelAssumption DEF ClearDefault, DefaultLinks
<1>4. ASSUME NEW v \in (SUBSET Link) \ {{}}, DeleteDefaultRoute(v)
      PROVE  ListsRouted' /\ NoDeadEntry'
  BY <1>3, <1>4 DEF DeleteDefaultRoute, DualInv, ListsRouted, NoDeadEntry, Uses
<1>5. ASSUME NEW n \in Name, NEW v \in (SUBSET Link) \ {{}}, DeleteRoute(n, v)
      PROVE  ListsRouted' /\ NoDeadEntry'
  BY <1>5, DeleteOwnKeepsDual DEF DeleteRoute
<1>6. CASE RemoveLinkDelete
  <2>1. PICK n \in listOfLinks[rl] : DeleteFrom(n, {rl})
    BY <1>6 DEF RemoveLinkDelete
  <2>2. rl \in Link /\ n \in Name
    BY <1>6, <2>1 DEF RemoveLinkDelete, DualInv, TypeOK
  <2>3. tableByName[n] # NoEntry
    BY <2>1, <2>2 DEF DualInv, ListsRouted, Uses
  <2>4. QED
    BY <2>1, <2>2, <2>3, DeleteOwnKeepsDual
<1>7. CASE RemoveLinkEnd
  <2>1. {rl} \in SUBSET Link
    BY <1>7 DEF RemoveLinkEnd, DualInv, TypeOK
  <2>2. QED
    BY <1>3, <1>7, <2>1 DEF RemoveLinkEnd, DualInv, ListsRouted, NoDeadEntry, Uses
<1>8. CASE UNCHANGED <<tableByName, listOfLinks, defaultRoute>>
  BY <1>8 DEF DualInv, ListsRouted, NoDeadEntry, Uses
<1>9. QED
  BY <1>1, <1>2, <1>4, <1>5, <1>6, <1>7, <1>8 DEF Next, RemoveLinkBegin, vars

LEMMA DualInit == Init => DualInv
<1>1. Init => RoutesListed /\ ListsRouted /\ NoDeadEntry
  BY SentinelAssumption DEF Init, RoutesListed, ListsRouted, NoDeadEntry, Uses
<1>2. QED
  BY <1>1, TypeInit DEF DualInv

LEMMA DualCorrect ==
  ASSUME StrayDeletes = FALSE
  PROVE  Spec => []DualInv
<1>1. DualInv /\ [Next]_vars => DualInv'
  BY DualNext
<1>2. QED
  BY <1>1, DualInit, PTL DEF Spec

(* Every name listed for a link has a route over it: each iteration of the *)
(* loop of athenaFIB_RemoveLink shortens the list it walks.                *)
THEOREM ListsOnlyRoutes ==
  ASSUME StrayDeletes = FALSE
  PROVE  Spec => []ListsRouted
<1>1. DualInv => ListsRouted
  BY DEF DualInv
<1>2. QED
  BY <1>1, DualCorrect, PTL

(* No entry and no default vector is left empty to stop a lookup.          *)
THEOREM NoEmptyVector ==
  ASSUME StrayDeletes = FALSE
  PROVE  Spec => []NoDeadEntry
<1>1. DualInv => NoDeadEntry
  BY DEF DualInv
<1>2. QED
  BY <1>1, DualCorrect, PTL

(* The table and its reverse index agree.                                  *)
THEOREM TableAndListsKept ==
  ASSUME StrayDeletes = FALSE
  PROVE  Spec => []TableAndListsAgree
<1>1. RoutesListed /\ ListsRouted /\ NoDeadEntry => TableAndListsAgree
  BY DEF TableAndListsAgree
<1>2. QED
  BY <1>1, ListsCoverRoutes, ListsOnlyRoutes, NoEmptyVector, PTL

(* When no vector is empty, what stops the trimming loop is a name with a  *)
(* route over another link than the ingress.                               *)
LEMMA StopsIfUsable ==
  ASSUME TypeOK, NoDeadEntry, NEW m \in Name, NEW ingress \in Link \cup {NoLink}
  PROVE  Stops(m, ingress) <=> \E l \in Link \ {ingress} : Uses(m, l)
<1>1. tableByName[m] # NoEntry => tableByName[m].links \subseteq Link /\ tableByName[m].links # {}
  BY DEF TypeOK, FIBValue, NoDeadEntry
<1>2. QED
  BY <1>1 DEF Stops, Uses

(* The entry that is found, without the ingress, and otherwise the default *)
(* vector without it: a lookup that finds nothing has no link to give.     *)
LEMMA LookupLinks ==
  ASSUME TypeOK, NEW n \in Name, NEW ingress \in Link \cup {NoLink}
  PROVE  LET k     == MatchLength(n, ingress)
             found == IF k # 0 THEN tableByName[Trim(n, k)].links ELSE DefaultLinks
         IN (IF Lookup(n, ingress) = NoEntry THEN {} ELSE Lookup(n, ingress).links) = found \ {ingress}
<1> DEFINE k == MatchLength(n, ingress)
           m == Trim(n, k)
<1>1. CASE k # 0
  <2>1. k \in 1 .. Len(n) /\ m \in Name /\ tableByName[m] # NoEntry
    BY <1>1, MatchProperties DEF Stops
  <2>2. k > 0
    BY <2>1, TrimNothing
  <2>3. Lookup(n, ingress) = Reduced(m, ingress)
    BY <2>2 DEF Lookup
  <2> HIDE DEF k, m
  <2>4. tableByName[m] \in FIBValue
    BY <2>1 DEF TypeOK
  <2>5. Reduced(m, ingress) \in FIBValue /\ Reduced(m, ingress).links = tableByName[m].links \ {ingress}
    BY <2>4, TranslationAssumption DEF Reduced, FIBValue, Prefix, Key
  <2>6. Lookup(n, ingress) # NoEntry
    BY <2>3, <2>5, SentinelAssumption
  <2>7. QED
    BY <1>1, <2>3, <2>5, <2>6 DEF k, m
<1>2. CASE k = 0
  <2>1. Lookup(n, ingress) = DefaultValue(ingress)
    BY <1>2 DEF Lookup
  <2>2. CASE defaultRoute \in {NoEntry, {ingress}}
    <3>1. Lookup(n, ingress) = NoEntry
      BY <2>1, <2>2 DEF DefaultValue
    <3>2. DefaultLinks \ {ingress} = {}
      BY <2>2 DEF DefaultLinks
    <3>3. QED
      BY <1>2, <3>1, <3>2
  <2>3. CASE defaultRoute \notin {NoEntry, {ingress}}
    <3> DEFINE value == [links |-> defaultRoute \ {ingress}, prefix |-> NoPrefix, key |-> NoKey]
    <3>1. Lookup(n, ingress) = value
      BY <2>1, <2>3 DEF DefaultValue
    <3>2. value \in FIBValue /\ value.links = DefaultLinks \ {ingress}
      BY <2>3 DEF TypeOK, FIBValue, Prefix, Key, DefaultLinks
    <3> HIDE DEF value
    <3>3. Lookup(n, ingress) # NoEntry
      BY <3>1, <3>2, SentinelAssumption
    <3>4. QED
      BY <1>2, <3>1, <3>2, <3>3
  <2>4. QED
    BY <2>2, <2>3
<1>3. QED
  BY <1>1, <1>2

(* What the lookup returns is the longest prefix that has a route over     *)
(* another link than the ingress, for every name, ingress and history.     *)
THEOREM LookupFindsLongestUsable ==
  ASSUME StrayDeletes = FALSE
  PROVE  Spec => []LookupIsLongestUsable
<1>1. ASSUME DualInv, NEW n \in Name, NEW ingress \in Link \cup {NoLink}
      PROVE  LET usable == {k \in 1 .. Len(n) :
                              \E l \in Link \ {ingress} : Uses(Trim(n, k), l)}
                 best   == CHOOSE k \in usable : \A j \in usable : j <= k
                 found  == IF usable # {} THEN tableByName[Trim(n, best)].links
                                          ELSE DefaultLinks
                 egress == IF Lookup(n, ingress) = NoEntry THEN {}
                                                           ELSE Lookup(n, ingress).links
             IN egress = found \ {ingress}
  <2>1. TypeOK /\ NoDeadEntry
    BY <1>1 DEF DualInv
  <2>2. {k \in 1 .. Len(n) : \E l \in Link \ {ingress} : Uses(Trim(n, k), l)} = Hits(n, ingress)
    <3>1. \A k \in 1 .. Len(n) : Trim(n, k) \in Name
      BY NamesAssumption
    <3>2. \A k \in 1 .. Len(n) :
            Stops(Trim(n, k), ingress) <=> \E l \in Link \ {ingress} : Uses(Trim(n, k), l)
      BY <2>1, <3>1, StopsIfUsable
    <3>3. QED
      BY <3>2 DEF Hits
  <2>3. CASE Hits(n, ingress) # {}
    <3>1. MatchLength(n, ingress) = CHOOSE k \in Hits(n, ingress) : \A j \in Hits(n, ingress) : j <= k
      BY <2>3 DEF MatchLength
    <3>2. MatchLength(n, ingress) # 0
      <4>1. PICK k \in Hits(n, ingress) : \A j \in Hits(n, ingress) : j <= k
        BY <2>3, TrimNothing, GreatestPosition DEF Hits
      <4>2. MatchLength(n, ingress) \in Hits(n, ingress)
        BY <3>1, <4>1
      <4>3. QED
        BY <4>2, TrimNothing DEF Hits
    <3>3. QED
      BY <2>1, <2>2, <2>3, <3>1, <3>2, LookupLinks
  <2>4. CASE Hits(n, ingress) = {}
    <3>1. MatchLength(n, ingress) = 0
      BY <2>4 DEF MatchLength
    <3>2. QED
      BY <2>1, <2>2, <2>4, <3>1, LookupLinks
  <2>5. QED
    BY <2>3, <2>4
<1>2. DualInv => LookupIsLongestUsable
  BY <1>1 DEF LookupIsLongestUsable
<1>3. QED
  BY <1>2, DualCorrect, PTL

(***************************************************************************)
(* The refinement                                                          *)
(***************************************************************************)

(* A name has a route exactly when it has an entry.                        *)
LEMMA RoutedIffEntry ==
  ASSUME DualInv, NEW n \in Name
  PROVE  /\ \A l \in Link : <<n, l>> \in UsedRoutes <=> Uses(n, l)
         /\ Routes!Routed(n) <=> tableByName[n] # NoEntry
<1>1. \A l \in Link : <<n, l>> \in UsedRoutes <=> Uses(n, l)
  BY DEF UsedRoutes
<1>2. tableByName[n] # NoEntry => \E l \in Link : Uses(n, l)
  BY DEF DualInv, TypeOK, NoDeadEntry, FIBValue, Uses
<1>3. (\E l \in Link : Uses(n, l)) => tableByName[n] # NoEntry
  BY DEF Uses
<1>4. QED
  BY <1>1, <1>2, <1>3 DEF Routes!Routed

(* A delete of a name that has an entry removes just the routes it names.  *)
LEMMA DeleteRefines ==
  ASSUME DualInv, NEW n \in Name, NEW v \in SUBSET Link,
         tableByName[n] # NoEntry, DeleteFrom(n, v)
  PROVE  [Routes!Next]_(Routes!vars)
<1>1. CASE UNCHANGED <<tableByName, listOfLinks, defaultRoute>>
  BY <1>1 DEF Routes!vars, UsedRoutes, Uses, DefaultLinks, TranslationOf
<1>2. CASE /\ tableByName' = [tableByName EXCEPT ![n] =
                 IF tableByName[n].links \ v = {} THEN NoEntry
                 ELSE WithLinks(tableByName[n], tableByName[n].links \ v)]
           /\ Unlist(n, v)
           /\ UNCHANGED defaultRoute
  <2>1. \A m \in Name : m # n => tableByName'[m] = tableByName[m]
    BY <1>2 DEF DualInv, TypeOK
  <2>2. CASE tableByName[n].links \ v = {}
    <3>1. tableByName'[n] = NoEntry
      BY <1>2, <2>2 DEF DualInv, TypeOK
    <3>2. \A m \in Name, l \in Link :
             Uses(m, l)' <=> Uses(m, l) /\ ~(m = n /\ l \in v)
      BY <2>1, <2>2, <3>1 DEF Uses
    <3>3. UsedRoutes' = UsedRoutes \ ({n} \X v)
      BY <3>2 DEF UsedRoutes
    <3>4. TranslationOf' = [TranslationOf EXCEPT ![n] = NoEntry]
      BY <2>1, <3>1 DEF TranslationOf
    <3>5. ~\E l \in Link \ v : <<n, l>> \in UsedRoutes
      BY <2>2, RoutedIffEntry DEF Uses
    <3>6. Routes!Remove(n, v)
      BY <1>2, <3>3, <3>4, <3>5 DEF Routes!Remove, DefaultLinks
    <3>7. QED
      BY <3>6 DEF Routes!Next
  <2>3. CASE tableByName[n].links \ v # {}
    <3>1. tableByName'[n] = WithLinks(tableByName[n], tableByName[n].links \ v)
      BY <1>2, <2>3 DEF DualInv, TypeOK
    <3>2. /\ tableByName'[n].links = tableByName[n].links \ v
          /\ tableByName'[n].prefix = tableByName[n].prefix
          /\ tableByName'[n].key = tableByName[n].key
      BY <3>1 DEF WithLinks
    <3>3. tableByName'[n] # NoEntry
      BY <3>1, SentinelAssumption DEF DualInv, TypeOK, FIBValue, WithLinks
    <3>4. \A m \in Name, l \in Link :
             Uses(m, l)' <=> Uses(m, l) /\ ~(m = n /\ l \in v)
      BY <2>1, <3>2, <3>3 DEF Uses
    <3>5. UsedRoutes' = UsedRoutes \ ({n} \X v)
      BY <3>4 DEF UsedRoutes
    <3>6. TranslationOf' = TranslationOf
      BY <2>1, <3>2, <3>3 DEF TranslationOf
    <3>7. \E l \in Link \ v : <<n, l>> \in UsedRoutes
      BY <2>3, RoutedIffEntry DEF Uses, DualInv, TypeOK, FIBValue
    <3>8. Routes!Remove(n, v)
      BY <1>2, <3>5, <3>6, <3>7 DEF Routes!Remove, DefaultLinks
    <3>9. QED
      BY <3>8 DEF Routes!Next
  <2>4. QED
    BY <2>2, <2>3
<1>3. QED
  BY <1>1, <1>2, DeleteOwn DEF DualInv

LEMMA AddRefines ==
  ASSUME DualInv, NEW n \in Name, NEW t \in Translation,
         NEW v \in (SUBSET Link) \ {{}}, AddTranslationRoute(n, t, v)
  PROVE  Routes!Add(n, t, v)
<1>1. \A m \in Name : m # n => tableByName'[m] = tableByName[m]
  BY DEF AddTranslationRoute, Added, List, DualInv, TypeOK
<1>2. DefaultLinks' = DefaultLinks
  BY DEF AddTranslationRoute, Added, List, DefaultLinks
<1>3. CASE tableByName[n] = NoEntry
  <2>1. tableByName'[n] = WithLinks(t, v)
    BY <1>3 DEF AddTranslationRoute, Added, List, DualInv, TypeOK
  <2>2. t = [prefix |-> t.prefix, key |-> t.key] /\ t.prefix \in Prefix /\ t.key \in Key
    BY TranslationAssumption DEF Prefix, Key
  <2>3. /\ tableByName'[n].links = v
        /\ t = [prefix |-> tableByName'[n].prefix, key |-> tableByName'[n].key]
        /\ tableByName'[n] # NoEntry
    BY <2>1, <2>2, SentinelAssumption DEF WithLinks, FIBValue
  <2>4. \A m \in Name, l \in Link : Uses(m, l)' <=> Uses(m, l) \/ (m = n /\ l \in v)
    BY <1>1, <1>3, <2>3 DEF Uses
  <2>5. UsedRoutes' = UsedRoutes \cup ({n} \X v)
    BY <2>4 DEF UsedRoutes
  <2>6. TranslationOf' = [TranslationOf EXCEPT ![n] = t]
    BY <1>1, <2>3 DEF TranslationOf
  <2>7. ~Routes!Routed(n)
    BY <1>3, RoutedIffEntry
  <2>8. QED
    BY <1>2, <2>5, <2>6, <2>7 DEF Routes!Add
<1>4. CASE tableByName[n] # NoEntry
  <2>1. tableByName'[n] = WithLinks(tableByName[n], tableByName[n].links \cup v)
    BY <1>4 DEF AddTranslationRoute, Added, List, DualInv, TypeOK
  <2>2. /\ tableByName'[n].links = tableByName[n].links \cup v
        /\ tableByName'[n].prefix = tableByName[n].prefix
        /\ tableByName'[n].key = tableByName[n].key
    BY <2>1 DEF WithLinks
  <2>3. tableByName'[n] # NoEntry
    BY <1>4, <2>1, SentinelAssumption DEF DualInv, TypeOK, FIBValue, WithLinks
  <2>4. \A m \in Name, l \in Link : Uses(m, l)' <=> Uses(m, l) \/ (m = n /\ l \in v)
    BY <1>1, <1>4, <2>2, <2>3 DEF Uses
  <2>5. UsedRoutes' = UsedRoutes \cup ({n} \X v)
    BY <2>4 DEF UsedRoutes
  <2>6. TranslationOf' = TranslationOf
    BY <1>1, <1>4, <2>2, <2>3 DEF TranslationOf
  <2>7. Routes!Routed(n)
    BY <1>4, RoutedIffEntry
  <2>8. QED
    BY <1>2, <2>5, <2>6, <2>7 DEF Routes!Add
<1>5. QED
  BY <1>3, <1>4

(* A step that touches only the default route sets the default links.      *)
LEMMA DefaultsRefine ==
  ASSUME TypeOK', UNCHANGED tableByName
  PROVE  Routes!Next
<1>1. DefaultLinks' \in SUBSET Link
  BY DEF TypeOK, DefaultLinks
<1>2. Routes!SetDefaults(DefaultLinks')
  BY DEF Routes!SetDefaults, UsedRoutes, Uses, TranslationOf
<1>3. QED
  BY <1>1, <1>2 DEF Routes!Next

(* The FIB is the set of routes it promises: every operation, the walk of  *)
(* athenaFIB_RemoveLink included, adds or removes just the routes it names *)
(* and a translation lives exactly as long as its name has a route.        *)
THEOREM RefinesRouteSet ==
  ASSUME StrayDeletes = FALSE
  PROVE  Spec => ImplementsRouteSet
<1>1. Init => Routes!Init
  BY DEF Init, Routes!Init, UsedRoutes, Uses, DefaultLinks, TranslationOf
<1>2. DualInv /\ TypeOK' /\ [Next]_vars => [Routes!Next]_(Routes!vars)
  <2> SUFFICES ASSUME DualInv, TypeOK', [Next]_vars
               PROVE  [Routes!Next]_(Routes!vars)
    OBVIOUS
  <2>1. ASSUME NEW n \in Name, NEW t \in Translation, NEW v \in (SUBSET Link) \ {{}},
               AddTranslationRoute(n, t, v)
        PROVE  Routes!Next
    BY <2>1, AddRefines DEF Routes!Next
  <2>2. CASE UNCHANGED tableByName
    BY <2>2, DefaultsRefine
  <2>3. ASSUME NEW n \in Name, NEW v \in (SUBSET Link) \ {{}}, DeleteRoute(n, v)
        PROVE  [Routes!Next]_(Routes!vars)
    BY <2>3, DeleteRefines DEF DeleteRoute
  <2>4. CASE RemoveLinkDelete
    <3>1. PICK n \in listOfLinks[rl] : DeleteFrom(n, {rl})
      BY <2>4 DEF RemoveLinkDelete
    <3>2. rl \in Link /\ n \in Name
      BY <2>4, <3>1 DEF RemoveLinkDelete, DualInv, TypeOK
    <3>3. tableByName[n] # NoEntry
      BY <3>1, <3>2 DEF DualInv, ListsRouted, Uses
    <3>4. QED
      BY <3>1, <3>2, <3>3, DeleteRefines
  <2>5. QED
    BY <2>1, <2>2, <2>3, <2>4
       DEF Next, vars, AddDefaultRoute, DeleteDefaultRoute, RemoveLinkBegin, RemoveLinkEnd
<1>3. QED
  BY <1>1, <1>2, DualCorrect, TypeCorrect, PTL DEF Spec, ImplementsRouteSet, Routes!Spec
============================================================================
