------------------------------ MODULE AthenaPIT ------------------------------
(***************************************************************************)
(* The pending interest table of an Athena forwarder (athena_PIT.c).       *)
(*                                                                         *)
(* An entry is an object that up to three structures hold a reference to:  *)
(* entryTable by its key, the cleanup map of each ingress link by the key  *)
(* of the entry's interest, and the bucket of timeoutTable for the time it *)
(* was to expire at.  They get out of step (an entry leaves one and stays  *)
(* in another), so entries have identities and an entry is freed when      *)
(* nothing holds it.  The compound key of an interest is its name, content *)
(* id and key id, that is, the interest; an interest with a content id     *)
(* also gets a nameless entry under the content id alone.                  *)
(*                                                                         *)
(* Every operation is one step except an AddInterest that finds the table  *)
(* full: it purges one timeout record per step, then tries again (adding). *)
(* The clock is read once per operation.  The order of the records in one  *)
(* bucket is left open.  Statistics (interestCount and the latencies) and  *)
(* the egress vector, which nothing reads, are left out.                   *)
(*                                                                         *)
(* A definition named Mutant... is the definition after it with a bug the  *)
(* code could have had; the properties are checked to notice it.           *)
(***************************************************************************)
EXTENDS Naturals, FiniteSets, Functions

CONSTANTS
  Interest,    (* [name, cid, kid] records                                 *)
  Content,     (* [name, cid, kid] records; name and kid may be None       *)
  Link,        (* link identifiers                                         *)
  Original,    (* [name, key]: the originalName and encapKey of an interest *)
  Lifetime,    (* interest lifetimes                                       *)
  Capacity,    (* the entry limit                                          *)
  MaxTime,     (* bound: the clock stops here                              *)
  Entry,       (* bound: 1 .. number of entries that can exist at once     *)
  None         (* NULL                                                     *)

(* Only the content id gives an interest a second, nameless entry. *)
Nameless(i) == [name |-> None, cid |-> i.cid, kid |-> None]

TableKey == Interest \cup {Nameless(i) : i \in {j \in Interest : j.cid # None}}

(* The interests with no content id: they have no nameless entry.          *)
Unhashed == \A i \in Interest : i.cid = None

Time == 0 .. (MaxTime + CHOOSE m \in Lifetime : \A x \in Lifetime : x <= m)

(* struct athena_pitEntry. *)
PITEntry == [key : TableKey, interest : Interest, ingress : SUBSET Link,
             original : Original, expiration : Time]

ASSUME BoundsAssumption ==
  /\ MaxTime \in Nat /\ Capacity \in Nat
  /\ Lifetime \subseteq Nat /\ Lifetime # {}
  /\ \E m \in Lifetime : \A x \in Lifetime : x <= m
  /\ Entry \subseteq Nat /\ IsFiniteSet(Entry)

ASSUME InterestAssumption ==
  /\ \A i \in Interest : i = [name |-> i.name, cid |-> i.cid, kid |-> i.kid]
  /\ \A i \in Interest : i.name # None
  /\ None \notin Entry
  /\ None \notin PITEntry

VARIABLES
  entry,       (* [Entry -> PITEntry \cup {None}], None when it is free    *)
  entryTable,  (* [TableKey -> Entry \cup {None}]                          *)
  cleanup,     (* linkCleanupList: [Link -> [Interest -> Entry \cup {None}]] *)
  timeouts,    (* timeoutTable: [Time -> SUBSET Entry]                     *)
  now,         (* the clock                                                *)
  adding,      (* the AddInterest call that is purging, or None            *)
  reply        (* what the last call returned                              *)

vars == <<entry, entryTable, cleanup, timeouts, now, adding, reply>>

Live == {k \in TableKey : entryTable[k] # None}

(***************************************************************************)
(* Entries                                                                 *)
(***************************************************************************)

(* The entries that something holds a reference to. *)
Held(table, maps, buckets) ==
  Entry \cap (Range(table) \cup (UNION {Range(maps[l]) : l \in Link})
                           \cup (UNION Range(buckets)))

(* A step leaves the entries as in e, except that what is released is gone. *)
Release(e) ==
  entry' = [x \in Entry |->
    IF x \in Held(entryTable', cleanup', timeouts') THEN e[x] ELSE None]

Free == {x \in Entry : entry[x] = None}

Lowest(S) == CHOOSE x \in S : \A y \in S : x <= y

(* The links in v leave the ingress of an entry, or of the entries in X.   *)
WithoutLinks(y, v) == [y EXCEPT !.ingress = @ \ v]

Cleared(e, X, v) ==
  [x \in Entry |-> IF x \in X THEN WithoutLinks(e[x], v) ELSE e[x]]

(***************************************************************************)
(* The clean-up maps and the timeout buckets                               *)
(***************************************************************************)

(* _athenaPIT_addInterestToLinkCleanupList: the map of the link has the    *)
(* last entry put under the interest.                                      *)
MutantFirstStaysListed(l, i, x) ==
  cleanup' = IF cleanup[l][i] = None THEN [cleanup EXCEPT ![l][i] = x] ELSE cleanup

ListFor(l, i, x) == cleanup' = [cleanup EXCEPT ![l][i] = x]

(* _athenaPIT_removeInterestFromCleanupList of the links in v: the map of  *)
(* each link forgets k, and the entry it had loses the link.               *)
MutantForgottenByAll(k, v) ==
  [l \in Link |-> IF k \in Interest THEN [cleanup[l] EXCEPT ![k] = None] ELSE cleanup[l]]

Uncleaned(k, v) ==
  [l \in Link |-> IF l \in v /\ k \in Interest
                    THEN [cleanup[l] EXCEPT ![k] = None] ELSE cleanup[l]]

LosesLinks(e, k, v) ==
  [x \in Entry |->
    LET lost == {l \in v : k \in Interest /\ cleanup[l][k] = x}
    IN IF lost = {} THEN e[x] ELSE WithoutLinks(e[x], lost)]

(* The records _athenaPIT_removeInterestFromTimeoutTable may take out for  *)
(* x: the first one in the bucket of x with the key of x.  The records of  *)
(* earlier entries with that key come before the record of x.              *)
FirstRecord(x) ==
  LET peers == {y \in timeouts[entry[x].expiration] : entry[y].key = entry[x].key}
  IN IF peers \ {x} # {} THEN peers \ {x} ELSE peers

(* What a call that sends nothing back along the links returns. *)
Result(r) == [result |-> r, links |-> {}, name |-> None, key |-> None]

(***************************************************************************)
(* athenaPIT_AddInterest                                                   *)
(***************************************************************************)

(* _athenaPITEntry_Create: a new entry under the key k.                    *)
NewEntry(k, i, l, o, expiration) ==
  [key |-> k, interest |-> i, ingress |-> {l}, original |-> o, expiration |-> expiration]

(* A new entry, and a nameless one when the interest has a content id.     *)
Insert(i, l, o, expiration) ==
  LET p     == Lowest(Free)
      n     == Lowest(Free \ {p})
      added == NewEntry(i, i, l, o, expiration)
      extra == NewEntry(Nameless(i), i, l, o, expiration)
  IN IF i.cid = None
       THEN /\ entryTable' = [entryTable EXCEPT ![i] = p]
            /\ ListFor(l, i, p)
            /\ timeouts' = [timeouts EXCEPT ![expiration] = @ \cup {p}]
            /\ Release([entry EXCEPT ![p] = added])
       ELSE /\ entryTable' = [entryTable EXCEPT ![i] = p, ![Nameless(i)] = n]
            /\ ListFor(l, i, n)
            /\ timeouts' = [timeouts EXCEPT ![expiration] = @ \cup {p, n}]
            /\ Release([entry EXCEPT ![p] = added, ![n] = extra])

MutantRoomForOneMore == Cardinality(Live) <= Capacity

HasRoom == Cardinality(Live) < Capacity

(* Bound: an interest arrives only while there are entries to make.        *)
PoolLeft(i) == Cardinality(Free) >= IF i.cid = None THEN 1 ELSE 2

AddNew(i, l, o, life) ==
  /\ adding = None
  /\ i \notin Live
  /\ HasRoom /\ PoolLeft(i)
  /\ Insert(i, l, o, now + life)
  /\ reply' = Result("Forward")
  /\ UNCHANGED <<now, adding>>

(* Call _athenaPIT_PurgeExpired. *)
AddFull(i, l, o, life) ==
  /\ adding = None
  /\ i \notin Live
  /\ ~HasRoom /\ PoolLeft(i)
  /\ adding' = [interest |-> i, link |-> l, original |-> o, expiration |-> now + life]
  /\ UNCHANGED <<entry, entryTable, cleanup, timeouts, now, reply>>

(* The end of _athenaPIT_RemoveInterestFromMap: of the keys in K the table *)
(* loses those whose entry has, in e, no link left.                        *)
WithoutEmpty(e, K) ==
  [k \in TableKey |->
    IF k \in K \cap Live /\ e[entryTable[k]].ingress = {} THEN None ELSE entryTable[k]]

(* The records whose bucket is due, earliest bucket first. *)
Due == {t \in Time : t <= now /\ timeouts[t] # {}}

MutantExpiresEarly(x) == now >= entry[x].expiration

Expired(x) == now > entry[x].expiration

(* The purge of the record of x in bucket t.  Only an entry whose own      *)
(* expiration is past goes, and it goes by the key of its interest:        *)
(* whatever entry is in the table under that key loses the links of x, x   *)
(* itself all of its links (and then there is none left to clean up).      *)
PurgeRecord ==
  /\ adding # None
  /\ Due # {}
  /\ \E x \in timeouts[Lowest(Due)] :
       LET k     == entry[x].interest
           y     == entryTable[k]
           first == IF y = None THEN entry ELSE Cleared(entry, {y}, entry[x].ingress)
           left  == first[x].ingress
       IN /\ timeouts' = [timeouts EXCEPT ![Lowest(Due)] = @ \ {x}]
          /\ IF Expired(x)
               THEN /\ entryTable' = WithoutEmpty(first, {k})
                    /\ cleanup' = Uncleaned(k, left)
                    /\ Release(LosesLinks(first, k, left))
               ELSE /\ UNCHANGED <<entryTable, cleanup>>
                    /\ Release(entry)
  /\ UNCHANGED <<now, adding, reply>>

(* Nothing due is left: the interest goes in if that made room. *)
AddAfterPurge ==
  /\ adding # None
  /\ Due = {}
  /\ HasRoom
  /\ Insert(adding.interest, adding.link, adding.original, adding.expiration)
  /\ reply' = Result("Forward")
  /\ adding' = None
  /\ UNCHANGED now

AddRefused ==
  /\ adding # None
  /\ Due = {}
  /\ ~HasRoom
  /\ reply' = Result("Error")
  /\ adding' = None
  /\ UNCHANGED <<entry, entryTable, cleanup, timeouts, now>>

(* The entry x after a request that is to last until t, if that is longer: *)
(* its record moves to the later bucket.                                   *)
MutantRecordLost(x, t) ==
  IF t > entry[x].expiration
    THEN \E r \in FirstRecord(x) :
           timeouts' = [timeouts EXCEPT ![entry[x].expiration] = @ \ {r}]
    ELSE UNCHANGED timeouts

Extend(x, t) ==
  IF t > entry[x].expiration
    THEN LET old == entry[x].expiration
         IN IF FirstRecord(x) = {}
              THEN timeouts' = [timeouts EXCEPT ![t] = @ \cup {x}]
              ELSE \E r \in FirstRecord(x) :
                     timeouts' = [timeouts EXCEPT ![old] = @ \ {r}, ![t] = @ \cup {x}]
    ELSE UNCHANGED timeouts

MutantLifetimesAdd(x, t) == entry[x].expiration + t

Longer(x, t) == IF t > entry[x].expiration THEN t ELSE entry[x].expiration

Prolonged(y, t) == [y EXCEPT !.expiration = t]

Joined(y, l) == [y EXCEPT !.ingress = @ \cup {l}]

(* A link that asks again is forwarded again. *)
AddDuplicate(i, l, life) ==
  LET x == entryTable[i]
  IN /\ adding = None
     /\ i \in Live
     /\ l \in entry[x].ingress
     /\ Extend(x, now + life)
     /\ UNCHANGED <<entryTable, cleanup, now, adding>>
     /\ Release([entry EXCEPT ![x] = Prolonged(entry[x], Longer(x, now + life))])
     /\ reply' = Result("Forward")

(* A link that joins: the entry keeps the original name and key it has.    *)
AddAggregated(i, l, life) ==
  LET x == entryTable[i]
  IN /\ adding = None
     /\ i \in Live
     /\ l \notin entry[x].ingress
     /\ Extend(x, now + life)
     /\ ListFor(l, i, x)
     /\ UNCHANGED <<entryTable, now, adding>>
     /\ Release([entry EXCEPT ![x] =
          Joined(Prolonged(entry[x], Longer(x, now + life)), l)])
     /\ reply' = Result("Aggregated")

AddInterest(i, l, o, life) ==
  \/ AddNew(i, l, o, life)
  \/ AddFull(i, l, o, life)
  \/ AddDuplicate(i, l, life)
  \/ AddAggregated(i, l, life)

(***************************************************************************)
(* The other operations                                                    *)
(***************************************************************************)

(* athenaPIT_RemoveInterest.  The timeout record stays.                    *)
RemoveInterest(i, l) ==
  LET x     == entryTable[i]
      first == Cleared(entry, {x}, {l})
  IN /\ adding = None
     /\ i \in Live
     /\ entryTable' = WithoutEmpty(first, {i})
     /\ cleanup' = Uncleaned(i, {l})
     /\ UNCHANGED <<timeouts, now, adding>>
     /\ Release(LosesLinks(first, i, {l}))
     /\ reply' = Result("None")

(* The compound keys athenaPIT_Match looks up: with and without the        *)
(* content id, with and without the key id.                                *)
MatchKeys(c) ==
  {[name |-> c.name, cid |-> cid, kid |-> kid] :
     cid \in {c.cid, None}, kid \in {c.kid, None}}

Matched(c) == MatchKeys(c) \cap Live

(* The order of the look-ups, the most restricted first.                   *)
Order(k) == (IF k.cid = None THEN 2 ELSE 0) + (IF k.kid = None THEN 1 ELSE 0)

(* athena_pit_value: the links of all the entries found, the name of the   *)
(* last one and the key of the last one that has a key.                    *)
PITValue(found) ==
  LET o(k)    == entry[entryTable[k]].original
      last(S) == CHOOSE k \in S : \A j \in S : Order(j) <= Order(k)
      keyed   == {k \in found : o(k).key # None}
  IN [result |-> "Match",
      links  |-> UNION {entry[entryTable[k]].ingress : k \in found},
      name   |-> IF found = {} THEN None ELSE o(last(found)).name,
      key    |-> IF keyed = {} THEN None ELSE o(last(keyed)).key]

(* athenaPIT_Match, a _athenaPIT_LookupKey per key: an entry that is found *)
(* leaves the table, the maps of its links and its bucket.                 *)
Match(c) ==
  LET found == Matched(c)
      X     == {entryTable[k] : k \in found}
      lost(l) == {k \in found \cap Interest : l \in entry[entryTable[k]].ingress}
  IN /\ adding = None
     /\ entryTable' = [k \in TableKey |-> IF k \in found THEN None ELSE entryTable[k]]
     /\ cleanup' = [l \in Link |-> [i \in Interest |->
                      IF i \in lost(l) THEN None ELSE cleanup[l][i]]]
     /\ \E r \in [X -> SUBSET Entry] :
          /\ \A x \in X : \/ FirstRecord(x) = {} /\ r[x] = {}
                          \/ \E y \in FirstRecord(x) : r[x] = {y}
          /\ timeouts' = [t \in Time |-> timeouts[t] \
                            UNION {r[x] : x \in {y \in X : entry[y].expiration = t}}]
     /\ Release([x \in Entry |->
          LET gone == {l \in Link : \E k \in lost(l) : cleanup[l][k] = x}
          IN IF gone = {} THEN entry[x] ELSE WithoutLinks(entry[x], gone)])
     /\ reply' = PITValue(found)
     /\ UNCHANGED <<now, adding>>

(* athenaPIT_RemoveLink: what the map of the link names loses the link, by *)
(* the key of its interest, and the map is dropped.                        *)
RemoveLink(l) ==
  LET named == {i \in Interest : cleanup[l][i] # None} \cap Live
      first == Cleared(entry, {entryTable[i] : i \in named}, {l})
  IN /\ adding = None
     /\ entryTable' = WithoutEmpty(first, named)
     /\ cleanup' = [cleanup EXCEPT ![l] = [i \in Interest |-> None]]
     /\ UNCHANGED <<timeouts, now, adding>>
     /\ Release(first)
     /\ reply' = Result("None")

Tick ==
  /\ adding = None
  /\ now < MaxTime
  /\ now' = now + 1
  /\ UNCHANGED <<entry, entryTable, cleanup, timeouts, adding, reply>>

Init ==
  /\ entry = [x \in Entry |-> None]
  /\ entryTable = [k \in TableKey |-> None]
  /\ cleanup = [l \in Link |-> [i \in Interest |-> None]]
  /\ timeouts = [t \in Time |-> {}]
  /\ now = 0
  /\ adding = None
  /\ reply = Result("None")

Next ==
  \/ \E i \in Interest, l \in Link, o \in Original, life \in Lifetime :
       AddInterest(i, l, o, life)
  \/ PurgeRecord
  \/ AddAfterPurge
  \/ AddRefused
  \/ \E i \in Interest, l \in Link : RemoveInterest(i, l)
  \/ \E c \in Content : Match(c)
  \/ \E l \in Link : RemoveLink(l)
  \/ Tick

Spec == Init /\ [][Next]_vars

(***************************************************************************)
(* Properties                                                              *)
(***************************************************************************)

(* Types; whatever is held exists and is filed under its own key, and the  *)
(* rest of the pool is free.                                               *)
TypeOK ==
  /\ entry \in [Entry -> PITEntry \cup {None}]
  /\ entryTable \in [TableKey -> Entry \cup {None}]
  /\ cleanup \in [Link -> [Interest -> Entry \cup {None}]]
  /\ timeouts \in [Time -> SUBSET Entry]
  /\ now \in 0 .. MaxTime
  /\ adding = None \/ adding \in [interest : Interest, link : Link,
                                 original : Original, expiration : Time]
  /\ \A x \in Held(entryTable, cleanup, timeouts) : entry[x] # None
  /\ \A k \in Live : entry[entryTable[k]].key = k

At(k) == entry[entryTable[k]]

(* Each link that waits for an interest has the entry in its clean-up map: *)
(* athenaPIT_RemoveLink walks the map, not the table.                      *)
IngressListed ==
  \A k \in Live : \A l \in At(k).ingress :
    cleanup[l][At(k).interest] = entryTable[k]

(* An entry that is due later than now has its timeout record in the       *)
(* bucket of its expiration, however often it was extended and whatever    *)
(* other entries had its key before.                                       *)
LaterIsScheduled ==
  \A k \in Live : At(k).expiration > now => entryTable[k] \in timeouts[At(k).expiration]

(* No entry takes room in the table without a link that waits for it.      *)
NoIdleEntry == \A k \in Live : At(k).ingress # {}

(* Every entry has a link that waits for it, and until the moment it is    *)
(* due a record by which a purge finds it.  That is all: from that moment  *)
(* on it may have lost the record (KeptOnlyIfProlonged), and then only     *)
(* content, a link that goes or a request that prolongs it help.           *)
WaitedForAndScheduled == LaterIsScheduled /\ NoIdleEntry

(* athena_PIT.c:562 says why a purge looks at the expiration of an entry   *)
(* in a bucket that is due: it "may have been increased since being added  *)
(* to the list".  So an entry that stays in the table after its record was *)
(* taken is one that was prolonged beyond the time of the bucket.  It may  *)
(* also be one that is due at this very moment.                            *)
KeptOnlyIfProlonged ==
  [][PurgeRecord =>
       \A t \in Time : \A x \in timeouts[t] \ timeouts'[t] :
         (\E k \in Live' : entryTable'[k] = x) => entry[x].expiration > t]_vars

(* The entry limit counts the nameless entry of the last interest once too *)
(* few: it may be exceeded by one, never by more.                          *)
AtMostOneOver == Cardinality(Live) <= Capacity + 1

(* After athenaPIT_RemoveLink no entry sends to the link any more.         *)
RemovedLinkIsGone ==
  [][\A l \in Link : RemoveLink(l) => \A k \in Live' : l \notin At(k)'.ingress]_vars

(***************************************************************************)
(* The PIT keeps the pending interests it promises.                        *)
(***************************************************************************)
Pending == [i \in Interest |-> IF i \in Live THEN At(i).ingress ELSE {}]
Until   == [i \in Interest |-> IF i \in Live THEN At(i).expiration ELSE 0]

Matches(c) == MatchKeys(c) \cap Interest

Requests == INSTANCE PendingInterests WITH
  pending <- Pending,
  until   <- Until,
  reply   <- <<reply.result, reply.links>>

(* Content answers exactly the links that wait for it; a request is lost   *)
(* only when it and all others for the same content have expired, or when  *)
(* its link goes away or withdraws it.                                     *)
ImplementsPendingInterests == Requests!Spec
==============================================================================
