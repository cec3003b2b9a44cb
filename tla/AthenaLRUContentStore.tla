----------------------- MODULE AthenaLRUContentStore -----------------------
(***************************************************************************)
(* The content store of an Athena forwarder (athena_LRUContentStore.c).    *)
(*                                                                         *)
(* An entry is in the doubly linked LRU list, in tableByName when its name *)
(* was not put again since, and in listByExpiryTime when it has an expiry  *)
(* time (so that list is the entries with one, and is not a variable).     *)
(* The indexes by key id and by content hash are always empty: no entry is *)
(* given either (the TODOs of _athenaLRUContentStoreEntry_Create), and so  *)
(* neither are those of the recommended cache times.  A look-up for an     *)
(* interest that is restricted finds nothing in them and goes on by name   *)
(* alone.  An entry is in one index at most, so the entry that a new one   *)
(* replaces there is in none: indexCount is not a variable either.         *)
(* Content has a name.                                                     *)
(*                                                                         *)
(* Every operation is one step except a put that has to make room: it      *)
(* evicts one entry per step (putting).  The clock is read once per        *)
(* operation.  Hit and miss statistics are left out.                       *)
(*                                                                         *)
(* A definition named Mutant... is the definition after it with a bug the  *)
(* code could have had; the properties are checked to notice it.           *)
(***************************************************************************)
EXTENDS Integers, Sequences, FiniteSetsExt

CONSTANTS
  Content,     (* content objects, [name, size, expiry]; expiry may be None *)
  Name,        (* their names                                              *)
  Interest,    (* interests and what RemoveMatch is given, [name, hash];   *)
               (* the hash of content is the content, or None              *)
  Capacity,    (* the sizes the store can be given                         *)
  MaxTime,     (* bound: the clock stops here                              *)
  None         (* NULL                                                     *)

ASSUME ContentAssumption ==
  /\ \A c \in Content : /\ c.name \in Name
                        /\ c.size \in Nat \ {0}
                        /\ c.expiry # None => c.expiry \in Nat
  /\ Capacity \subseteq Nat
  /\ \E size \in Capacity : \A other \in Capacity : other <= size
  /\ MaxTime \in Nat
  /\ None \notin Content /\ None \notin Nat

ASSUME InterestAssumption ==
  \A i \in Interest : i.name \in Name /\ i.hash \in Content \cup {None}

(* Every entry has a size, so no more entries fit than the largest store   *)
(* has bytes: Entry bounds nothing.                                        *)
Entry == 1 .. Max(Capacity)

VARIABLES
  entry,         (* [Entry -> Content \cup {None}], None when it is free   *)
  lru,           (* lruHead, lruTail, and next and prev of the entries     *)
  tableByName,   (* [Name -> Entry \cup {None}]                            *)
  currentSize,   (* currentSizeInBytes                                     *)
  numEntries,
  maxSize,       (* maxSizeInBytes                                         *)
  now,           (* the clock                                              *)
  putting,       (* the content a put is making room for, or None          *)
  reply          (* what the last call was and returned                    *)

vars == <<entry, lru, tableByName, currentSize, numEntries, maxSize, now, putting, reply>>

Pointer == Entry \cup {None}

Used == {e \in Entry : entry[e] # None}

Reply(call, result) == [call |-> call, result |-> result]

(***************************************************************************)
(* The LRU list                                                            *)
(***************************************************************************)

EmptyList == [head |-> None, tail |-> None,
              next |-> [e \in Entry |-> None], prev |-> [e \in Entry |-> None]]

(* _athenaLRUContentStore_RemoveContentStoreEntryFromLRU; e is freed.      *)
Unlink(L, e) ==
  [head |-> IF L.head = e THEN L.next[e] ELSE L.head,
   tail |-> IF L.tail = e THEN L.prev[e] ELSE L.tail,
   next |-> [x \in Entry |->
     IF x = e THEN None ELSE IF x = L.prev[e] THEN L.next[e] ELSE L.next[x]],
   prev |-> [x \in Entry |->
     IF x = e THEN None ELSE IF x = L.next[e] THEN L.prev[e] ELSE L.prev[x]]]

(* _addContentStoreEntryToLRUHead *)
AddHead(L, e) ==
  [head |-> e,
   tail |-> IF L.tail = None THEN e ELSE L.tail,
   next |-> [L.next EXCEPT ![e] = L.head],
   prev |-> [x \in Entry |-> IF x = e THEN None ELSE IF x = L.head THEN e ELSE L.prev[x]]]

(* _moveContentStoreEntryToLRUHead *)
MutantMoveKeepsNeighbour(L, e) ==
  IF L.head = e THEN L ELSE
  [head |-> e,
   tail |-> IF L.tail = e THEN L.prev[e] ELSE L.tail,
   next |-> [x \in Entry |->
     IF x = e THEN L.head
     ELSE IF x = L.prev[e] THEN IF L.tail = e THEN None ELSE L.next[e]
     ELSE L.next[x]],
   prev |-> [x \in Entry |->
     IF x = e THEN None ELSE IF x = L.head THEN e ELSE L.prev[x]]]

MoveToHead(L, e) ==
  IF L.head = e THEN L ELSE
  [head |-> e,
   tail |-> IF L.tail = e THEN L.prev[e] ELSE L.tail,
   next |-> [x \in Entry |->
     IF x = e THEN L.head
     ELSE IF x = L.prev[e] THEN IF L.tail = e THEN None ELSE L.next[e]
     ELSE L.next[x]],
   prev |-> [x \in Entry |->
     IF x = e THEN None
     ELSE IF x = L.head THEN e
     ELSE IF x = L.next[e] THEN L.prev[e]
     ELSE L.prev[x]]]

(***************************************************************************)
(* Purging an entry                                                        *)
(***************************************************************************)

(* The index loses what is under the name of e, be it e or not.            *)
Unindexed(t, e) == [t EXCEPT ![entry[e].name] = None]

(* _athenaLRUContentStore_PurgeContentStoreEntry *)
Purge(e) ==
  /\ tableByName' = Unindexed(tableByName, e)
  /\ currentSize' = currentSize - entry[e].size
  /\ lru' = Unlink(lru, e)
  /\ numEntries' = numEntries - 1
  /\ entry' = [entry EXCEPT ![e] = None]

(* The entry is past its expiry time. *)
IsExpired(e) == entry[e].expiry # None /\ entry[e].expiry < now

(***************************************************************************)
(* _athenaLRUContentStore_PutContentObject                                 *)
(***************************************************************************)

(* No capacity, or expired already. *)
Uncacheable(c) ==
  \/ maxSize <= 0
  \/ c.expiry # None /\ c.expiry <= now

Fits(c) == c.size + currentSize <= maxSize

(* More than the whole store. *)
Impossible(c) == c.size > maxSize

PutRefused(c) ==
  /\ putting = None
  /\ Uncacheable(c) \/ (~Fits(c) /\ Impossible(c))
  /\ reply' = Reply(<<"Put", c>>, FALSE)
  /\ UNCHANGED <<entry, lru, tableByName, currentSize, numEntries, maxSize, now, putting>>

(* The new entry is listed and indexed first; then the entry it took the   *)
(* place of in the index is purged, and its name with it.                  *)
Insert(c) ==
  LET new   == Min(Entry \ Used)
      old   == tableByName[c.name]
      added == AddHead(lru, new)
  IN IF old = None
       THEN /\ lru' = added
            /\ tableByName' = [tableByName EXCEPT ![c.name] = new]
            /\ entry' = [entry EXCEPT ![new] = c]
            /\ currentSize' = currentSize + c.size
            /\ numEntries' = numEntries + 1
       ELSE /\ lru' = Unlink(added, old)
            /\ tableByName' = Unindexed([tableByName EXCEPT ![c.name] = new], old)
            /\ entry' = [entry EXCEPT ![new] = c, ![old] = None]
            /\ currentSize' = currentSize - entry[old].size + c.size
            /\ UNCHANGED numEntries

Put(c) ==
  /\ putting = None
  /\ ~Uncacheable(c)
  /\ Fits(c)
  /\ Insert(c)
  /\ reply' = Reply(<<"Put", c>>, TRUE)
  /\ UNCHANGED <<maxSize, now, putting>>

(* Call _makeRoomInStore. *)
PutMakesRoom(c) ==
  /\ putting = None
  /\ ~Uncacheable(c)
  /\ ~Fits(c)
  /\ ~Impossible(c)
  /\ putting' = c
  /\ UNCHANGED <<entry, lru, tableByName, currentSize, numEntries, maxSize, now, reply>>

NeedsRoom == putting.size > maxSize - currentSize

(* The entries _getEarliestExpiryTime may return. *)
Earliest ==
  {e \in Used : /\ entry[e].expiry # None
                /\ \A x \in Used : entry[x].expiry # None => entry[e].expiry <= entry[x].expiry}

EvictExpired ==
  /\ putting # None
  /\ NeedsRoom
  /\ \E e \in Earliest : IsExpired(e) /\ Purge(e)
  /\ UNCHANGED <<maxSize, now, putting, reply>>

MutantMostUsed == lru.head

(* _getLeastUsedFromLRU *)
LeastUsed == lru.tail

MutantSecondChance ==
  /\ putting # None
  /\ NeedsRoom
  /\ LeastUsed # None
  /\ lru' = MoveToHead(lru, LeastUsed)
  /\ UNCHANGED <<entry, tableByName, currentSize, numEntries, maxSize, now, putting, reply>>

EvictLeastUsed ==
  /\ putting # None
  /\ NeedsRoom
  /\ ~ \E e \in Earliest : IsExpired(e)
  /\ LeastUsed # None
  /\ Purge(LeastUsed)
  /\ UNCHANGED <<maxSize, now, putting, reply>>

(* Room is made when there is more than what is needed, not just enough.   *)
PutAfterRoom ==
  /\ putting # None
  /\ ~NeedsRoom
  /\ maxSize - currentSize > putting.size
  /\ Insert(putting)
  /\ reply' = Reply(<<"Put", putting>>, TRUE)
  /\ putting' = None
  /\ UNCHANGED <<maxSize, now>>

PutFails ==
  /\ putting # None
  /\ ~NeedsRoom \/ LeastUsed = None
  /\ ~(maxSize - currentSize > putting.size)
  /\ reply' = Reply(<<"Put", putting>>, FALSE)
  /\ putting' = None
  /\ UNCHANGED <<entry, lru, tableByName, currentSize, numEntries, maxSize, now>>

(***************************************************************************)
(* The other operations                                                    *)
(***************************************************************************)

(* The entry found for an interest.  The index by hash has nothing, so the *)
(* look-up goes on as if the interest had no restriction.                  *)
Found(i) == tableByName[i.name]

(* _athenaLRUContentStore_GetMatch *)
GetMatch(i) ==
  LET e == Found(i)
  IN /\ putting = None
     /\ \/ /\ e = None
           /\ reply' = Reply(<<"Get", i>>, None)
           /\ UNCHANGED <<entry, lru, tableByName, currentSize, numEntries>>
        \/ /\ e # None
           /\ IsExpired(e)
           /\ Purge(e)
           /\ reply' = Reply(<<"Get", i>>, None)
        \/ /\ e # None
           /\ ~IsExpired(e)
           /\ lru' = MoveToHead(lru, e)
           /\ reply' = Reply(<<"Get", i>>, entry[e])
           /\ UNCHANGED <<entry, tableByName, currentSize, numEntries>>
     /\ UNCHANGED <<maxSize, now, putting>>

(* _athenaLRUContentStore_RemoveMatch of the name and hash of i *)
RemoveMatch(i) ==
  /\ putting = None
  /\ IF Found(i) = None
       THEN /\ reply' = Reply(<<"Remove", i>>, FALSE)
            /\ UNCHANGED <<entry, lru, tableByName, currentSize, numEntries>>
       ELSE /\ Purge(Found(i))
            /\ reply' = Reply(<<"Remove", i>>, TRUE)
  /\ UNCHANGED <<maxSize, now, putting>>

(* _athenaLRUContentStore_SetCapacity *)
MutantKeepsCount(size) ==
  /\ putting = None
  /\ maxSize' = size
  /\ entry' = [e \in Entry |-> None]
  /\ lru' = EmptyList
  /\ tableByName' = [n \in Name |-> None]
  /\ currentSize' = 0
  /\ reply' = Reply(<<"SetCapacity", size>>, TRUE)
  /\ UNCHANGED <<numEntries, now, putting>>

SetCapacity(size) ==
  /\ putting = None
  /\ maxSize' = size
  /\ entry' = [e \in Entry |-> None]
  /\ lru' = EmptyList
  /\ tableByName' = [n \in Name |-> None]
  /\ currentSize' = 0
  /\ numEntries' = 0
  /\ reply' = Reply(<<"SetCapacity", size>>, TRUE)
  /\ UNCHANGED <<now, putting>>

Tick ==
  /\ putting = None
  /\ now < MaxTime
  /\ now' = now + 1
  /\ UNCHANGED <<entry, lru, tableByName, currentSize, numEntries, maxSize, putting, reply>>

Init ==
  /\ entry = [e \in Entry |-> None]
  /\ lru = EmptyList
  /\ tableByName = [n \in Name |-> None]
  /\ currentSize = 0
  /\ numEntries = 0
  /\ maxSize \in Capacity
  /\ now = 0
  /\ putting = None
  /\ reply = Reply(<<"Create">>, TRUE)

MakeRoomStep == EvictExpired \/ EvictLeastUsed \/ PutAfterRoom \/ PutFails

Next ==
  \/ \E c \in Content : PutRefused(c) \/ Put(c) \/ PutMakesRoom(c)
  \/ EvictExpired
  \/ EvictLeastUsed
  \/ PutAfterRoom
  \/ PutFails
  \/ \E i \in Interest : GetMatch(i) \/ RemoveMatch(i)
  \/ \E size \in Capacity : SetCapacity(size)
  \/ Tick

Spec == Init /\ [][Next]_vars

(* The loops of _makeRoomInStore run: nothing else does until they end.    *)
FairSpec == Spec /\ WF_vars(MakeRoomStep)

(***************************************************************************)
(* Properties                                                              *)
(***************************************************************************)

(* Types. *)
TypeOK ==
  /\ entry \in [Entry -> Content \cup {None}]
  /\ lru \in [head : Pointer, tail : Pointer,
              next : [Entry -> Pointer], prev : [Entry -> Pointer]]
  /\ tableByName \in [Name -> Pointer]
  /\ currentSize \in Nat
  /\ numEntries \in 0 .. Max(Capacity)
  /\ maxSize \in Capacity
  /\ now \in 0 .. MaxTime
  /\ putting \in Content \cup {None}

(* The numEntries entries from the head of the list, most recent first.    *)
Order ==
  LET at[n \in 1 .. numEntries] ==
        IF n = 1 THEN lru.head
        ELSE IF at[n - 1] = None THEN None ELSE lru.next[at[n - 1]]
  IN at

(* Whatever entries were linked, moved and unlinked, the list has each     *)
(* entry once, and backwards it is what it is forwards.                    *)
WellLinked ==
  LET there(i) == IF i \in DOMAIN Order THEN Order[i] ELSE None
  IN /\ {Order[i] : i \in DOMAIN Order} = Used
     /\ numEntries = Cardinality(Used)
     /\ lru.head = there(1) /\ lru.tail = there(numEntries)
     /\ \A i \in DOMAIN Order : /\ lru.next[Order[i]] = there(i + 1)
                                /\ lru.prev[Order[i]] = there(i - 1)

(* The bytes of what is stored in the entries. *)
Size(c) == IF c = None THEN 0 ELSE c.size

Bytes(stored) ==
  LET upTo[n \in 0 .. Max(Capacity)] == IF n = 0 THEN 0 ELSE upTo[n - 1] + Size(stored[n])
  IN upTo[Max(Capacity)]

(* The byte count is that of the entries that exist, so the store can      *)
(* always be emptied by evicting; it never exceeds the limit.              *)
SizeIsCounted ==
  /\ currentSize = Bytes(entry)
  /\ currentSize <= maxSize

(* What the index finds exists, and has the name it is found by.           *)
IndexIsListed ==
  \A n \in Name : tableByName[n] # None =>
    /\ tableByName[n] \in Used
    /\ entry[tableByName[n]].name = n

(* List, index and byte count tell of the same entries.                    *)
ListIndexAndSizeAgree == WellLinked /\ IndexIsListed /\ SizeIsCounted

(* A put that makes room comes to an end. *)
PutReturns == (putting # None) ~> (putting = None)

(* athena_ContentStore.h:124 of athenaContentStore_GetMatch: "if a name    *)
(* and a contentObjectHash is specified then only the ContentObjects       *)
(* matching both will be returned".  The store returns whatever has the    *)
(* name.                                                                   *)
AnswersAsRestricted ==
  \A i \in Interest : reply.call = <<"Get", i>> /\ reply.result # None =>
    reply.result.name = i.name /\ i.hash \in {None, reply.result}

(* test_athena_LRUContentStore.c:272, of a second put of a name: "This     *)
(* should replace the existing entry."  What was put is then found under   *)
(* its name; but the purge of the old entry takes the new one's place in   *)
(* the index with it.                                                      *)
PutIsFound ==
  [][\A c \in Content : Put(c) =>
       tableByName'[c.name] # None /\ entry'[tableByName'[c.name]] = c]_vars

(***************************************************************************)
(* The store is a cache that may forget.                                   *)
(***************************************************************************)
Findable == {e \in Used : tableByName[entry[e].name] = e}

Cache == INSTANCE ContentCache WITH
  Object   <- Entry,
  order    <- Order,
  object   <- entry,
  findable <- Findable

(* An answer is content of the name asked for, put after any other that    *)
(* can be found, neither expired nor removed; a put under a name that      *)
(* finds nothing can be found; and room is made by dropping what has       *)
(* expired and then what was put or asked for longest ago.                 *)
ImplementsContentCache == Cache!Spec
=============================================================================
