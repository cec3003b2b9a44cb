------------------------------ MODULE AthenaFIB ------------------------------
(***************************************************************************)
(* The forwarding information base of an Athena forwarder (athena_FIB.c).  *)
(*                                                                         *)
(* tableByName maps a name to an AthenaFIBValue: the links the name is     *)
(* routed to and, for a VPN route, the output prefix and the key with      *)
(* which an interest is encapsulated.  listOfLinks is the reverse index    *)
(* that athena_RemoveLink walks when a link goes down.  The code keeps a   *)
(* name once in the list of a link and the model takes the list as a set,  *)
(* so the order in which athenaFIB_RemoveLink takes names is left open.    *)
(*                                                                         *)
(* The loop of athenaFIB_RemoveLink is one step per iteration (rl is the   *)
(* link it is working on) because whether the loop ends is in question.    *)
(* The engine is single threaded: no other operation runs inside the loop. *)
(*                                                                         *)
(* A definition named Mutant... is the definition after it with a bug the  *)
(* code could have had; the properties are checked to notice it.           *)
(***************************************************************************)
EXTENDS Naturals, Sequences, FiniteSets

CONSTANTS
  Segment,       (* name segments                                          *)
  Name,          (* non-empty sequences of segments, closed under          *)
                 (* ccnxName_Trim; the empty name is the default route     *)
  Link,          (* link identifiers                                       *)
  Translation,   (* [prefix, key] pairs given to AddTranslationRoute       *)
  NoPrefix,      (* a NULL targetPrefix                                    *)
  NoKey,         (* a NULL key                                             *)
  NoEntry,       (* parcHashMap_Get found nothing                          *)
  NoLink,        (* no ingress vector given; no link being removed         *)
  StrayDeletes   (* may a delete name a prefix that has no entry?          *)

Prefix == {t.prefix : t \in Translation} \cup {NoPrefix}
Key    == {t.key : t \in Translation} \cup {NoKey}

(* AthenaFIBValue, struct key_vector. *)
FIBValue == [links : SUBSET Link, prefix : Prefix, key : Key]

(* An entry with the vector v. *)
MutantSwappedArguments(e, v) == [links |-> v, prefix |-> e.key, key |-> e.prefix]

WithLinks(e, v) == [links |-> v, prefix |-> e.prefix, key |-> e.key]

(* ccnxName_Trim(n, Len(n) - k): the first k segments of n. *)
Trim(n, k) == SubSeq(n, 1, k)

ASSUME NamesAssumption ==
  /\ Name \subseteq Seq(Segment) \ {<<>>}
  /\ \A n \in Name : \A k \in 1 .. Len(n) : Trim(n, k) \in Name

ASSUME TranslationAssumption ==
  /\ \A t \in Translation : t = [prefix |-> t.prefix, key |-> t.key]
  /\ [prefix |-> NoPrefix, key |-> NoKey] \in Translation

ASSUME SentinelAssumption ==
  /\ NoLink \notin Link
  /\ NoEntry \notin FIBValue /\ \A v \in SUBSET Link : v # NoEntry
  /\ StrayDeletes \in BOOLEAN

VARIABLES
  tableByName,   (* [Name -> FIBValue \cup {NoEntry}]                      *)
  listOfLinks,   (* [Link -> SUBSET Name]                                  *)
  defaultRoute,  (* SUBSET Link, or NoEntry for the NULL vector            *)
  rl             (* the link athenaFIB_RemoveLink is removing, or NoLink   *)

vars == <<tableByName, listOfLinks, defaultRoute, rl>>

(***************************************************************************)
(* Lookup                                                                  *)
(***************************************************************************)

(* The entry stops the trimming loop: there is one, and the ingress is not *)
(* its only link.                                                          *)
MutantStopsAtIngress(n, ingress) == tableByName[n] # NoEntry

Stops(n, ingress) ==
  /\ tableByName[n] # NoEntry
  /\ tableByName[n].links # {ingress}

(* How many segments of n the loop of athenaFIB_Lookup stops at, 0 if it   *)
(* trims the whole name away.                                              *)
Hits(n, ingress) == {k \in 1 .. Len(n) : Stops(Trim(n, k), ingress)}

MatchLength(n, ingress) ==
  IF Hits(n, ingress) = {} THEN 0
  ELSE CHOOSE k \in Hits(n, ingress) :
         \A j \in Hits(n, ingress) : j <= k

(* The value found under m, or, when the ingress is among its links, a     *)
(* value with the remaining links, the key, and no output prefix.          *)
Reduced(m, ingress) ==
  IF ingress \in tableByName[m].links
    THEN [links  |-> tableByName[m].links \ {ingress},
          prefix |-> NoPrefix,
          key    |-> tableByName[m].key]
    ELSE tableByName[m]

(* The links of the default route, none when the vector is NULL. *)
DefaultLinks == IF defaultRoute = NoEntry THEN {} ELSE defaultRoute

(* A default route is never translated.  With no ingress given the value   *)
(* shares the vector of the FIB itself.                                    *)
DefaultValue(ingress) ==
  IF defaultRoute \in {NoEntry, {ingress}} THEN NoEntry
  ELSE [links |-> defaultRoute \ {ingress}, prefix |-> NoPrefix, key |-> NoKey]

(* athenaFIB_Lookup(fib, n, ingress); ingress is a link or NoLink (NULL).  *)
Lookup(n, ingress) ==
  LET k == MatchLength(n, ingress)
  IN IF k > 0 THEN Reduced(Trim(n, k), ingress) ELSE DefaultValue(ingress)

(***************************************************************************)
(* Operations                                                              *)
(***************************************************************************)

Init ==
  /\ tableByName = [n \in Name |-> NoEntry]
  /\ listOfLinks = [l \in Link |-> {}]
  /\ defaultRoute = NoEntry
  /\ rl = NoLink

(* The entry e after a call that adds the links v.  An entry that exists   *)
(* keeps the translation it has and only gains links.                      *)
MutantTranslationReplaced(e, t, v) ==
  WithLinks(t, IF e = NoEntry THEN v ELSE e.links \cup v)

Added(e, t, v) ==
  IF e = NoEntry THEN WithLinks(t, v) ELSE WithLinks(e, e.links \cup v)

(* Put n on the lists of the links in v. *)
MutantListOnlyNew(n, v) ==
  listOfLinks' = [l \in Link |->
    IF l \in v /\ tableByName[n] = NoEntry THEN listOfLinks[l] \cup {n}
                                          ELSE listOfLinks[l]]

List(n, v) ==
  listOfLinks' = [l \in Link |->
    IF l \in v THEN listOfLinks[l] \cup {n} ELSE listOfLinks[l]]

(* athenaFIB_AddTranslationRoute; athenaFIB_AddRoute is the case of the    *)
(* translation [NoPrefix, NoKey].                                          *)
AddTranslationRoute(n, t, v) ==
  /\ rl = NoLink
  /\ tableByName' = [tableByName EXCEPT ![n] = Added(tableByName[n], t, v)]
  /\ List(n, v)
  /\ UNCHANGED <<defaultRoute, rl>>

(* The same call with the empty name. *)
AddDefaultRoute(v) ==
  /\ rl = NoLink
  /\ defaultRoute' = DefaultLinks \cup v
  /\ UNCHANGED <<tableByName, listOfLinks, rl>>

(* Traverse the lists of the links in v and take n out of them. *)
MutantKeepListed(n, v) == UNCHANGED listOfLinks

Unlist(n, v) ==
  listOfLinks' = [l \in Link |->
    IF l \in v THEN listOfLinks[l] \ {n} ELSE listOfLinks[l]]

(* athenaFIB_DeleteRoute works on the longest match of n, found without an *)
(* ingress: the entry of n itself or, when it has none, the entry of a     *)
(* shorter name m.  Only the vector of m loses links, while the hash map   *)
(* and the lists are purged of n.                                          *)
DeleteMatched(n, v) ==
  LET k    == MatchLength(n, NoLink)
      m    == Trim(n, k)
      left == tableByName[m].links \ v
  IN /\ k > 0
     /\ tableByName[m].links \cap v # {}
     /\ tableByName' = [tableByName EXCEPT ![m] =
          IF m = n /\ left = {} THEN NoEntry
                                ELSE WithLinks(tableByName[m], left)]
     /\ Unlist(n, v)
     /\ UNCHANGED defaultRoute

(* A name no prefix of which has an entry: the lookup hands out the        *)
(* default vector itself, and that is what loses the links.                *)
DeleteUnmatched(n, v) ==
  /\ MatchLength(n, NoLink) = 0
  /\ DefaultLinks \cap v # {}
  /\ defaultRoute' = defaultRoute \ v
  /\ Unlist(n, v)
  /\ UNCHANGED tableByName

(* No common link: the call returns false and changes nothing.             *)
DeleteNothing(n, v) ==
  LET value == Lookup(n, NoLink)
  IN /\ value # NoEntry => value.links \cap v = {}
     /\ UNCHANGED <<tableByName, listOfLinks, defaultRoute>>

DeleteFrom(n, v) ==
  DeleteMatched(n, v) \/ DeleteUnmatched(n, v) \/ DeleteNothing(n, v)

DeleteRoute(n, v) ==
  /\ rl = NoLink
  /\ StrayDeletes \/ tableByName[n] # NoEntry
  /\ DeleteFrom(n, v)
  /\ UNCHANGED rl

(* Clear v from the default route and release a vector left empty. *)
ClearDefault(v) ==
  defaultRoute' = IF DefaultLinks \subseteq v THEN NoEntry
                                              ELSE defaultRoute \ v

(* athenaFIB_DeleteRoute of the empty name. *)
DeleteDefaultRoute(v) ==
  /\ rl = NoLink
  /\ ClearDefault(v)
  /\ UNCHANGED <<tableByName, listOfLinks, rl>>

(* athenaFIB_RemoveLink of one link, as the transport link adapter calls   *)
(* it: while the list of the link is not empty delete its first name, then *)
(* clear the link from the default route.                                  *)
RemoveLinkBegin(l) ==
  /\ rl = NoLink
  /\ rl' = l
  /\ UNCHANGED <<tableByName, listOfLinks, defaultRoute>>

RemoveLinkDelete ==
  /\ rl # NoLink
  /\ \E n \in listOfLinks[rl] : DeleteFrom(n, {rl})
  /\ UNCHANGED rl

MutantRemoveLinkKeepsDefault ==
  /\ rl # NoLink
  /\ listOfLinks[rl] = {}
  /\ rl' = NoLink
  /\ UNCHANGED <<tableByName, listOfLinks, defaultRoute>>

RemoveLinkEnd ==
  /\ rl # NoLink
  /\ listOfLinks[rl] = {}
  /\ ClearDefault({rl})
  /\ rl' = NoLink
  /\ UNCHANGED <<tableByName, listOfLinks>>

Next ==
  \/ \E n \in Name, t \in Translation, v \in (SUBSET Link) \ {{}} :
       AddTranslationRoute(n, t, v)
  \/ \E v \in (SUBSET Link) \ {{}} : AddDefaultRoute(v) \/ DeleteDefaultRoute(v)
  \/ \E n \in Name, v \in (SUBSET Link) \ {{}} : DeleteRoute(n, v)
  \/ \E l \in Link : RemoveLinkBegin(l)
  \/ RemoveLinkDelete
  \/ RemoveLinkEnd

Spec == Init /\ [][Next]_vars

(* The loop of athenaFIB_RemoveLink is plain C code: it keeps running.     *)
FairSpec == Spec /\ WF_vars(RemoveLinkDelete) /\ WF_vars(RemoveLinkEnd)

(***************************************************************************)
(* Properties                                                              *)
(***************************************************************************)

(* Types; a default vector is never an empty one. *)
TypeOK ==
  /\ tableByName \in [Name -> FIBValue \cup {NoEntry}]
  /\ listOfLinks \in [Link -> SUBSET Name]
  /\ defaultRoute \in {NoEntry} \cup SUBSET Link
  /\ rl \in Link \cup {NoLink}

Uses(n, l) == tableByName[n] # NoEntry /\ l \in tableByName[n].links

(* The reverse index finds every route over a link: what                   *)
(* athenaFIB_RemoveLink walks covers what the table holds.                 *)
RoutesListed == \A n \in Name, l \in Link : Uses(n, l) => n \in listOfLinks[l]

(* And nothing else: a name listed for a link has a route over it, so that *)
(* every iteration of athenaFIB_RemoveLink makes progress.                 *)
ListsRouted == \A l \in Link : \A n \in listOfLinks[l] : Uses(n, l)

(* No entry is left with an empty vector.  Such an entry would still stop  *)
(* the lookup and hide the shorter prefixes and the default route.         *)
NoDeadEntry ==
  /\ \A n \in Name : tableByName[n] # NoEntry => tableByName[n].links # {}
  /\ defaultRoute # {}

(* The table and its reverse index agree, whatever was added, deleted and  *)
(* removed, and nothing in them is dead.                                   *)
TableAndListsAgree == RoutesListed /\ ListsRouted /\ NoDeadEntry

(* The comment of athenaFIB_Lookup: the longest prefix match that contains *)
(* a link other than the ingress, without the ingress, else the default.   *)
LookupIsLongestUsable ==
  \A n \in Name, ingress \in Link \cup {NoLink} :
    LET usable == {k \in 1 .. Len(n) :
                     \E l \in Link \ {ingress} : Uses(Trim(n, k), l)}
        best   == CHOOSE k \in usable : \A j \in usable : j <= k
        found  == IF usable # {} THEN tableByName[Trim(n, best)].links
                                 ELSE DefaultLinks
        egress == IF Lookup(n, ingress) = NoEntry THEN {}
                                                  ELSE Lookup(n, ingress).links
    IN egress = found \ {ingress}

(* athena_FIB.h:220 of athenaFIB_DeleteRoute(name, links): "remove route   *)
(* to link from FIB".  The routes of other names, and the default route,   *)
(* stay.  The code does not check that the name has an entry; when it has  *)
(* none the links are taken from a parent, or from the default route.      *)
DeleteIsExact ==
  [][\A n \in Name, v \in SUBSET Link :
       DeleteRoute(n, v) => /\ \A m \in Name \ {n} : tableByName'[m] = tableByName[m]
                            /\ defaultRoute' = defaultRoute]_vars

(* When athenaFIB_RemoveLink returns, no route uses the link any more, so  *)
(* a link that is later given the freed slot inherits no traffic.          *)
RemovedLinkIsGone ==
  [][\A l \in Link : rl = l /\ rl' = NoLink =>
       /\ \A n \in Name : ~Uses(n, l)'
       /\ l \notin DefaultLinks']_vars

(* athenaFIB_RemoveLink returns. *)
RemoveLinkReturns == rl # NoLink ~> rl = NoLink

(***************************************************************************)
(* The FIB implements the set of routes it promises.                       *)
(***************************************************************************)
UsedRoutes == {r \in Name \X Link : Uses(r[1], r[2])}

TranslationOf == [n \in Name |->
  IF tableByName[n] = NoEntry THEN NoEntry
  ELSE [prefix |-> tableByName[n].prefix, key |-> tableByName[n].key]]

Routes == INSTANCE RouteSet WITH
  Unrouted    <- NoEntry,
  routes      <- UsedRoutes,
  defaults    <- DefaultLinks,
  translation <- TranslationOf

(* Every operation adds or removes exactly the routes it names: a route    *)
(* disappears only when it or its link is removed, and the prefix and key  *)
(* of a VPN name last from its first route to its last.                    *)
ImplementsRouteSet == Routes!Spec
==============================================================================
