------------------------ MODULE AthenaLinkOpeningProofs ------------------------
(***************************************************************************)
(* What opens and closes keep to, for any number of links and descriptors, *)
(* any URIs and any faults: every reference to a link and every user of a  *)
(* descriptor is counted, and an open makes the link its URI describes.    *)
(*                                                                         *)
(* In the second half, what the commands that ask for links and routes     *)
(* keep to, for any links, prefixes and command lines: the state file      *)
(* tells the configuration, but for what is configured without a line.     *)
(***************************************************************************)
EXTENDS AthenaLinkOpening, AthenaConfiguration, FiniteSetTheorems, SequenceTheorems, TLAPS

(***************************************************************************)
(* The invariant                                                           *)
(***************************************************************************)

(* Calls, and then what is left to do with a link once it has a socket.    *)
Ending(fragments) == IF fragments THEN <<"create", "fragmenter", "add">> ELSE <<"create", "add">>

Calling(s, fragments) ==
  LET ending == Ending(fragments)
      calls  == Len(s) - Len(ending)
  IN /\ Len(s) >= Len(ending)
     /\ \A i \in 1..Len(s) : IF i <= calls THEN s[i] \in SystemCalls ELSE s[i] = ending[i - calls]

(* The work has no link yet; the link it has made is as it was meant.      *)
Unmade(w) == w.link = None /\ Memory # {}

Made(w, keeper) ==
  /\ w.link \in Present \ listed
  /\ link[w.link].uri = w.uri /\ link[w.link].of = w.of /\ link[w.link].name = w.name
  /\ link[w.link].listens = w.listens /\ link[w.link].forced = w.forced
  /\ link[w.link].socket = w.socket /\ link[w.link].keeper = keeper

(* The work of an open.                                                    *)
Asked(w) ==
  LET p == Parameters(w.uri)
  IN /\ w.of = None /\ w.keeper = None
     /\ p # Malformed
     /\ w.listens = p.listens /\ w.forced = p.forced
     /\ w.name = IF p.name = None THEN w.uri.at ELSE p.name

Fragments(w) == Parameters(w.uri).fragments

Opens(w) ==
  /\ Asked(w)
  /\ \/ /\ w.todo[1] = "socket" /\ Calling(Tail(w.todo), Fragments(w))
        /\ Unmade(w) /\ w.socket = None
     \/ Calling(w.todo, Fragments(w)) /\ Unmade(w) /\ w.socket \in Socket
     \/ w.todo = <<"fragmenter", "add">> /\ Fragments(w) /\ Made(w, None)
     \/ w.todo = <<"add">> /\ Made(w, IF Fragments(w) THEN w.link ELSE None)

(* The step that gives the link of a peer its socket.                      *)
Taking(w) ==
  IF w.uri.scheme = "TCP" THEN "accept" ELSE IF w.uri.scheme = "UDP" THEN "dup" ELSE "acquire"

(* The work for a peer of the listener w.of.                               *)
Welcome(w) ==
  /\ w.of \in listed /\ link[w.of].listens
  /\ link[w.of].uri = w.uri /\ link[w.of].forced = w.forced /\ ~w.listens

Keeper(w) == IF link[w.of].keeper = None THEN None ELSE w.of

Clones(w) ==
  /\ Welcome(w)
  /\ \/ /\ w.todo = <<"fragmenter", Taking(w), "create", "add">> /\ w.uri.scheme # "TCP"
        /\ Unmade(w) /\ w.socket = None /\ w.keeper = None
     \/ /\ w.todo = <<Taking(w), "create", "add">>
        /\ Unmade(w) /\ w.socket = None /\ w.keeper \in {None, Keeper(w)}
     \/ w.todo = <<"create", "add">> /\ Unmade(w) /\ w.keeper \in {None, Keeper(w)}
     \/ w.todo = <<"add">> /\ Made(w, w.keeper) /\ w.keeper \in {None, Keeper(w)}

WorkInv == work # None => Opens(work) \/ Clones(work)

(* A link is kept by itself or by its listener, which is there as long as  *)
(* they share a socket.                                                    *)
LinkInv ==
  \A l \in Present :
    /\ link[l].listens => link[l].of = None
    /\ link[l].keeper # None => /\ link[l].uri.scheme # "TCP"
                                /\ link[l].keeper = IF link[l].of = None THEN l ELSE link[l].of
    /\ link[l].of # None /\ link[l].uri.scheme # "TCP" =>
         /\ link[l].of \in listed /\ link[link[l].of].listens
         /\ link[link[l].of].uri = link[l].uri

(* The work has a socket that no link has yet.                             *)
Holds(d) == work # None /\ work.link = None /\ work.socket = d

(* Only Ethernet links have a socket between them, and nobody one that was *)
(* forgotten.                                                              *)
SocketInv ==
  /\ \A l, k \in Present : l # k /\ link[l].socket # None /\ link[l].socket = link[k].socket =>
       link[l].uri.scheme = "ETH"
  /\ \A l \in Present :
       /\ link[l].socket \notin lost
       /\ Holds(link[l].socket) /\ link[l].socket # None =>
            work.of # None /\ work.uri.scheme = "ETH" /\ link[l].uri.scheme = "ETH"
  /\ \A d \in lost : ~Holds(d)

OpeningInv == ResourcesCounted /\ WorkInv /\ LinkInv /\ SocketInv

(***************************************************************************)
(* Numbers and counting                                                    *)
(***************************************************************************)

(* A set that has 0, and n + 1 with n, has every natural number.           *)
LEMMA SetInduction ==
  ASSUME NEW S, 0 \in S, \A n \in Nat : n \in S => n + 1 \in S
  PROVE  \A n \in Nat : n \in S
<1> SUFFICES ASSUME Nat \ S # {}
             PROVE  FALSE
  OBVIOUS
<1>1. PICK n \in Nat \ S : \A m \in Nat \ S : ~(<<m, n>> \in OpToRel(<, Nat))
  BY NatLessThanWellFounded, WFMin
<1>2. n # 0 /\ n - 1 \in Nat /\ n - 1 < n
  OBVIOUS
<1>3. n - 1 \in S
  BY <1>1, <1>2 DEF OpToRel
<1>4. (n - 1) + 1 = n
  OBVIOUS
<1>5. QED
  BY <1>2, <1>3, <1>4

LEMMA LeastIn ==
  ASSUME NEW S, S \subseteq Nat, S # {}
  PROVE  Least(S) \in S
<1>1. PICK n \in S : \A m \in S : ~(<<m, n>> \in OpToRel(<, Nat))
  BY NatLessThanWellFounded, WFMin
<1>2. \A j \in S : ~(j < n)
  BY <1>1 DEF OpToRel
<1>3. \A j \in S : n <= j
  BY <1>2
<1>4. \E x \in S : \A y \in S : x <= y
  BY <1>3
<1>5. QED
  BY <1>4 DEF Least

LEMMA Numbered ==
  /\ Link \subseteq Nat /\ Socket \subseteq Nat
  /\ None \notin Link /\ None \notin Socket /\ None \notin Name /\ None \notin Forced
  /\ \A w \in Work : w # None
  /\ \A k \in LinkState : k # None
  /\ \A x \in Description : x # None
BY OpeningAssumption DEF Link, Socket

(* Links are finitely many. *)
LEMMA LinksCount ==
  ASSUME NEW S, S \subseteq Link
  PROVE  IsFiniteSet(S) /\ Cardinality(S) \in Nat
<1>1. IsFiniteSet(Link)
  BY OpeningAssumption, FS_Interval DEF Link
<1>2. QED
  BY <1>1, FS_Subset, FS_CardinalityType

LEMMA OneMore ==
  ASSUME NEW S, S \subseteq Link, NEW l, l \notin S
  PROVE  Cardinality(S \cup {l}) = Cardinality(S) + 1
BY LinksCount, FS_AddElement

LEMMA SomeLess ==
  ASSUME NEW S, S \subseteq Link, NEW T, T \subseteq S
  PROVE  Cardinality(S \ T) = Cardinality(S) - Cardinality(T)
<1>1. S \cap T = T
  OBVIOUS
<1>2. QED
  BY <1>1, LinksCount, FS_Difference

(***************************************************************************)
(* What a URI asks for                                                     *)
(***************************************************************************)

ParameterSet ==
  [listens : BOOLEAN, name : Name \cup {None}, forced : Forced \cup {None},
   source : BOOLEAN, fragments : BOOLEAN]

(* Reading up to each option. *)
Reads(u, R) ==
  R = [n \in 0..Len(u.tokens) |->
         IF n = 0 THEN NoParameters ELSE Parsed(u.scheme, R[n - 1], u.tokens[n])]

LEMMA ReadsExist ==
  ASSUME NEW u
  PROVE  Len(u.tokens) \in Nat => \E R : Reads(u, R) /\ Parameters(u) = R[Len(u.tokens)]
<1> SUFFICES ASSUME Len(u.tokens) \in Nat
             PROVE  \E R : Reads(u, R) /\ Parameters(u) = R[Len(u.tokens)]
  OBVIOUS
<1> DEFINE Next1(r, n) == Parsed(u.scheme, r, u.tokens[n])
           Upto(F, m) == F = [n \in 0..m |-> IF n = 0 THEN NoParameters ELSE Next1(F[n - 1], n)]
           S == {m \in Nat : \E F : Upto(F, m)}
<1>1. 0 \in S
  <2>1. Upto([n \in 0..0 |-> NoParameters], 0)
    OBVIOUS
  <2>2. QED
    BY <2>1
<1>2. ASSUME NEW m \in Nat, m \in S
      PROVE  m + 1 \in S
  <2>1. PICK F : Upto(F, m)
    <3> HIDE DEF Upto
    <3>1. QED
      BY <1>2
  <2> DEFINE G == [n \in 0..(m + 1) |-> IF n = m + 1 THEN Next1(F[m], m + 1) ELSE F[n]]
  <2> HIDE DEF Next1
  <2>2. \A n \in 0..m : F[n] = IF n = 0 THEN NoParameters ELSE Next1(F[n - 1], n)
    BY <2>1
  <2>3. ASSUME NEW n \in 0..(m + 1)
        PROVE  G[n] = IF n = 0 THEN NoParameters ELSE Next1(G[n - 1], n)
    <3>1. CASE n = m + 1
      <4>1. G[m] = F[m] /\ n - 1 = m /\ n # 0 /\ G[n] = Next1(F[m], m + 1)
        BY <3>1
      <4> HIDE DEF G
      <4>2. QED
        BY <3>1, <4>1
    <3>2. CASE n # m + 1 /\ n # 0
      <4>1. n \in 0..m /\ n - 1 \in 0..m /\ n - 1 # m + 1 /\ n - 1 \in 0..(m + 1)
        BY <3>2
      <4>2. G[n] = F[n] /\ G[n - 1] = F[n - 1]
        BY <3>2, <4>1
      <4> HIDE DEF G
      <4>3. QED
        BY <2>2, <3>2, <4>1, <4>2
    <3>3. CASE n # m + 1 /\ n = 0
      <4>1. G[n] = F[n] /\ n \in 0..m
        BY <3>3
      <4> HIDE DEF G
      <4>2. QED
        BY <2>2, <3>3, <4>1
    <3>4. QED
      BY <3>1, <3>2, <3>3
  <2>4. G = [n \in 0..(m + 1) |-> G[n]]
    OBVIOUS
  <2>5. Upto(G, m + 1)
    <3> HIDE DEF G
    <3>1. QED
      BY <2>3, <2>4
  <2>6. QED
    <3> HIDE DEF G, Upto
    <3>1. QED
      BY <2>5
<1>3. Len(u.tokens) \in S
  <2> HIDE DEF S
  <2>1. QED
    BY <1>1, <1>2, SetInduction
<1> DEFINE P(F) == F = [n \in 0..Len(u.tokens) |->
                          IF n = 0 THEN NoParameters ELSE Parsed(u.scheme, F[n - 1], u.tokens[n])]
           K == CHOOSE F : P(F)
<1>4. \E F : P(F)
  BY <1>3
<1>5. P(K)
  <2> HIDE DEF P
  <2>1. QED
    BY <1>4
<1>6. Parameters(u) = K[Len(u.tokens)]
  BY DEF Parameters
<1> HIDE DEF K
<1>7. QED
  BY <1>5, <1>6 DEF Reads

(* The last of the first n options opt has the value v.                    *)
LastHas(u, opt, n, v) ==
  \E i \in 1..n : /\ u.tokens[i].opt = opt /\ u.tokens[i].is = v
                  /\ \A j \in 1..n : u.tokens[j].opt = opt => j <= i

Lacks(u, opt, n) == \A i \in 1..n : u.tokens[i].opt # opt

(* What the first n options ask for.                                       *)
Asks(u, n, p) ==
  /\ p \in ParameterSet
  /\ \A i \in 1..n : u.tokens[i].opt \in Options[u.scheme] /\ u.tokens[i].is # Malformed
  /\ p.listens = ~Lacks(u, "listener", n)
  /\ p.fragments = ~Lacks(u, "fragmenter", n)
  /\ (Lacks(u, "name", n) /\ p.name = None) \/ LastHas(u, "name", n, p.name)
  /\ (Lacks(u, "local", n) /\ p.forced = None) \/ LastHas(u, "local", n, p.forced)

LEMMA Appears ==
  ASSUME NEW u, NEW n \in Nat, NEW opt
  PROVE  /\ u.tokens[n + 1].opt = opt => /\ ~Lacks(u, opt, n + 1)
                                         /\ LastHas(u, opt, n + 1, u.tokens[n + 1].is)
         /\ u.tokens[n + 1].opt # opt =>
              /\ Lacks(u, opt, n + 1) = Lacks(u, opt, n)
              /\ \A v : LastHas(u, opt, n, v) => LastHas(u, opt, n + 1, v)
<1>1. \A i \in 1..(n + 1) : i \in 1..n \/ i = n + 1
  OBVIOUS
<1>2. 1..n \subseteq 1..(n + 1) /\ n + 1 \in 1..(n + 1) /\ \A i \in 1..(n + 1) : i <= n + 1
  OBVIOUS
<1>3. ASSUME u.tokens[n + 1].opt = opt
      PROVE  ~Lacks(u, opt, n + 1) /\ LastHas(u, opt, n + 1, u.tokens[n + 1].is)
  BY <1>2, <1>3 DEF Lacks, LastHas
<1>4. ASSUME u.tokens[n + 1].opt # opt
      PROVE  /\ Lacks(u, opt, n + 1) = Lacks(u, opt, n)
             /\ \A v : LastHas(u, opt, n, v) => LastHas(u, opt, n + 1, v)
  <2>1. Lacks(u, opt, n + 1) = Lacks(u, opt, n)
    BY <1>1, <1>2, <1>4 DEF Lacks
  <2>2. ASSUME NEW v, LastHas(u, opt, n, v)
        PROVE  LastHas(u, opt, n + 1, v)
    <3>1. PICK i \in 1..n : /\ u.tokens[i].opt = opt /\ u.tokens[i].is = v
                            /\ \A j \in 1..n : u.tokens[j].opt = opt => j <= i
      BY <2>2 DEF LastHas
    <3>2. \A j \in 1..(n + 1) : u.tokens[j].opt = opt => j <= i
      BY <1>1, <1>4, <3>1
    <3>3. QED
      BY <1>2, <3>1, <3>2 DEF LastHas
  <2>3. QED
    BY <2>1, <2>2
<1>5. QED
  BY <1>3, <1>4

LEMMA AsksMore ==
  ASSUME NEW u \in Uri, NEW n \in Nat, n + 1 \in DOMAIN u.tokens, NEW p, Asks(u, n, p),
         Parsed(u.scheme, p, u.tokens[n + 1]) # Malformed
  PROVE  Asks(u, n + 1, Parsed(u.scheme, p, u.tokens[n + 1]))
<1> DEFINE t == u.tokens[n + 1]
           q == WithOption(p, t)
<1>1. t.is # Malformed /\ t.opt \in Options[u.scheme] /\ Parsed(u.scheme, p, t) = q
  BY DEF Parsed
<1>2. /\ t.opt = "name" => t.is \in Name
      /\ t.opt = "local" => t.is \in Forced
  BY <1>1, OpeningAssumption
<1>3. /\ q.listens = (p.listens \/ t.opt = "listener")
      /\ q.name = (IF t.opt = "name" THEN t.is ELSE p.name)
      /\ q.forced = (IF t.opt = "local" THEN t.is ELSE p.forced)
      /\ q.fragments = (p.fragments \/ t.opt = "fragmenter")
  BY DEF WithOption
<1>4. q \in ParameterSet
  BY <1>2 DEF Asks, ParameterSet, WithOption
<1>5. \A i \in 1..(n + 1) : u.tokens[i].opt \in Options[u.scheme] /\ u.tokens[i].is # Malformed
  <2>1. \A i \in 1..(n + 1) : i \in 1..n \/ i = n + 1
    OBVIOUS
  <2>2. QED
    BY <1>1, <2>1 DEF Asks
<1>6. p.listens = ~Lacks(u, "listener", n) /\ p.fragments = ~Lacks(u, "fragmenter", n)
  BY DEF Asks
<1> HIDE DEF q
<1>7. q.listens = ~Lacks(u, "listener", n + 1)
  BY <1>3, <1>6, Appears
<1>8. q.fragments = ~Lacks(u, "fragmenter", n + 1)
  BY <1>3, <1>6, Appears
<1>9. (Lacks(u, "name", n + 1) /\ q.name = None) \/ LastHas(u, "name", n + 1, q.name)
  BY <1>3, Appears DEF Asks
<1>10. (Lacks(u, "local", n + 1) /\ q.forced = None) \/ LastHas(u, "local", n + 1, q.forced)
  BY <1>3, Appears DEF Asks
<1>11. QED
  BY <1>1, <1>4, <1>5, <1>7, <1>8, <1>9, <1>10 DEF Asks

(* What is read of a URI is what it asks for.                              *)
LEMMA ParametersAsked ==
  ASSUME NEW u \in Uri, Parameters(u) # Malformed
  PROVE  Asks(u, Len(u.tokens), Parameters(u))
<1> DEFINE N == Len(u.tokens)
<1>1. N \in Nat /\ DOMAIN u.tokens = 1..N
  BY OpeningAssumption, LenProperties
<1>2. PICK R : Reads(u, R) /\ Parameters(u) = R[N]
  BY <1>1, ReadsExist
<1> HIDE DEF N
<1>3. \A n \in 0..N : R[n] = IF n = 0 THEN NoParameters ELSE Parsed(u.scheme, R[n - 1], u.tokens[n])
  BY <1>2 DEF Reads, N
<1> DEFINE S == {n \in Nat : n <= N => R[n] = Malformed \/ Asks(u, n, R[n])}
<1>4. 0 \in S
  <2>1. R[0] = NoParameters
    BY <1>1, <1>3
  <2>2. Asks(u, 0, NoParameters)
    <3>1. \A opt : Lacks(u, opt, 0)
      BY DEF Lacks
    <3>2. NoParameters \in ParameterSet
      BY DEF NoParameters, ParameterSet
    <3>3. /\ ~NoParameters.listens /\ ~NoParameters.fragments
          /\ NoParameters.name = None /\ NoParameters.forced = None
      BY DEF NoParameters
    <3>4. NoParameters.listens = FALSE /\ NoParameters.fragments = FALSE
      BY DEF NoParameters
    <3>5. \A i \in 1..0 : FALSE
      OBVIOUS
    <3>6. QED
      BY <3>1, <3>2, <3>3, <3>4, <3>5 DEF Asks
  <2>3. QED
    BY <2>1, <2>2
<1>5. ASSUME NEW n \in Nat, n \in S
      PROVE  n + 1 \in S
  <2> SUFFICES ASSUME n + 1 <= N, R[n + 1] # Malformed
               PROVE  Asks(u, n + 1, R[n + 1])
    OBVIOUS
  <2>1. n + 1 \in 0..N /\ n + 1 # 0 /\ (n + 1) - 1 = n /\ n + 1 \in 1..N /\ n <= N
    BY <1>1
  <2>2. R[n + 1] = Parsed(u.scheme, R[n], u.tokens[n + 1])
    BY <1>3, <2>1
  <2>3. R[n] # Malformed
    BY <2>2 DEF Parsed
  <2>4. Asks(u, n, R[n])
    BY <1>5, <2>1, <2>3
  <2>5. QED
    BY <1>1, <2>1, <2>2, <2>4, AsksMore
<1>6. N \in S
  <2> HIDE DEF S
  <2>1. QED
    BY <1>1, <1>4, <1>5, SetInduction
<1>7. QED
  BY <1>1, <1>2, <1>6 DEF N

LEMMA LastIsValue ==
  ASSUME NEW u, NEW opt, NEW v, NEW default, DOMAIN u.tokens = 1..Len(u.tokens), Len(u.tokens) \in Nat
  PROVE  /\ Lacks(u, opt, Len(u.tokens)) => Opened!Value(u, opt, default) = default
         /\ LastHas(u, opt, Len(u.tokens), v) => Opened!Value(u, opt, default) = v
         /\ Lacks(u, opt, Len(u.tokens)) = (Opened!Given(u, opt) = {})
<1> DEFINE given == {i \in DOMAIN u.tokens : u.tokens[i].opt = opt}
<1>1. Opened!Given(u, opt) = given
  BY DEF Opened!Given
<1>2. Lacks(u, opt, Len(u.tokens)) = (given = {})
  BY DEF Lacks
<1>3. Opened!Value(u, opt, default) =
        IF given = {} THEN default ELSE u.tokens[CHOOSE i \in given : \A j \in given : j <= i].is
  BY <1>1 DEF Opened!Value
<1>4. ASSUME LastHas(u, opt, Len(u.tokens), v)
      PROVE  Opened!Value(u, opt, default) = v
  <2>1. PICK i \in given : u.tokens[i].is = v /\ \A j \in given : j <= i
    BY <1>4 DEF LastHas
  <2>2. given \subseteq Nat
    OBVIOUS
  <2> HIDE DEF given
  <2> DEFINE c == CHOOSE k \in given : \A j \in given : j <= k
  <2>3. c \in given /\ \A j \in given : j <= c
    BY <2>1
  <2> HIDE DEF c
  <2>4. c = i
    BY <2>1, <2>2, <2>3
  <2>5. QED
    BY <1>3, <2>1, <2>4 DEF c
<1>5. QED
  BY <1>1, <1>2, <1>3, <1>4

(* A URI that could be read is legal, and asks for its meaning.            *)
LEMMA MeaningOfURI ==
  ASSUME NEW u \in Uri, Parameters(u) # Malformed
  PROVE  LET p == Parameters(u)
         IN /\ p \in ParameterSet
            /\ Opened!Legal(u)
            /\ p.fragments => u.scheme # "TCP"
            /\ Opened!Meaning(u) =
                 [uri |-> u, of |-> None, name |-> IF p.name = None THEN u.at ELSE p.name,
                  listens |-> p.listens, fragments |-> p.fragments, forced |-> p.forced]
<1>1. Len(u.tokens) \in Nat /\ DOMAIN u.tokens = 1..Len(u.tokens) /\ u.scheme \in Scheme
  BY OpeningAssumption, LenProperties
<1>2. PICK p : p = Parameters(u)
  OBVIOUS
<1>3. Asks(u, Len(u.tokens), p)
  BY <1>2, ParametersAsked
<1>4. p \in ParameterSet /\ Opened!Legal(u)
  BY <1>1, <1>3 DEF Asks, Opened!Legal
<1>5. p.fragments => u.scheme # "TCP"
  <2> SUFFICES ASSUME p.fragments PROVE u.scheme # "TCP"
    OBVIOUS
  <2>1. PICK i \in DOMAIN u.tokens : u.tokens[i].opt = "fragmenter"
    BY <1>1, <1>3 DEF Asks, Lacks
  <2>2. "fragmenter" \in Options[u.scheme]
    BY <1>1, <1>3, <2>1 DEF Asks
  <2>3. QED
    BY <1>1, <2>2 DEF Options
<1>6. /\ p.listens = (Opened!Given(u, "listener") # {})
      /\ p.fragments = (Opened!Given(u, "fragmenter") # {})
  BY <1>1, <1>3, LastIsValue DEF Asks
<1>7. Opened!Value(u, "local", None) = p.forced
  <2>1. CASE Lacks(u, "local", Len(u.tokens)) /\ p.forced = None
    BY <1>1, <2>1, LastIsValue
  <2>2. CASE LastHas(u, "local", Len(u.tokens), p.forced)
    BY <1>1, <2>2, LastIsValue
  <2>3. QED
    BY <1>3, <2>1, <2>2 DEF Asks
<1>8. Opened!Value(u, "name", u.at) = IF p.name = None THEN u.at ELSE p.name
  <2>1. CASE Lacks(u, "name", Len(u.tokens)) /\ p.name = None
    BY <1>1, <2>1, LastIsValue
  <2>2. CASE LastHas(u, "name", Len(u.tokens), p.name)
    <3>1. PICK i \in DOMAIN u.tokens : u.tokens[i].opt = "name" /\ u.tokens[i].is = p.name
      BY <1>1, <2>2 DEF LastHas
    <3>2. p.name \in Name
      BY <1>1, <1>3, <3>1, OpeningAssumption DEF Asks
    <3>3. QED
      BY <1>1, <2>2, <3>2, LastIsValue, Numbered
  <2>3. QED
    BY <1>3, <2>1, <2>2 DEF Asks
<1>9. Opened!Meaning(u) =
        [uri |-> u, of |-> None, name |-> IF p.name = None THEN u.at ELSE p.name,
         listens |-> p.listens, fragments |-> p.fragments, forced |-> p.forced]
  BY <1>6, <1>7, <1>8 DEF Opened!Meaning
<1>10. QED
  BY <1>2, <1>4, <1>5, <1>9

(***************************************************************************)
(* What is left to do                                                      *)
(***************************************************************************)

LEMMA Endings ==
  ASSUME NEW f
  PROVE  /\ Len(Ending(f)) = (IF f THEN 3 ELSE 2) /\ Ending(f) \in Seq(Step)
         /\ Ending(f)[1] = "create"
         /\ Tail(Ending(f)) = (IF f THEN <<"fragmenter", "add">> ELSE <<"add">>)
         /\ \A s : Calling(s, f) <=>
              /\ Len(s) >= Len(Ending(f))
              /\ \A i \in 1..Len(s) : IF i <= Len(s) - Len(Ending(f)) THEN s[i] \in SystemCalls
                                      ELSE s[i] = Ending(f)[i - (Len(s) - Len(Ending(f)))]
<1>1. CASE f
  BY <1>1 DEF Ending, Calling, Step
<1>2. CASE ~f
  BY <1>2 DEF Ending, Calling, Step
<1>3. QED
  BY <1>1, <1>2

(* A call, and there is less to do, or the calls are over.                 *)
LEMMA CallingGoesOn ==
  ASSUME NEW s \in Seq(Step), NEW f, Calling(s, f)
  PROVE  /\ Len(s) > 0
         /\ \/ s[1] \in SystemCalls /\ Tail(s) \in Seq(Step) /\ Calling(Tail(s), f)
            \/ s = Ending(f)
<1> DEFINE e == Ending(f)
<1>1. /\ Len(e) \in {2, 3} /\ e \in Seq(Step)
      /\ Len(s) >= Len(e)
      /\ \A i \in 1..Len(s) : IF i <= Len(s) - Len(e) THEN s[i] \in SystemCalls
                              ELSE s[i] = e[i - (Len(s) - Len(e))]
  BY Endings
<1>2. Len(s) \in Nat
  OBVIOUS
<1>3. CASE Len(s) = Len(e)
  <2>1. \A i \in 1..Len(s) : s[i] = e[i]
    <3> HIDE DEF e
    <3> SUFFICES ASSUME NEW i \in 1..Len(s)
                 PROVE  s[i] = e[i]
      OBVIOUS
    <3>1. Len(s) - Len(e) = 0 /\ ~(i <= 0) /\ i - 0 = i
      BY <1>1, <1>3
    <3>2. QED
      BY <1>1, <3>1
  <2>2. s = e
    <3> HIDE DEF e
    <3>1. QED
      BY <1>1, <1>3, <2>1, SeqEqual
  <2>3. Len(s) > 0
    BY <1>1, <1>3
  <2>4. QED
    BY <2>2, <2>3
<1>4. CASE Len(s) > Len(e)
  <2>1. s[1] \in SystemCalls /\ Len(s) > 0
    <3> HIDE DEF e
    <3>1. 1 \in 1..Len(s) /\ 1 <= Len(s) - Len(e)
      BY <1>1, <1>2, <1>4
    <3>2. QED
      BY <1>1, <1>2, <3>1
  <2> DEFINE t == Tail(s)
  <2>2. t \in Seq(Step) /\ Len(t) = Len(s) - 1 /\ \A i \in 1..Len(t) : t[i] = s[i + 1]
    BY <2>1, HeadTailProperties
  <2>3. Len(t) >= Len(e)
    BY <1>1, <1>2, <1>4, <2>2
  <2>4. ASSUME NEW i \in 1..Len(t)
        PROVE  IF i <= Len(t) - Len(e) THEN t[i] \in SystemCalls ELSE t[i] = e[i - (Len(t) - Len(e))]
    <3> HIDE DEF e, t
    <3>1. /\ i + 1 \in 1..Len(s) /\ t[i] = s[i + 1]
          /\ (i + 1 <= Len(s) - Len(e)) <=> (i <= Len(t) - Len(e))
          /\ (i + 1) - (Len(s) - Len(e)) = i - (Len(t) - Len(e))
      BY <1>1, <1>2, <2>2
    <3>2. QED
      BY <1>1, <3>1
  <2>5. Calling(t, f)
    BY <2>3, <2>4, Endings
  <2>6. QED
    BY <2>1, <2>2, <2>5
<1>5. QED
  BY <1>1, <1>2, <1>3, <1>4

LEMMA Joined ==
  ASSUME NEW s \in Seq(Step), NEW t \in Seq(Step)
  PROVE  /\ s \o t \in Seq(Step) /\ Len(s \o t) = Len(s) + Len(t)
         /\ \A i \in 1..Len(s) : (s \o t)[i] = s[i]
         /\ \A i \in 1..Len(t) : (s \o t)[Len(s) + i] = t[i]
<1>1. /\ s \o t \in Seq(Step) /\ Len(s \o t) = Len(s) + Len(t)
      /\ \A i \in 1..(Len(s) + Len(t)) : (s \o t)[i] = IF i <= Len(s) THEN s[i] ELSE t[i - Len(s)]
  BY ConcatProperties
<1>2. Len(s) \in Nat /\ Len(t) \in Nat
  OBVIOUS
<1>3. ASSUME NEW i \in 1..Len(t)
      PROVE  (s \o t)[Len(s) + i] = t[i]
  <2>1. /\ Len(s) + i \in 1..(Len(s) + Len(t)) /\ ~(Len(s) + i <= Len(s))
        /\ (Len(s) + i) - Len(s) = i
    BY <1>2
  <2>2. QED
    BY <1>1, <2>1
<1>4. \A i \in 1..Len(s) : i \in 1..(Len(s) + Len(t)) /\ i <= Len(s)
  BY <1>2
<1>5. QED
  BY <1>1, <1>3, <1>4

LEMMA LongerByOne ==
  ASSUME NEW a \in Step, NEW b \in Step, NEW c \in Step
  PROVE  <<a, b>> \o <<c>> = <<a, b, c>>
<1>1. /\ <<a, b>> \in Seq(Step) /\ <<a, b, c>> \in Seq(Step) /\ <<c>> \in Seq(Step)
      /\ Len(<<a, b>>) = 2 /\ Len(<<a, b, c>>) = 3 /\ Len(<<c>>) = 1
  OBVIOUS
<1> DEFINE s == <<a, b>> \o <<c>>
<1>2. s \in Seq(Step) /\ Len(s) = 3 /\ s[1] = a /\ s[2] = b /\ s[2 + 1] = c
  BY <1>1, Joined
<1> HIDE DEF s
<1>3. s = <<a, b, c>>
  BY <1>1, <1>2, SeqEqual
<1>4. QED
  BY <1>3 DEF s

LEMMA LongerByTwo ==
  ASSUME NEW a \in Step, NEW b \in Step, NEW c \in Step, NEW d \in Step
  PROVE  <<a, b>> \o <<c>> \o <<d>> = <<a, b, c, d>>
<1>1. /\ <<a, b, c>> \in Seq(Step) /\ <<a, b, c, d>> \in Seq(Step) /\ <<d>> \in Seq(Step)
      /\ Len(<<a, b, c>>) = 3 /\ Len(<<a, b, c, d>>) = 4 /\ Len(<<d>>) = 1
  OBVIOUS
<1> DEFINE t == <<a, b, c>> \o <<d>>
<1>2. t \in Seq(Step) /\ Len(t) = 4 /\ t[1] = a /\ t[2] = b /\ t[3] = c /\ t[3 + 1] = d
  BY <1>1, Joined
<1> HIDE DEF t
<1>3. t = <<a, b, c, d>>
  BY <1>1, <1>2, SeqEqual
<1>4. <<a, b>> \o <<c>> = <<a, b, c>>
  BY LongerByOne
<1>5. QED
  BY <1>3, <1>4 DEF t

(* The calls of a scheme, a socket first. *)
LEMMA CallsOfScheme ==
  ASSUME NEW u \in Uri, NEW p \in ParameterSet
  PROVE  /\ Calls(u, p) \in Seq(Step) /\ Len(Calls(u, p)) > 0
         /\ Calls(u, p)[1] = "socket"
         /\ \A i \in 2..Len(Calls(u, p)) : Calls(u, p)[i] \in SystemCalls
<1> DEFINE Fit(c) == /\ c \in Seq(Step) /\ Len(c) > 0 /\ c[1] = "socket"
                     /\ \A i \in 2..Len(c) : c[i] \in SystemCalls
<1>1. u.scheme \in Scheme
  BY OpeningAssumption
<1>2. CASE u.scheme = "TCP"
  <2>1. Calls(u, p) = TCPCalls(p)
    BY <1>2 DEF Calls
  <2>2. CASE p.listens
    <3>1. TCPCalls(p) = <<"socket", "options", "nonblock", "bind", "listen">>
      BY <2>2 DEF TCPCalls
    <3>2. Fit(<<"socket", "options", "nonblock", "bind", "listen">>)
      BY DEF Step, SystemCalls
    <3>3. QED
      BY <2>1, <3>1, <3>2
  <2>3. CASE ~p.listens
    <3>1. TCPCalls(p) = <<"socket", "connect", "options", "getsockname">>
      BY <2>3 DEF TCPCalls
    <3>2. Fit(<<"socket", "connect", "options", "getsockname">>)
      BY DEF Step, SystemCalls
    <3>3. QED
      BY <2>1, <3>1, <3>2
  <2>4. QED
    BY <2>2, <2>3
<1>3. CASE u.scheme = "UDP"
  <2>1. Calls(u, p) = UDPCalls(p)
    BY <1>3 DEF Calls
  <2>2. CASE p.listens
    <3>1. UDPCalls(p) = <<"socket", "options", "nonblock", "bind">>
      BY <2>2 DEF UDPCalls
    <3>2. Fit(<<"socket", "options", "nonblock", "bind">>)
      BY DEF Step, SystemCalls
    <3>3. QED
      BY <2>1, <3>1, <3>2
  <2>3. CASE ~p.listens /\ p.source
    <3>1. UDPCalls(p) = <<"socket", "options">> \o <<"bind">> \o <<"getsockname">>
      BY <2>3 DEF UDPCalls
    <3>2. "socket" \in Step /\ "options" \in Step /\ "bind" \in Step /\ "getsockname" \in Step
      BY DEF Step, SystemCalls
    <3>3. <<"socket", "options">> \o <<"bind">> \o <<"getsockname">>
            = <<"socket", "options", "bind", "getsockname">>
      BY ONLY <3>2, LongerByTwo
    <3>4. Fit(<<"socket", "options", "bind", "getsockname">>)
      BY DEF Step, SystemCalls
    <3>5. QED
      BY <2>1, <3>1, <3>3, <3>4
  <2>4. CASE ~p.listens /\ ~p.source
    <3>1. UDPCalls(p) = <<"socket", "options">> \o <<>> \o <<"getsockname">>
      BY <2>4 DEF UDPCalls
    <3>2. <<"socket", "options">> \o <<>> \o <<"getsockname">> = <<"socket", "options", "getsockname">>
      <4>1. <<"socket", "options">> \o <<>> = <<"socket", "options">>
        OBVIOUS
      <4>2. <<"socket", "options">> \o <<"getsockname">> = <<"socket", "options", "getsockname">>
        BY LongerByOne DEF Step, SystemCalls
      <4>3. QED
        BY <4>1, <4>2
    <3>3. Fit(<<"socket", "options", "getsockname">>)
      BY DEF Step, SystemCalls
    <3>4. QED
      BY <2>1, <3>1, <3>2, <3>3
  <2>5. QED
    BY <2>2, <2>3, <2>4
<1>4. CASE u.scheme = "ETH"
  <2>1. Calls(u, p) = <<"socket", "interface", "bind", "address">>
    BY <1>4 DEF Calls, ETHCalls
  <2>2. Fit(<<"socket", "interface", "bind", "address">>)
    BY DEF Step, SystemCalls
  <2>3. QED
    BY <2>1, <2>2
<1>5. QED
  BY <1>1, <1>2, <1>3, <1>4 DEF Scheme

LEMMA StepsOfOpen ==
  ASSUME NEW u \in Uri, NEW p \in ParameterSet
  PROVE  /\ Steps(u, p) \in Seq(Step) /\ Len(Steps(u, p)) > 0
         /\ Steps(u, p)[1] = "socket" /\ Calling(Tail(Steps(u, p)), p.fragments)
<1> DEFINE c == Calls(u, p)
           e == Ending(p.fragments)
           s == c \o e
<1>1. /\ c \in Seq(Step) /\ Len(c) > 0 /\ c[1] = "socket"
      /\ \A i \in 2..Len(c) : c[i] \in SystemCalls
  BY CallsOfScheme
<1>2. e \in Seq(Step) /\ Len(e) \in {2, 3}
  BY Endings
<1> HIDE DEF c
<1>3. Steps(u, p) = s
  <2>1. <<"create">> \in Seq(Step) /\ <<"fragmenter">> \in Seq(Step) /\ <<"add">> \in Seq(Step)
    BY DEF Step
  <2>2. CASE p.fragments
    <3>1. Steps(u, p) = c \o <<"create">> \o <<"fragmenter">> \o <<"add">>
      BY <2>2 DEF Steps, c
    <3>2. e = <<"create">> \o <<"fragmenter">> \o <<"add">>
      BY <2>2 DEF Ending
    <3>3. QED
      BY <1>1, <2>1, <3>1, <3>2, ConcatAssociative, ConcatProperties
  <2>3. CASE ~p.fragments
    <3>1. Steps(u, p) = c \o <<"create">> \o <<>> \o <<"add">>
      BY <2>3 DEF Steps, c
    <3>2. e = <<"create">> \o <<>> \o <<"add">>
      BY <2>3 DEF Ending
    <3>3. QED
      BY <1>1, <2>1, <3>1, <3>2, ConcatAssociative, ConcatProperties
  <2>4. QED
    BY <2>2, <2>3
<1> HIDE DEF e
<1>4. /\ s \in Seq(Step) /\ Len(s) = Len(c) + Len(e)
      /\ \A i \in 1..Len(c) : s[i] = c[i]
      /\ \A i \in 1..Len(e) : s[Len(c) + i] = e[i]
  BY <1>1, <1>2, Joined
<1> HIDE DEF s
<1>5. Len(c) \in Nat /\ Len(s) > 0 /\ s[1] = "socket"
  BY <1>1, <1>2, <1>4
<1> DEFINE t == Tail(s)
<1>6. t \in Seq(Step) /\ Len(t) = Len(s) - 1 /\ \A i \in 1..Len(t) : t[i] = s[i + 1]
  BY <1>4, <1>5, HeadTailProperties
<1> HIDE DEF t
<1>7. Len(t) >= Len(e)
  BY <1>1, <1>2, <1>4, <1>5, <1>6
<1>8. ASSUME NEW i \in 1..Len(t)
      PROVE  IF i <= Len(t) - Len(e) THEN t[i] \in SystemCalls ELSE t[i] = e[i - (Len(t) - Len(e))]
  <2>1. CASE i <= Len(t) - Len(e)
    <3>1. i + 1 \in 2..Len(c) /\ i + 1 \in 1..Len(c)
      BY <1>1, <1>2, <1>4, <1>5, <1>6, <2>1
    <3>2. QED
      BY <1>1, <1>4, <1>6, <2>1, <3>1
  <2>2. CASE ~(i <= Len(t) - Len(e))
    <3> DEFINE j == i - (Len(t) - Len(e))
    <3>1. j \in 1..Len(e) /\ Len(c) + j = i + 1
      BY <1>1, <1>2, <1>4, <1>5, <1>6, <2>2
    <3>2. s[Len(c) + j] = e[j]
      BY <1>4, <3>1
    <3>3. QED
      BY <1>6, <2>2, <3>1, <3>2
  <2>3. QED
    BY <2>1, <2>2
<1>9. Calling(t, p.fragments)
  BY <1>7, <1>8, Endings DEF e
<1>10. QED
  BY <1>3, <1>4, <1>5, <1>9 DEF t

(***************************************************************************)
(* What the invariant says of one state                                    *)
(***************************************************************************)

LEMMA Fields ==
  ASSUME TypeOK
  PROVE  /\ \A l \in Present : l \in Link /\ link[l] \in LinkState /\ link[l] # None
         /\ \A l \in Link : l \notin Present <=> link[l] = None
         /\ listed \subseteq Link /\ listed \subseteq Present /\ owned = listed
         /\ work # None => work \in Work
         /\ lost \subseteq Socket
<1>1. \A l \in Link : link[l] \in LinkState \cup {None}
  BY DEF TypeOK
<1>2. QED
  BY <1>1 DEF TypeOK, Present, Memory

(* Who keeps a link and who uses a descriptor. *)
KeptBy(l) == {k \in Present : link[k].keeper = l}
UsedBy(d) == {l \in Present : link[l].socket = d}
Keeping(l) == work # None /\ work.link = None /\ work.keeper = l

CountsHold ==
  /\ \A l : KeptBy(l) \subseteq Link /\ Cardinality(KeptBy(l)) \in Nat
  /\ \A d : UsedBy(d) \subseteq Link /\ Cardinality(UsedBy(d)) \in Nat
  /\ \A l : Holders(l) = 1 + (IF l \in listed THEN 1 ELSE 0) + (IF l \in owned THEN 1 ELSE 0)
                           + Cardinality(KeptBy(l)) + (IF Keeping(l) THEN 1 ELSE 0)
  /\ \A d : Users(d) = Cardinality(UsedBy(d)) + (IF Holds(d) THEN 1 ELSE 0)

LEMMA Counts == CountsHold
<1>1. \A l : KeptBy(l) \subseteq Link
  BY DEF KeptBy, Present
<1>2. \A d : UsedBy(d) \subseteq Link
  BY DEF UsedBy, Present
<1>3. QED
  BY <1>1, <1>2, LinksCount DEF CountsHold, Holders, Users, KeptBy, UsedBy, Keeping, Holds

(* What the next step of the work tells about it.                          *)
LEMMA Doings ==
  ASSUME OpeningInv, work # None
  PROVE  LET step == work.todo[1]
             rest == Tail(work.todo)
         IN /\ work \in Work
            /\ step = "socket" => /\ Opens(work) /\ Asked(work) /\ Unmade(work) /\ work.socket = None
                                  /\ rest \in Seq(Step) /\ Calling(rest, Fragments(work))
            /\ step \in SystemCalls => /\ Opens(work) /\ Asked(work) /\ Unmade(work) /\ work.socket \in Socket
                                       /\ rest \in Seq(Step) /\ Calling(rest, Fragments(work))
            /\ step \in {"accept", "dup", "acquire"} =>
                 /\ Welcome(work) /\ Unmade(work) /\ work.socket = None
                 /\ step = Taking(work) /\ work.keeper \in {None, Keeper(work)}
                 /\ rest = <<"create", "add">>
            /\ step = "create" =>
                 /\ Unmade(work)
                 /\ \/ /\ Asked(work) /\ work.socket \in Socket
                       /\ rest = IF Fragments(work) THEN <<"fragmenter", "add">> ELSE <<"add">>
                    \/ /\ Welcome(work) /\ work.keeper \in {None, Keeper(work)}
                       /\ rest = <<"add">>
            /\ step = "fragmenter" =>
                 \/ /\ Asked(work) /\ Fragments(work) /\ Made(work, None) /\ rest = <<"add">>
                 \/ /\ Welcome(work) /\ Unmade(work) /\ work.socket = None /\ work.keeper = None
                    /\ work.uri.scheme # "TCP" /\ rest = <<Taking(work), "create", "add">>
            /\ step = "add" =>
                 \/ Asked(work) /\ Made(work, IF Fragments(work) THEN work.link ELSE None)
                 \/ Welcome(work) /\ work.keeper \in {None, Keeper(work)} /\ Made(work, work.keeper)
<1> DEFINE step == work.todo[1]
           rest == Tail(work.todo)
<1>1. work \in Work /\ work.todo \in Seq(Step) /\ Len(work.todo) > 0
  <2>1. work \in Work
    BY DEF OpeningInv, ResourcesCounted, TypeOK
  <2>2. QED
    BY <2>1 DEF OpeningInv, ResourcesCounted, TypeOK, Work
<1>2. rest \in Seq(Step)
  BY <1>1
<1>3. Taking(work) \in {"accept", "dup", "acquire"}
  BY DEF Taking
<1>4. {"socket", "accept", "dup", "acquire", "create", "fragmenter", "add"} \cap SystemCalls = {}
  BY DEF SystemCalls
<1>5. CASE step = "socket" /\ Calling(rest, Fragments(work)) /\ Opens(work) /\ Unmade(work) /\ work.socket = None
  BY <1>1, <1>2, <1>4, <1>5 DEF Opens
<1>6. CASE Opens(work) /\ Calling(work.todo, Fragments(work)) /\ Unmade(work) /\ work.socket \in Socket
  <2>1. Asked(work)
    BY <1>6 DEF Opens
  <2>2. CASE step \in SystemCalls /\ rest \in Seq(Step) /\ Calling(rest, Fragments(work))
    BY <1>1, <1>4, <1>6, <2>1, <2>2
  <2>3. CASE work.todo = Ending(Fragments(work))
    <3>1. step = "create" /\ rest = IF Fragments(work) THEN <<"fragmenter", "add">> ELSE <<"add">>
      BY <2>3, Endings
    <3>2. QED
      BY <1>1, <1>4, <1>6, <2>1, <3>1
  <2>4. QED
    BY <1>1, <1>6, <2>2, <2>3, CallingGoesOn
<1>7. CASE Opens(work) /\ work.todo = <<"fragmenter", "add">> /\ Fragments(work) /\ Made(work, None)
  <2>1. step = "fragmenter" /\ rest = <<"add">>
    BY <1>7
  <2>2. QED
    BY <1>1, <1>4, <1>7, <2>1 DEF Opens
<1>8. CASE Opens(work) /\ work.todo = <<"add">> /\ Made(work, IF Fragments(work) THEN work.link ELSE None)
  <2>1. step = "add"
    BY <1>8
  <2>2. QED
    BY <1>1, <1>4, <1>8, <2>1 DEF Opens
<1>9. CASE /\ Clones(work) /\ work.todo = <<"fragmenter", Taking(work), "create", "add">> /\ work.uri.scheme # "TCP"
           /\ Unmade(work) /\ work.socket = None /\ work.keeper = None
  <2>1. step = "fragmenter" /\ rest = <<Taking(work), "create", "add">>
    BY <1>9
  <2>2. QED
    BY <1>1, <1>4, <1>9, <2>1 DEF Clones
<1>10. CASE /\ Clones(work) /\ work.todo = <<Taking(work), "create", "add">>
            /\ Unmade(work) /\ work.socket = None /\ work.keeper \in {None, Keeper(work)}
  <2>1. step = Taking(work) /\ rest = <<"create", "add">>
    BY <1>10
  <2>2. QED
    BY <1>1, <1>3, <1>4, <1>10, <2>1 DEF Clones
<1>11. CASE Clones(work) /\ work.todo = <<"create", "add">> /\ Unmade(work) /\ work.keeper \in {None, Keeper(work)}
  <2>1. step = "create" /\ rest = <<"add">>
    BY <1>11
  <2>2. QED
    BY <1>1, <1>4, <1>11, <2>1 DEF Clones
<1>12. CASE Clones(work) /\ work.todo = <<"add">> /\ Made(work, work.keeper) /\ work.keeper \in {None, Keeper(work)}
  <2>1. step = "add"
    BY <1>12
  <2>2. QED
    BY <1>1, <1>4, <1>12, <2>1 DEF Clones
<1>13. Opens(work) \/ Clones(work)
  BY DEF OpeningInv, WorkInv
<1>14. CASE Opens(work)
  BY <1>14, <1>5, <1>6, <1>7, <1>8 DEF Opens
<1>15. CASE Clones(work)
  BY <1>15, <1>9, <1>10, <1>11, <1>12 DEF Clones
<1>16. QED
  BY <1>13, <1>14, <1>15

(* Who keeps a link is in the lists, or keeps itself.                      *)
LEMMA Keepers ==
  ASSUME OpeningInv
  PROVE  /\ \A l \in Present : link[l].keeper # None =>
              link[l].keeper = l \/ link[l].keeper \in listed
         /\ \A l \in Link : Keeping(l) => l \in listed
         /\ work # None /\ Asked(work) => \A l \in Link : ~Keeping(l)
         /\ work # None /\ work.link # None => \A l : ~Keeping(l) /\ ~Holds(l)
<1>1. \A l \in Link : l # None
  BY Numbered
<1>2. ASSUME work # None, Clones(work), NEW l \in Link, work.keeper = l
      PROVE  l \in listed
  <2>1. work.keeper \in {None, Keeper(work)}
    BY <1>2 DEF Clones
  <2>2. work.of \in listed
    BY <1>2 DEF Clones, Welcome
  <2>3. QED
    BY <1>1, <1>2, <2>1, <2>2 DEF Keeper
<1>3. QED
  BY <1>1, <1>2 DEF OpeningInv, LinkInv, WorkInv, Keeping, Holds, Opens, Asked

LEMMA Freed ==
  ASSUME OpeningInv
  PROVE  /\ \A d \in Unused : d \notin lost /\ UsedBy(d) = {} /\ ~Holds(d)
         /\ \A l \in Link \ Present : KeptBy(l) = {} /\ ~Keeping(l) /\ l \notin listed
<1>1. ASSUME NEW d \in Unused
      PROVE  d \notin lost /\ UsedBy(d) = {} /\ ~Holds(d)
  <2>1. shares[d] = 0 /\ d \in Socket
    BY DEF Unused
  <2>2. shares[d] = Users(d) + (IF d \in lost THEN 1 ELSE 0)
    BY <2>1 DEF OpeningInv, ResourcesCounted
  <2>3. /\ Cardinality(UsedBy(d)) \in Nat /\ UsedBy(d) \subseteq Link
        /\ Users(d) = Cardinality(UsedBy(d)) + (IF Holds(d) THEN 1 ELSE 0)
    BY Counts DEF CountsHold
  <2>4. d \notin lost /\ ~Holds(d) /\ Cardinality(UsedBy(d)) = 0
    BY <2>1, <2>2, <2>3
  <2>5. QED
    BY <2>3, <2>4, LinksCount, FS_EmptySet
<1>2. ASSUME NEW l \in Link \ Present
      PROVE  KeptBy(l) = {} /\ ~Keeping(l) /\ l \notin listed
  <2>1. listed \subseteq Present
    BY DEF OpeningInv, ResourcesCounted, TypeOK
  <2>2. l # None
    BY Numbered
  <2>3. QED
    BY <2>1, <2>2, Keepers DEF KeptBy
<1>3. QED
  BY <1>1, <1>2

(***************************************************************************)
(* Steps that change only what is left to do                               *)
(***************************************************************************)
LEMMA OnlyWork ==
  ASSUME OpeningInv, UNCHANGED <<link, shares, lists, lost>>,
         work' \in Work, Len(work'.todo) > 0,
         work' # None => Opens(work)' \/ Clones(work)',
         work = None \/ work'.link = work.link,
         \A l \in Link : Keeping(l)' <=> Keeping(l),
         \A d \in Socket : Holds(d)' <=> Holds(d),
         \A d \in Socket : Holds(d) => work'.of = work.of /\ work'.uri = work.uri
  PROVE  OpeningInv'
<1>0. CountsHold'
  BY Counts, PTL
<1>1. link' = link /\ shares' = shares /\ listed' = listed /\ owned' = owned /\ lost' = lost
  BY DEF lists
<1>2. Present' = Present /\ Unused' = Unused
  BY <1>1 DEF Present, Memory, Unused
<1>3. work' # None
  BY Numbered
<1>4. TypeOK'
  <2>1. Present' \subseteq listed' \cup (IF NoWork' THEN {} ELSE {work'.link})
    BY <1>1, <1>2, <1>3 DEF OpeningInv, ResourcesCounted, TypeOK, NoWork
  <2>2. QED
    BY <1>1, <1>2, <2>1 DEF OpeningInv, ResourcesCounted, TypeOK
<1>5. \A l \in Present' : link'[l].refs = Holders(l)'
  <2>1. \A l \in Link : Holders(l)' = Holders(l)
    <3>1. \A l : KeptBy(l)' = KeptBy(l)
      BY <1>1, <1>2 DEF KeptBy
    <3> SUFFICES ASSUME NEW l \in Link PROVE Holders(l)' = Holders(l)
      OBVIOUS
    <3>2. Holders(l) = 1 + (IF l \in listed THEN 1 ELSE 0) + (IF l \in owned THEN 1 ELSE 0)
                         + Cardinality(KeptBy(l)) + (IF Keeping(l) THEN 1 ELSE 0)
      BY Counts DEF CountsHold
    <3>3. Holders(l)' = 1 + (IF l \in listed' THEN 1 ELSE 0) + (IF l \in owned' THEN 1 ELSE 0)
                         + Cardinality(KeptBy(l)') + (IF Keeping(l)' THEN 1 ELSE 0)
      BY <1>0 DEF CountsHold
    <3>4. QED
      BY <1>1, <3>1, <3>2, <3>3
  <2>2. \A l \in Present : l \in Link
    BY DEF Present
  <2>3. QED
    BY <1>1, <1>2, <2>1, <2>2 DEF OpeningInv, ResourcesCounted
<1>6. \A d \in Socket : shares'[d] = Users(d)' + (IF d \in lost' THEN 1 ELSE 0)
  <2> SUFFICES ASSUME NEW d \in Socket PROVE Users(d)' = Users(d)
    BY <1>1 DEF OpeningInv, ResourcesCounted
  <2>1. UsedBy(d)' = UsedBy(d)
    BY <1>1, <1>2 DEF UsedBy
  <2>2. Users(d) = Cardinality(UsedBy(d)) + (IF Holds(d) THEN 1 ELSE 0)
    BY Counts DEF CountsHold
  <2>3. Users(d)' = Cardinality(UsedBy(d)') + (IF Holds(d)' THEN 1 ELSE 0)
    BY <1>0 DEF CountsHold
  <2>4. QED
    BY <2>1, <2>2, <2>3
<1>7. WorkInv'
  BY <1>3 DEF WorkInv
<1>8. LinkInv'
  BY <1>1, <1>2 DEF OpeningInv, LinkInv
<1>9. SocketInv'
  <2>1. \A l \in Present : link[l].socket = None \/ link[l].socket \in Socket
    BY Fields DEF OpeningInv, ResourcesCounted, LinkState
  <2>2. lost \subseteq Socket
    BY Fields DEF OpeningInv, ResourcesCounted
  <2>3. \A l \in Present : Holds(link[l].socket)' /\ link[l].socket # None =>
           work'.of # None /\ work'.uri.scheme = "ETH" /\ link[l].uri.scheme = "ETH"
    BY <1>1, <2>1 DEF OpeningInv, SocketInv, Holds
  <2>4. \A d \in lost : ~Holds(d)'
    BY <1>1, <2>2 DEF OpeningInv, SocketInv
  <2>5. \A l \in Present' : Holds(link[l].socket)' /\ link'[l].socket # None =>
           work'.of # None /\ work'.uri.scheme = "ETH" /\ link'[l].uri.scheme = "ETH"
    BY <1>1, <1>2, <2>3 DEF Holds
  <2>6. \A d \in lost' : ~Holds(d)'
    BY <1>1, <2>4 DEF Holds
  <2>7. QED
    BY <1>1, <1>2, <2>5, <2>6 DEF OpeningInv, SocketInv
<1>10. QED
  BY <1>4, <1>5, <1>6, <1>7, <1>8, <1>9 DEF OpeningInv, ResourcesCounted

LEMMA OpenBegins ==
  ASSUME OpeningInv, NEW u \in Uri, BeginOpen(u)
  PROVE  OpeningInv'
<1>1. PICK p : p = Parameters(u)
  OBVIOUS
<1>2. /\ work = None /\ p # Malformed
      /\ UNCHANGED <<link, shares, lists, lost>> /\ Memory # {}
      /\ work' = [uri |-> u, of |-> None, listens |-> p.listens, forced |-> p.forced,
                  name |-> IF p.name = None THEN u.at ELSE p.name,
                  todo |-> Steps(u, p), socket |-> None, keeper |-> None, link |-> None]
  BY <1>1 DEF BeginOpen, NoWork, Room
<1>3. p \in ParameterSet
  BY <1>1, <1>2, MeaningOfURI
<1>4. /\ Steps(u, p) \in Seq(Step) /\ Len(Steps(u, p)) > 0
      /\ Steps(u, p)[1] = "socket" /\ Calling(Tail(Steps(u, p)), p.fragments)
  BY <1>3, StepsOfOpen
<1>5. u.at \in Name
  BY OpeningAssumption
<1>6. work' \in Work /\ Len(work'.todo) > 0
  <2>1. (IF p.name = None THEN u.at ELSE p.name) \in Name
    BY <1>3, <1>5 DEF ParameterSet
  <2>2. p.listens \in BOOLEAN /\ p.forced \in Forced \cup {None}
    BY <1>3 DEF ParameterSet
  <2>3. QED
    BY <1>2, <1>4, <2>1, <2>2 DEF Work
<1>7. Memory' # {}
  BY <1>2 DEF Memory
<1>8. Opens(work)'
  <2>1. /\ work'.uri = u /\ work'.of = None /\ work'.keeper = None /\ work'.link = None /\ work'.socket = None
        /\ work'.listens = p.listens /\ work'.forced = p.forced /\ work'.todo = Steps(u, p)
        /\ work'.name = IF p.name = None THEN u.at ELSE p.name
    BY <1>2
  <2>2. Asked(work)'
    BY <1>1, <1>2, <2>1 DEF Asked
  <2>3. Fragments(work)' = p.fragments
    BY <1>1, <2>1 DEF Fragments
  <2>4. Unmade(work)'
    BY <1>7, <2>1 DEF Unmade
  <2>5. Calling(Tail(work.todo), Fragments(work))'
    BY <1>4, <2>1, <2>3
  <2>6. QED
    BY <1>4, <2>1, <2>2, <2>4, <2>5 DEF Opens
<1>9. /\ \A l \in Link : ~Keeping(l)' /\ ~Keeping(l)
      /\ \A d \in Socket : ~Holds(d)' /\ ~Holds(d)
  BY <1>2, Numbered DEF Keeping, Holds
<1>10. QED
  BY <1>2, <1>6, <1>8, <1>9, OnlyWork

LEMMA CloneBegins ==
  ASSUME OpeningInv, NEW k \in Link, NEW n \in PeerName, BeginClone(k, n)
  PROVE  OpeningInv'
<1>1. /\ work = None /\ k \in listed /\ link[k].listens
      /\ UNCHANGED <<link, shares, lists, lost>> /\ Memory # {}
      /\ work' = [uri |-> link[k].uri, of |-> k, listens |-> FALSE, forced |-> link[k].forced,
                  name |-> n, todo |-> CloneSteps(k), socket |-> None, keeper |-> None, link |-> None]
  BY DEF BeginClone, NoWork, Room
<1>2. link[k] \in LinkState /\ k \in Present
  BY <1>1, Fields DEF OpeningInv, ResourcesCounted
<1>3. link[k].uri \in Uri /\ link[k].uri.scheme \in Scheme /\ link[k].forced \in Forced \cup {None} /\ n \in Name
  BY <1>2, OpeningAssumption DEF LinkState
<1> DEFINE peer == Taking(work)'
<1>4. /\ work'.uri = link[k].uri /\ work'.of = k /\ work'.keeper = None /\ work'.link = None /\ work'.socket = None
      /\ ~work'.listens /\ work'.forced = link[k].forced /\ work'.todo = CloneSteps(k)
  BY <1>1
<1>5. work'.todo = IF work'.uri.scheme = "TCP" THEN <<peer, "create", "add">>
                   ELSE <<"fragmenter", peer, "create", "add">>
  BY <1>3, <1>4 DEF CloneSteps, Taking, Scheme
<1>6. peer \in Step
  BY DEF Taking, Step
<1>7. work'.todo \in Seq(Step) /\ Len(work'.todo) > 0
  <2> HIDE DEF peer
  <2>1. CASE work'.uri.scheme = "TCP"
    BY <1>5, <1>6, <2>1 DEF Step
  <2>2. CASE work'.uri.scheme # "TCP"
    BY <1>5, <1>6, <2>2 DEF Step
  <2>3. QED
    BY <2>1, <2>2
<1>8. work' \in Work
  BY <1>1, <1>3, <1>4, <1>7 DEF Work
<1>9. listed' = listed /\ link' = link /\ Memory' # {}
  BY <1>1 DEF lists, Memory
<1>10. Clones(work)'
  <2>1. Welcome(work)'
    BY <1>1, <1>4, <1>9 DEF Welcome
  <2>2. Unmade(work)'
    BY <1>4, <1>9 DEF Unmade
  <2>3. CASE work'.uri.scheme = "TCP"
    <3>1. link[k].keeper = None
      BY <1>2, <1>4, <2>3 DEF OpeningInv, LinkInv
    <3>2. Keeper(work)' = None
      BY <1>4, <1>9, <3>1 DEF Keeper
    <3>3. QED
      BY <1>4, <1>5, <2>1, <2>2, <2>3, <3>2 DEF Clones
  <2>4. CASE work'.uri.scheme # "TCP"
    BY <1>4, <1>5, <2>1, <2>2, <2>4 DEF Clones
  <2>5. QED
    BY <2>3, <2>4
<1>11. /\ \A l \in Link : ~Keeping(l)' /\ ~Keeping(l)
       /\ \A d \in Socket : ~Holds(d)' /\ ~Holds(d)
  BY <1>1, <1>4, Numbered DEF Keeping, Holds
<1>12. QED
  BY <1>1, <1>7, <1>8, <1>10, <1>11, OnlyWork

(* The work goes on as it was, but for what is left to do.                 *)
LEMMA CallMade ==
  ASSUME OpeningInv, Call
  PROVE  OpeningInv'
<1>1. work # None /\ work.todo[1] \in SystemCalls /\ UNCHANGED <<link, shares, lists, lost>>
      /\ work' = [work EXCEPT !.todo = Tail(work.todo)]
  BY DEF Call, Doing, Done
<1> DEFINE rest == Tail(work.todo)
<1>2. /\ work \in Work /\ Asked(work) /\ Unmade(work) /\ work.socket \in Socket
      /\ rest \in Seq(Step) /\ Calling(rest, Fragments(work))
  BY <1>1, Doings
<1>3. Len(rest) > 0
  BY <1>2, CallingGoesOn
<1>4. /\ work' \in Work /\ work'.todo = rest /\ work'.uri = work.uri /\ work'.of = work.of
      /\ work'.name = work.name /\ work'.listens = work.listens /\ work'.forced = work.forced
      /\ work'.socket = work.socket /\ work'.keeper = work.keeper /\ work'.link = work.link
  BY <1>1, <1>2 DEF Work
<1> HIDE DEF rest
<1>5. link' = link /\ Memory' = Memory /\ work' # None
  BY <1>1, <1>4, Numbered DEF lists, Memory
<1>6. Opens(work)'
  <2>1. Asked(work)'
    BY <1>2, <1>4 DEF Asked
  <2>2. Unmade(work)'
    BY <1>2, <1>4, <1>5 DEF Unmade
  <2>3. Calling(work.todo, Fragments(work))'
    BY <1>2, <1>4 DEF Fragments
  <2>4. QED
    BY <1>2, <1>4, <2>1, <2>2, <2>3 DEF Opens
<1>7. /\ \A l \in Link : Keeping(l)' <=> Keeping(l)
      /\ \A d \in Socket : Holds(d)' <=> Holds(d)
  BY <1>1, <1>4, <1>5 DEF Keeping, Holds
<1>8. QED
  BY <1>1, <1>3, <1>4, <1>6, <1>7, OnlyWork

LEMMA NoDescriptorForClone ==
  ASSUME OpeningInv, TakeSocket, Unused = {}
  PROVE  OpeningInv'
<1>1. work # None /\ work.todo[1] = "dup" /\ UNCHANGED <<link, shares, lists, lost>>
      /\ work' = [work EXCEPT !.todo = Tail(work.todo)]
  BY DEF TakeSocket, Doing, Done
<1>2. /\ work \in Work /\ Welcome(work) /\ Unmade(work) /\ work.keeper \in {None, Keeper(work)}
      /\ Tail(work.todo) = <<"create", "add">>
  BY <1>1, Doings
<1>3. /\ work' \in Work /\ work'.todo = <<"create", "add">> /\ work'.uri = work.uri /\ work'.of = work.of
      /\ work'.name = work.name /\ work'.listens = work.listens /\ work'.forced = work.forced
      /\ work'.socket = work.socket /\ work'.keeper = work.keeper /\ work'.link = work.link
  <2>1. <<"create", "add">> \in Seq(Step)
    BY DEF Step
  <2>2. QED
    BY <1>1, <1>2, <2>1 DEF Work
<1>4. link' = link /\ listed' = listed /\ Memory' = Memory /\ work' # None
  BY <1>1, <1>3, Numbered DEF lists, Memory
<1>5. Clones(work)'
  <2>1. Welcome(work)' /\ Unmade(work)'
    BY <1>2, <1>3, <1>4 DEF Welcome, Unmade
  <2>2. Keeper(work)' = Keeper(work)
    BY <1>3, <1>4 DEF Keeper
  <2>3. QED
    BY <1>2, <1>3, <2>1, <2>2 DEF Clones
<1>6. /\ \A l \in Link : Keeping(l)' <=> Keeping(l)
      /\ \A d \in Socket : Holds(d)' <=> Holds(d)
  BY <1>1, <1>3, <1>4 DEF Keeping, Holds
<1>7. Len(work'.todo) > 0
  BY <1>3
<1>8. QED
  BY <1>1, <1>3, <1>5, <1>6, <1>7, OnlyWork

(***************************************************************************)
(* Steps that leave what links are as it is                                *)
(***************************************************************************)
SameShape(l) ==
  /\ link'[l].uri = link[l].uri /\ link'[l].of = link[l].of /\ link'[l].name = link[l].name
  /\ link'[l].listens = link[l].listens /\ link'[l].forced = link[l].forced
  /\ link'[l].socket = link[l].socket /\ link'[l].keeper = link[l].keeper

LEMMA ShapesStay ==
  ASSUME OpeningInv, Present' = Present, listed \subseteq listed', \A l \in Present : SameShape(l)
  PROVE  /\ LinkInv'
         /\ \A l : KeptBy(l)' = KeptBy(l)
         /\ \A d : UsedBy(d)' = UsedBy(d)
<1>1. listed \subseteq Present
  BY DEF OpeningInv, ResourcesCounted, TypeOK
<1>2. ASSUME NEW l \in Present
      PROVE  /\ link'[l].listens => link'[l].of = None
             /\ link'[l].keeper # None => /\ link'[l].uri.scheme # "TCP"
                                          /\ link'[l].keeper = IF link'[l].of = None THEN l ELSE link'[l].of
             /\ link'[l].of # None /\ link'[l].uri.scheme # "TCP" =>
                  /\ link'[l].of \in listed' /\ link'[link'[l].of].listens
                  /\ link'[link'[l].of].uri = link'[l].uri
  BY <1>1 DEF OpeningInv, LinkInv, SameShape
<1>3. LinkInv'
  BY <1>2 DEF LinkInv
<1>4. \A l : KeptBy(l)' = KeptBy(l)
  BY DEF KeptBy, SameShape
<1>5. \A d : UsedBy(d)' = UsedBy(d)
  BY DEF UsedBy, SameShape
<1>6. QED
  BY <1>3, <1>4, <1>5

(* A link that is being made gets a socket, a new one or one that is shared.*)
LEMMA SocketTaken ==
  ASSUME OpeningInv, work # None, work.link = None, work.socket = None, NEW d \in Socket \cup {None},
         d \notin lost,
         \A l \in Present : link[l].socket = d /\ d # None =>
           work.of # None /\ work.uri.scheme = "ETH" /\ link[l].uri.scheme = "ETH",
         UNCHANGED <<link, lists, lost>>,
         shares' = [x \in Socket |-> IF x = d THEN shares[x] + 1 ELSE shares[x]],
         work' \in Work, Len(work'.todo) > 0, work'.socket = d, work'.keeper = work.keeper,
         work'.link = None, work'.of = work.of, work'.uri = work.uri,
         Opens(work)' \/ Clones(work)'
  PROVE  OpeningInv'
<1>0. CountsHold'
  BY Counts, PTL
<1>1. link' = link /\ listed' = listed /\ owned' = owned /\ lost' = lost
  BY DEF lists
<1>2. Present' = Present /\ \A l \in Present : SameShape(l)
  BY <1>1 DEF Present, Memory, SameShape
<1>3. work' # None
  BY Numbered
<1>4. /\ LinkInv'
      /\ \A l : KeptBy(l)' = KeptBy(l)
      /\ \A x : UsedBy(x)' = UsedBy(x)
  BY <1>1, <1>2, ShapesStay
<1>5. shares \in [Socket -> Nat] /\ lost \subseteq Socket \ Unused
  BY DEF OpeningInv, ResourcesCounted, TypeOK
<1>6. TypeOK'
  <2>1. shares' \in [Socket -> Nat]
    BY <1>5
  <2>2. lost' \subseteq Socket \ Unused'
    BY <1>1, <1>5 DEF Unused
  <2>3. Present' \subseteq listed' \cup (IF NoWork' THEN {} ELSE {work'.link})
    BY <1>1, <1>2, <1>3 DEF OpeningInv, ResourcesCounted, TypeOK, NoWork
  <2>4. QED
    BY <1>1, <1>2, <2>1, <2>2, <2>3 DEF OpeningInv, ResourcesCounted, TypeOK
<1>7. ASSUME NEW l \in Present
      PROVE  link'[l].refs = Holders(l)'
  <2>1. Keeping(l)' <=> Keeping(l)
    BY <1>3 DEF Keeping
  <2>2. link[l].refs = Holders(l)
    BY DEF OpeningInv, ResourcesCounted
  <2>3. Holders(l) = 1 + (IF l \in listed THEN 1 ELSE 0) + (IF l \in owned THEN 1 ELSE 0)
                       + Cardinality(KeptBy(l)) + (IF Keeping(l) THEN 1 ELSE 0)
    BY Counts DEF CountsHold
  <2>4. Holders(l)' = 1 + (IF l \in listed' THEN 1 ELSE 0) + (IF l \in owned' THEN 1 ELSE 0)
                       + Cardinality(KeptBy(l)') + (IF Keeping(l)' THEN 1 ELSE 0)
    BY <1>0 DEF CountsHold
  <2>5. QED
    BY <1>1, <1>4, <2>1, <2>2, <2>3, <2>4
<1>8. \A x \in Socket : ~Holds(x) /\ (Holds(x)' <=> x = d)
  BY <1>3, Numbered DEF Holds
<1>9. ASSUME NEW x \in Socket
      PROVE  shares'[x] = Users(x)' + (IF x \in lost' THEN 1 ELSE 0)
  <2>1. shares[x] = Users(x) + (IF x \in lost THEN 1 ELSE 0)
    BY DEF OpeningInv, ResourcesCounted
  <2>2. Users(x) = Cardinality(UsedBy(x)) + (IF Holds(x) THEN 1 ELSE 0) /\ Cardinality(UsedBy(x)) \in Nat
    BY Counts DEF CountsHold
  <2>3. Users(x)' = Cardinality(UsedBy(x)') + (IF Holds(x)' THEN 1 ELSE 0)
    BY <1>0 DEF CountsHold
  <2>4. shares'[x] = IF x = d THEN shares[x] + 1 ELSE shares[x]
    OBVIOUS
  <2>5. QED
    BY <1>1, <1>4, <1>8, <2>1, <2>2, <2>3, <2>4
<1>10. SocketInv'
  <2>1. \A l \in Present : link[l].socket = None \/ link[l].socket \in Socket
    BY Fields DEF OpeningInv, ResourcesCounted, LinkState
  <2>2. \A l \in Present : Holds(link[l].socket)' /\ link[l].socket # None => link[l].socket = d
    BY <1>1, <2>1 DEF Holds
  <2>3. \A l \in Present : Holds(link[l].socket)' /\ link[l].socket # None =>
           work'.of # None /\ work'.uri.scheme = "ETH" /\ link[l].uri.scheme = "ETH"
    <3> SUFFICES ASSUME NEW l \in Present, Holds(link[l].socket)', link[l].socket # None
                 PROVE  work'.of # None /\ work'.uri.scheme = "ETH" /\ link[l].uri.scheme = "ETH"
      OBVIOUS
    <3>1. link[l].socket = d
      BY <2>2
    <3>2. QED
      BY <3>1
  <2>4. \A x \in lost' : ~Holds(x)'
    BY <1>1, <1>5, <1>8
  <2>5. \A l \in Present' : Holds(link[l].socket)' /\ link'[l].socket # None =>
           work'.of # None /\ work'.uri.scheme = "ETH" /\ link'[l].uri.scheme = "ETH"
    BY <1>1, <1>2, <2>3 DEF Holds
  <2>6. QED
    BY <1>1, <1>2, <2>4, <2>5 DEF OpeningInv, SocketInv
<1>11. QED
  BY <1>2, <1>4, <1>6, <1>7, <1>9, <1>10 DEF OpeningInv, ResourcesCounted, WorkInv

(* What a step that gives the link a socket leaves to do.                  *)
LEMMA SocketGiven ==
  ASSUME OpeningInv, work # None, NEW d \in Socket \cup {None},
         \/ work.todo[1] = "socket" /\ d \in Socket
         \/ work.todo[1] \in {"accept", "dup", "acquire"},
         UNCHANGED <<link, lists, lost>>,
         work' = [work EXCEPT !.socket = d, !.todo = Tail(work.todo)]
  PROVE  /\ work' \in Work /\ Len(work'.todo) > 0 /\ work'.socket = d /\ work'.keeper = work.keeper
         /\ work'.link = None /\ work.link = None /\ work'.of = work.of /\ work'.uri = work.uri
         /\ work.socket = None
         /\ Opens(work)' \/ Clones(work)'
<1>1. /\ work \in Work /\ Unmade(work) /\ work.socket = None
      /\ \/ /\ Asked(work) /\ d \in Socket
            /\ Tail(work.todo) \in Seq(Step) /\ Calling(Tail(work.todo), Fragments(work))
         \/ /\ Welcome(work) /\ work.keeper \in {None, Keeper(work)}
            /\ Tail(work.todo) = <<"create", "add">>
  BY Doings
<1>2. Tail(work.todo) \in Seq(Step) /\ Len(Tail(work.todo)) > 0
  <2>1. <<"create", "add">> \in Seq(Step) /\ Len(<<"create", "add">>) = 2
    BY DEF Step
  <2>2. CASE Tail(work.todo) = <<"create", "add">>
    <3>1. PICK s : s = Tail(work.todo)
      OBVIOUS
    <3>2. s = <<"create", "add">>
      BY <2>2, <3>1
    <3>3. s \in Seq(Step) /\ Len(s) > 0
      BY <2>1, <3>2
    <3>4. QED
      BY <3>1, <3>3
  <2>3. CASE Tail(work.todo) \in Seq(Step) /\ Calling(Tail(work.todo), Fragments(work))
    <3>1. PICK s : s = Tail(work.todo)
      OBVIOUS
    <3>2. Len(s) > 0
      BY <2>3, <3>1, CallingGoesOn
    <3>3. QED
      BY <2>3, <3>1, <3>2
  <2>4. QED
    BY <1>1, <2>2, <2>3
<1>3. /\ work' \in Work /\ work'.todo = Tail(work.todo) /\ work'.uri = work.uri /\ work'.of = work.of
      /\ work'.name = work.name /\ work'.listens = work.listens /\ work'.forced = work.forced
      /\ work'.socket = d /\ work'.keeper = work.keeper /\ work'.link = work.link
  BY <1>1, <1>2 DEF Work
<1>4. link' = link /\ listed' = listed /\ Memory' = Memory /\ work' # None
  BY <1>3, Numbered DEF lists, Memory
<1>5. Unmade(work)' /\ work.link = None
  BY <1>1, <1>3, <1>4 DEF Unmade
<1>6. CASE Asked(work) /\ d \in Socket /\ Calling(Tail(work.todo), Fragments(work))
  <2>1. Asked(work)'
    BY <1>3, <1>6 DEF Asked
  <2>2. Calling(work.todo, Fragments(work))'
    BY <1>3, <1>6 DEF Fragments
  <2>3. QED
    BY <1>1, <1>2, <1>3, <1>5, <1>6, <2>1, <2>2 DEF Opens
<1>7. CASE Welcome(work) /\ work.keeper \in {None, Keeper(work)} /\ Tail(work.todo) = <<"create", "add">>
  <2>1. Welcome(work)'
    BY <1>3, <1>4, <1>7 DEF Welcome
  <2>2. Keeper(work)' = Keeper(work)
    BY <1>3, <1>4 DEF Keeper
  <2>3. QED
    BY <1>1, <1>2, <1>3, <1>5, <1>7, <2>1, <2>2 DEF Clones
<1>8. QED
  BY <1>1, <1>6, <1>7

LEMMA DescriptorTaken ==
  ASSUME OpeningInv, TakeSocket, Unused # {}
  PROVE  OpeningInv'
<1> DEFINE d == Least(Unused)
<1>1. /\ work # None /\ work.todo[1] \in {"socket", "accept", "dup"}
      /\ UNCHANGED <<link, lists, lost>>
      /\ work' = [work EXCEPT !.socket = d, !.todo = Tail(work.todo)]
      /\ shares' = [shares EXCEPT ![d] = 1]
  BY DEF TakeSocket, Doing, Done
<1>2. d \in Unused
  <2>1. Unused \subseteq Nat
    BY Numbered DEF Unused
  <2>2. QED
    BY <2>1, LeastIn
<1> HIDE DEF d
<1>3. d \in Socket /\ shares[d] = 0 /\ d \notin lost /\ UsedBy(d) = {}
  BY <1>2, Freed DEF Unused
<1>4. \A l \in Present : link[l].socket # d
  BY <1>3 DEF UsedBy
<1>5. shares' = [x \in Socket |-> IF x = d THEN shares[x] + 1 ELSE shares[x]]
  <2>1. shares \in [Socket -> Nat]
    BY DEF OpeningInv, ResourcesCounted, TypeOK
  <2>2. shares' = [shares EXCEPT ![d] = 1] /\ shares[d] + 1 = 1
    BY <1>1, <1>3
  <2>3. QED
    BY <1>3, <2>1, <2>2
<1>6. /\ work' \in Work /\ Len(work'.todo) > 0 /\ work'.socket = d /\ work'.keeper = work.keeper
      /\ work'.link = None /\ work.link = None /\ work'.of = work.of /\ work'.uri = work.uri
      /\ work.socket = None
      /\ Opens(work)' \/ Clones(work)'
  BY <1>1, <1>3, SocketGiven
<1>7. QED
  BY <1>1, <1>3, <1>4, <1>5, <1>6, SocketTaken

LEMMA DescriptorShared ==
  ASSUME OpeningInv, ShareSocket
  PROVE  OpeningInv'
<1> DEFINE k == work.of
           d == link[k].socket
<1>1. /\ work # None /\ work.todo[1] = "acquire"
      /\ UNCHANGED <<link, lists, lost>>
      /\ work' = [work EXCEPT !.socket = d, !.todo = Tail(work.todo)]
      /\ shares' = [shares EXCEPT ![d] = @ + 1]
  BY DEF ShareSocket, Doing, Done
<1>2. /\ work \in Work /\ k \in listed /\ link[k].uri = work.uri /\ Taking(work) = "acquire"
  BY <1>1, Doings DEF Welcome
<1>3. work.uri.scheme = "ETH"
  <2>1. work.uri.scheme \in Scheme
    BY <1>2, OpeningAssumption DEF Work
  <2>2. QED
    BY <1>2, <2>1 DEF Taking, Scheme
<1>4. k \in Present /\ k \in Link /\ k # None /\ d \in Socket \cup {None}
  BY <1>2, Fields, Numbered DEF OpeningInv, ResourcesCounted, LinkState
<1>5. d \notin lost
  BY <1>4 DEF OpeningInv, SocketInv
<1>6. \A l \in Present : link[l].socket = d /\ d # None =>
           work.of # None /\ work.uri.scheme = "ETH" /\ link[l].uri.scheme = "ETH"
  BY <1>2, <1>3, <1>4 DEF OpeningInv, SocketInv
<1> HIDE DEF d
<1>7. shares' = [x \in Socket |-> IF x = d THEN shares[x] + 1 ELSE shares[x]]
  <2>1. shares \in [Socket -> Nat]
    BY DEF OpeningInv, ResourcesCounted, TypeOK
  <2>2. CASE d \in Socket
    <3>1. shares' = [shares EXCEPT ![d] = shares[d] + 1]
      BY <1>1
    <3>2. QED
      BY <2>1, <2>2, <3>1
  <2>3. CASE d \notin Socket
    <3>1. shares' = shares
      BY <1>1, <2>1, <2>3
    <3>2. QED
      BY <2>1, <2>3, <3>1
  <2>4. QED
    BY <2>2, <2>3
<1>8. /\ work' \in Work /\ Len(work'.todo) > 0 /\ work'.socket = d /\ work'.keeper = work.keeper
      /\ work'.link = None /\ work.link = None /\ work'.of = work.of /\ work'.uri = work.uri
      /\ work.socket = None
      /\ Opens(work)' \/ Clones(work)'
  BY <1>1, <1>4, SocketGiven
<1>9. QED
  BY <1>1, <1>4, <1>5, <1>6, <1>7, <1>8, SocketTaken

LEMMA FragmenterForClone ==
  ASSUME OpeningInv, CreateFragmenter, work.of # None
  PROVE  OpeningInv'
<1> DEFINE k == work.of
<1>1. work # None /\ work.todo[1] = "fragmenter" /\ UNCHANGED <<shares, lists, lost>>
  BY DEF CreateFragmenter, Doing
<1>2. /\ work \in Work /\ Welcome(work) /\ Unmade(work) /\ work.socket = None /\ work.keeper = None
      /\ work.uri.scheme # "TCP" /\ Tail(work.todo) = <<Taking(work), "create", "add">>
  BY <1>1, Doings DEF Asked
<1>3. PICK rest : rest = Tail(work.todo)
  OBVIOUS
<1>4. rest \in Seq(Step) /\ Len(rest) > 0
  <2>1. Taking(work) \in Step /\ "create" \in Step /\ "add" \in Step
    BY DEF Taking, Step
  <2>2. rest = <<Taking(work), "create", "add">>
    BY <1>2, <1>3
  <2>3. QED
    BY <2>1, <2>2
<1>5. k \in listed /\ k \in Present /\ k \in Link /\ k # None /\ link[k] \in LinkState
  BY <1>2, Fields, Numbered DEF Welcome, OpeningInv, ResourcesCounted
<1>6. CASE link[k].keeper = None
  <2>1. link' = link /\ work' = [work EXCEPT !.todo = rest]
    BY <1>3, <1>6 DEF CreateFragmenter, Done
  <2>2. /\ work' \in Work /\ work'.todo = rest /\ work'.uri = work.uri /\ work'.of = work.of
        /\ work'.name = work.name /\ work'.listens = work.listens /\ work'.forced = work.forced
        /\ work'.socket = work.socket /\ work'.keeper = work.keeper /\ work'.link = work.link
    BY <1>2, <1>4, <2>1 DEF Work
  <2>3. listed' = listed /\ Memory' = Memory /\ work' # None
    BY <1>1, <2>1, <2>2, Numbered DEF lists, Memory
  <2>4. Clones(work)'
    <3>1. Welcome(work)' /\ Unmade(work)'
      BY <1>2, <2>1, <2>2, <2>3 DEF Welcome, Unmade
    <3>2. Keeper(work)' = None
      BY <1>6, <2>1, <2>2 DEF Keeper
    <3>3. Taking(work)' = Taking(work)
      BY <2>2 DEF Taking
    <3>4. QED
      BY <1>2, <1>3, <2>2, <3>1, <3>2, <3>3 DEF Clones
  <2>5. /\ \A l \in Link : Keeping(l)' <=> Keeping(l)
        /\ \A d \in Socket : Holds(d)' <=> Holds(d)
    BY <1>1, <2>2, <2>3 DEF Keeping, Holds
  <2>6. QED
    BY <1>1, <1>4, <2>1, <2>2, <2>4, <2>5, OnlyWork
<1>7. CASE link[k].keeper # None
  <2>0. CountsHold'
    BY Counts, PTL
  <2>1. link' = [link EXCEPT ![k].refs = @ + 1] /\ work' = [work EXCEPT !.keeper = k, !.todo = rest]
    BY <1>3, <1>7 DEF CreateFragmenter, Done, KeepFor
  <2>2. /\ work' \in Work /\ work'.todo = rest /\ work'.uri = work.uri /\ work'.of = work.of
        /\ work'.name = work.name /\ work'.listens = work.listens /\ work'.forced = work.forced
        /\ work'.socket = work.socket /\ work'.keeper = k /\ work'.link = work.link
    BY <1>2, <1>4, <1>5, <2>1 DEF Work
  <2>3. listed' = listed /\ owned' = owned /\ lost' = lost /\ shares' = shares /\ work' # None
    BY <1>1, <2>2, Numbered DEF lists
  <2>4. link \in [Link -> LinkState \cup {None}]
    BY DEF OpeningInv, ResourcesCounted, TypeOK
  <2>5. link' \in [Link -> LinkState \cup {None}] /\ link'[k] \in LinkState
    <3>1. [link[k] EXCEPT !.refs = @ + 1] \in LinkState
      BY <1>5 DEF LinkState
    <3>2. QED
      BY <1>5, <2>1, <2>4, <3>1
  <2>6. \A x \in Present : /\ SameShape(x)
                           /\ link'[x].refs = link[x].refs + (IF x = k THEN 1 ELSE 0)
    <3>1. \A x \in Link : x # k => link'[x] = link[x]
      BY <2>1, <2>4
    <3>2. SameShape(k) /\ link'[k].refs = link[k].refs + 1
      BY <1>5, <2>1, <2>4 DEF SameShape, LinkState
    <3>3. \A x \in Present : x \in Link /\ link[x].refs \in Nat
      BY Fields DEF OpeningInv, ResourcesCounted, LinkState
    <3>4. QED
      BY <3>1, <3>2, <3>3 DEF SameShape
  <2>7. Present' = Present /\ Memory' = Memory
    <3>1. \A x \in Link : link'[x] = None <=> link[x] = None
      BY <1>5, <2>1, <2>4, <2>5, Numbered
    <3>2. QED
      BY <3>1 DEF Present, Memory
  <2>8. /\ LinkInv'
        /\ \A l : KeptBy(l)' = KeptBy(l)
        /\ \A d : UsedBy(d)' = UsedBy(d)
    BY <2>3, <2>6, <2>7, ShapesStay
  <2>9. /\ \A l \in Link : ~Keeping(l) /\ (Keeping(l)' <=> l = k)
        /\ \A d \in Socket : ~Holds(d) /\ ~Holds(d)'
    BY <1>2, <2>2, <2>3, Numbered DEF Keeping, Holds, Unmade
  <2>10. TypeOK'
    <3>1. Present' \subseteq listed' \cup (IF NoWork' THEN {} ELSE {work'.link})
      BY <1>1, <2>2, <2>3, <2>7 DEF OpeningInv, ResourcesCounted, TypeOK, NoWork
    <3>2. QED
      BY <1>4, <2>2, <2>3, <2>5, <2>7, <3>1 DEF OpeningInv, ResourcesCounted, TypeOK, Unused
  <2>11. ASSUME NEW l \in Present
         PROVE  link'[l].refs = Holders(l)'
    <3>1. link[l].refs = Holders(l) /\ l \in Link
      BY Fields DEF OpeningInv, ResourcesCounted
    <3>2. Holders(l) = 1 + (IF l \in listed THEN 1 ELSE 0) + (IF l \in owned THEN 1 ELSE 0)
                         + Cardinality(KeptBy(l)) + (IF Keeping(l) THEN 1 ELSE 0)
          /\ Cardinality(KeptBy(l)) \in Nat
      BY Counts DEF CountsHold
    <3>3. Holders(l)' = 1 + (IF l \in listed' THEN 1 ELSE 0) + (IF l \in owned' THEN 1 ELSE 0)
                         + Cardinality(KeptBy(l)') + (IF Keeping(l)' THEN 1 ELSE 0)
      BY <2>0 DEF CountsHold
    <3>4. QED
      BY <2>3, <2>6, <2>8, <2>9, <3>1, <3>2, <3>3
  <2>12. ASSUME NEW d \in Socket
         PROVE  shares'[d] = Users(d)' + (IF d \in lost' THEN 1 ELSE 0)
    <3>1. Users(d) = Cardinality(UsedBy(d)) + (IF Holds(d) THEN 1 ELSE 0)
      BY Counts DEF CountsHold
    <3>2. Users(d)' = Cardinality(UsedBy(d)') + (IF Holds(d)' THEN 1 ELSE 0)
      BY <2>0 DEF CountsHold
    <3>3. QED
      BY <2>3, <2>8, <2>9, <3>1, <3>2 DEF OpeningInv, ResourcesCounted
  <2>13. WorkInv'
    <3>1. Welcome(work)'
      BY <1>2, <1>5, <2>2, <2>3, <2>6 DEF Welcome, SameShape
    <3>2. Unmade(work)'
      BY <1>2, <2>2, <2>7 DEF Unmade
    <3>3. Keeper(work)' = k
      BY <1>5, <1>7, <2>2, <2>6 DEF Keeper, SameShape
    <3>4. Taking(work)' = Taking(work)
      BY <2>2 DEF Taking
    <3>5. Clones(work)'
      BY <1>2, <1>3, <2>2, <3>1, <3>2, <3>3, <3>4 DEF Clones
    <3>6. QED
      BY <3>5 DEF WorkInv
  <2>14. SocketInv'
    <3>1. \A l \in Present : link[l].socket = None \/ link[l].socket \in Socket
      BY Fields DEF OpeningInv, ResourcesCounted, LinkState
    <3>2. \A l \in Present' : ~(Holds(link[l].socket)' /\ link'[l].socket # None)
      BY <2>6, <2>7, <2>9, <3>1 DEF SameShape, Holds
    <3>3. \A d \in lost' : ~Holds(d)'
      BY <2>3, <2>9, Fields DEF OpeningInv, ResourcesCounted
    <3>4. \A l, j \in Present' : l # j /\ link'[l].socket # None /\ link'[l].socket = link'[j].socket =>
            link'[l].uri.scheme = "ETH"
      BY <2>6, <2>7 DEF SameShape, OpeningInv, SocketInv
    <3>5. \A l \in Present' : link'[l].socket \notin lost'
      BY <2>3, <2>6, <2>7 DEF SameShape, OpeningInv, SocketInv
    <3>6. QED
      BY <3>2, <3>3, <3>4, <3>5 DEF SocketInv
  <2>15. QED
    BY <2>7, <2>8, <2>10, <2>11, <2>12, <2>13, <2>14 DEF OpeningInv, ResourcesCounted
<1>8. QED
  BY <1>6, <1>7

LEMMA NoFragmenterForClone ==
  ASSUME OpeningInv, CloneGoesWithout
  PROVE  OpeningInv'
<1>1. /\ work # None /\ work.todo[1] = "fragmenter" /\ work.of # None
      /\ UNCHANGED <<link, shares, lists, lost>>
      /\ work' = [work EXCEPT !.todo = Tail(work.todo)]
  BY DEF CloneGoesWithout, Doing, Done
<1>2. /\ work \in Work /\ Welcome(work) /\ Unmade(work) /\ work.socket = None /\ work.keeper = None
      /\ work.uri.scheme # "TCP" /\ Tail(work.todo) = <<Taking(work), "create", "add">>
  BY <1>1, Doings DEF Asked
<1>3. PICK rest : rest = Tail(work.todo)
  OBVIOUS
<1>4. rest \in Seq(Step) /\ Len(rest) > 0
  <2>1. Taking(work) \in Step /\ "create" \in Step /\ "add" \in Step
    BY DEF Taking, Step
  <2>2. rest = <<Taking(work), "create", "add">>
    BY <1>2, <1>3
  <2>3. QED
    BY <2>1, <2>2
<1>5. /\ work' \in Work /\ work'.todo = rest /\ work'.uri = work.uri /\ work'.of = work.of
      /\ work'.name = work.name /\ work'.listens = work.listens /\ work'.forced = work.forced
      /\ work'.socket = work.socket /\ work'.keeper = work.keeper /\ work'.link = work.link
  BY <1>1, <1>2, <1>3, <1>4 DEF Work
<1>6. link' = link /\ listed' = listed /\ Memory' = Memory /\ work' # None
  BY <1>1, <1>5, Numbered DEF lists, Memory
<1>7. Clones(work)'
  <2>1. Welcome(work)' /\ Unmade(work)'
    BY <1>2, <1>5, <1>6 DEF Welcome, Unmade
  <2>2. Taking(work)' = Taking(work)
    BY <1>5 DEF Taking
  <2>3. QED
    BY <1>2, <1>3, <1>5, <2>1, <2>2 DEF Clones
<1>8. /\ \A l \in Link : Keeping(l)' <=> Keeping(l)
      /\ \A d \in Socket : Holds(d)' <=> Holds(d)
  BY <1>1, <1>5, <1>6 DEF Keeping, Holds
<1>9. QED
  BY <1>1, <1>4, <1>5, <1>7, <1>8, OnlyWork

(***************************************************************************)
(* Steps with a link that is not in the lists yet                          *)
(***************************************************************************)
LEMMA FragmenterForOpen ==
  ASSUME OpeningInv, CreateFragmenter, work.of = None
  PROVE  OpeningInv'
<1> PICK l : l = work.link
  OBVIOUS
<1>0. CountsHold'
  BY Counts, PTL
<1>1. /\ work # None /\ work.todo[1] = "fragmenter" /\ UNCHANGED <<shares, lists, lost>>
      /\ link' = [KeepFor(l) EXCEPT ![l].keeper = l]
      /\ work' = [work EXCEPT !.todo = Tail(work.todo)]
  BY DEF CreateFragmenter, Doing, Done
<1>2. /\ work \in Work /\ Asked(work) /\ Fragments(work) /\ Made(work, None) /\ Tail(work.todo) = <<"add">>
  <2>1. ~Welcome(work)
    BY Fields, Numbered DEF Welcome, OpeningInv, ResourcesCounted
  <2>2. QED
    BY <1>1, <2>1, Doings
<1>3. /\ l \in Present \ listed /\ l \in Link /\ l # None /\ link[l] \in LinkState
      /\ link[l].keeper = None /\ link[l].of = None /\ link[l].uri = work.uri
  BY <1>2, Fields, Numbered DEF Made, Asked, OpeningInv, ResourcesCounted
<1>4. work.uri.scheme # "TCP"
  BY <1>2, MeaningOfURI DEF Asked, Fragments, Work
<1>5. <<"add">> \in Seq(Step) /\ Len(<<"add">>) = 1
  BY DEF Step
<1>6. /\ work' \in Work /\ work'.todo = <<"add">> /\ work'.uri = work.uri /\ work'.of = work.of
      /\ work'.name = work.name /\ work'.listens = work.listens /\ work'.forced = work.forced
      /\ work'.socket = work.socket /\ work'.keeper = work.keeper /\ work'.link = l
  BY <1>1, <1>2, <1>5 DEF Work
<1>7. listed' = listed /\ owned' = owned /\ lost' = lost /\ shares' = shares /\ work' # None
  BY <1>1, <1>6, Numbered DEF lists
<1>8. link \in [Link -> LinkState \cup {None}]
  BY DEF OpeningInv, ResourcesCounted, TypeOK
<1>9. link' = [link EXCEPT ![l] = [link[l] EXCEPT !.refs = @ + 1, !.keeper = l]]
  BY <1>1, <1>3, <1>8 DEF KeepFor
<1>10. [link[l] EXCEPT !.refs = @ + 1, !.keeper = l] \in LinkState
  <2>1. link[l].refs + 1 \in Nat \ {0}
    BY <1>3 DEF LinkState
  <2>2. QED
    BY <1>3, <2>1 DEF LinkState
<1>11. link' \in [Link -> LinkState \cup {None}] /\ link'[l] \in LinkState
  BY <1>3, <1>8, <1>9, <1>10
<1>12. /\ link'[l].uri = link[l].uri /\ link'[l].of = None /\ link'[l].name = link[l].name
       /\ link'[l].listens = link[l].listens /\ link'[l].forced = link[l].forced
       /\ link'[l].socket = link[l].socket /\ link'[l].keeper = l /\ link'[l].refs = link[l].refs + 1
  BY <1>3, <1>8, <1>9 DEF LinkState
<1>13. \A x \in Link : x # l => link'[x] = link[x]
  BY <1>8, <1>9
<1>14. Present' = Present
  <2>1. \A x \in Link : link'[x] = None <=> link[x] = None
    BY <1>3, <1>11, <1>13, Numbered
  <2>2. QED
    BY <2>1 DEF Present, Memory
<1>15. \A x \in Present : x \in Link
  BY DEF Present
<1>16. KeptBy(l)' = KeptBy(l) \cup {l} /\ l \notin KeptBy(l)
  BY <1>3, <1>12, <1>13, <1>14, <1>15 DEF KeptBy
<1>17. \A x \in Link : x # l => KeptBy(x)' = KeptBy(x)
  BY <1>3, <1>12, <1>13, <1>14, <1>15, Numbered DEF KeptBy
<1>18. \A d : UsedBy(d)' = UsedBy(d)
  BY <1>3, <1>12, <1>13, <1>14, <1>15 DEF UsedBy
<1>19. /\ \A x : ~Keeping(x) /\ ~Keeping(x)'
       /\ \A d : ~Holds(d) /\ ~Holds(d)'
  BY <1>3, <1>6 DEF Keeping, Holds
<1>20. TypeOK'
  <2>1. Present' \subseteq listed' \cup (IF NoWork' THEN {} ELSE {work'.link})
    BY <1>1, <1>6, <1>7, <1>14 DEF OpeningInv, ResourcesCounted, TypeOK, NoWork
  <2>2. QED
    BY <1>5, <1>6, <1>7, <1>11, <1>14, <2>1 DEF OpeningInv, ResourcesCounted, TypeOK, Unused
<1>21. ASSUME NEW x \in Present
       PROVE  link'[x].refs = Holders(x)'
  <2>1. link[x].refs = Holders(x) /\ x \in Link
    BY Fields DEF OpeningInv, ResourcesCounted
  <2>2. /\ Holders(x) = 1 + (IF x \in listed THEN 1 ELSE 0) + (IF x \in owned THEN 1 ELSE 0)
                          + Cardinality(KeptBy(x)) + (IF Keeping(x) THEN 1 ELSE 0)
        /\ Cardinality(KeptBy(x)) \in Nat /\ KeptBy(x) \subseteq Link
    BY Counts DEF CountsHold
  <2>3. Holders(x)' = 1 + (IF x \in listed' THEN 1 ELSE 0) + (IF x \in owned' THEN 1 ELSE 0)
                        + Cardinality(KeptBy(x)') + (IF Keeping(x)' THEN 1 ELSE 0)
    BY <1>0 DEF CountsHold
  <2>4. CASE x = l
    <3>1. Cardinality(KeptBy(x)') = Cardinality(KeptBy(x)) + 1
      BY <1>16, <2>2, <2>4, OneMore
    <3>2. QED
      BY <1>7, <1>12, <1>19, <2>1, <2>2, <2>3, <2>4, <3>1
  <2>5. CASE x # l
    BY <1>7, <1>13, <1>17, <1>19, <2>1, <2>2, <2>3, <2>5
  <2>6. QED
    BY <2>4, <2>5
<1>22. ASSUME NEW d \in Socket
       PROVE  shares'[d] = Users(d)' + (IF d \in lost' THEN 1 ELSE 0)
  <2>1. Users(d) = Cardinality(UsedBy(d)) + (IF Holds(d) THEN 1 ELSE 0)
    BY Counts DEF CountsHold
  <2>2. Users(d)' = Cardinality(UsedBy(d)') + (IF Holds(d)' THEN 1 ELSE 0)
    BY <1>0 DEF CountsHold
  <2>3. QED
    BY <1>7, <1>18, <1>19, <2>1, <2>2 DEF OpeningInv, ResourcesCounted
<1>23. WorkInv'
  <2>1. Asked(work)'
    BY <1>2, <1>6 DEF Asked
  <2>2. Fragments(work)'
    BY <1>2, <1>6 DEF Fragments
  <2>3. Made(work, work.link)'
    BY <1>2, <1>3, <1>6, <1>7, <1>12, <1>14 DEF Made
  <2>4. Opens(work)'
    BY <1>6, <2>1, <2>2, <2>3 DEF Opens
  <2>5. QED
    BY <2>4 DEF WorkInv
<1>24. LinkInv'
  <2>1. ASSUME NEW x \in Present
        PROVE  /\ link'[x].listens => link'[x].of = None
               /\ link'[x].keeper # None => /\ link'[x].uri.scheme # "TCP"
                                            /\ link'[x].keeper = IF link'[x].of = None THEN x ELSE link'[x].of
               /\ link'[x].of # None /\ link'[x].uri.scheme # "TCP" =>
                    /\ link'[x].of \in listed' /\ link'[link'[x].of].listens
                    /\ link'[link'[x].of].uri = link'[x].uri
    <3>1. CASE x = l
      BY <1>3, <1>4, <1>12, <3>1
    <3>2. CASE x # l
      <4>1. link'[x] = link[x]
        BY <1>13, <1>15, <3>2
      <4>2. \A k \in listed : k \in Link /\ k # l
        BY <1>3, Fields DEF OpeningInv, ResourcesCounted
      <4>3. \A k \in listed : link'[k] = link[k]
        BY <1>13, <4>2
      <4>4. QED
        BY <1>7, <4>1, <4>3 DEF OpeningInv, LinkInv
    <3>3. QED
      BY <3>1, <3>2
  <2>2. QED
    BY <1>14, <2>1 DEF LinkInv
<1>25. SocketInv'
  <2>1. \A x \in Present : link'[x].socket = link[x].socket /\ link'[x].uri = link[x].uri
    BY <1>12, <1>13, <1>15
  <2>2. \A x, j \in Present' : x # j /\ link'[x].socket # None /\ link'[x].socket = link'[j].socket =>
          link'[x].uri.scheme = "ETH"
    BY <1>14, <2>1 DEF OpeningInv, SocketInv
  <2>3. \A x \in Present' : link'[x].socket \notin lost'
    BY <1>7, <1>14, <2>1 DEF OpeningInv, SocketInv
  <2>4. \A d : ~Holds(d)'
    BY <1>19
  <2>5. \A x \in Present' : ~Holds(link[x].socket)'
    BY <1>6, <1>3 DEF Holds
  <2>6. QED
    BY <2>2, <2>3, <2>4, <2>5 DEF SocketInv
<1>26. QED
  BY <1>14, <1>20, <1>21, <1>22, <1>23, <1>24, <1>25 DEF OpeningInv, ResourcesCounted

LEMMA LinkCreated ==
  ASSUME OpeningInv, CreateLink
  PROVE  OpeningInv'
<1> PICK l : l = Least(Memory)
  OBVIOUS
<1> PICK new : new = [uri |-> work.uri, of |-> work.of, name |-> work.name, listens |-> work.listens,
                      forced |-> work.forced, socket |-> work.socket, keeper |-> work.keeper, refs |-> 1]
  OBVIOUS
<1>0. CountsHold'
  BY Counts, PTL
<1>1. /\ work # None /\ work.todo[1] = "create" /\ UNCHANGED <<shares, lists, lost>>
      /\ link' = [link EXCEPT ![l] = new]
      /\ work' = [work EXCEPT !.link = l, !.todo = Tail(work.todo)]
  BY DEF CreateLink, Doing, Done
<1>2. /\ work \in Work /\ Unmade(work)
      /\ \/ /\ Asked(work) /\ work.socket \in Socket
            /\ Tail(work.todo) = IF Fragments(work) THEN <<"fragmenter", "add">> ELSE <<"add">>
         \/ /\ Welcome(work) /\ work.keeper \in {None, Keeper(work)}
            /\ Tail(work.todo) = <<"add">>
  BY <1>1, Doings
<1>3. l \in Link \ Present /\ l \in Link /\ l # None /\ link[l] = None
  <2>1. Memory \subseteq Nat /\ Memory # {}
    BY <1>2, Numbered DEF Memory, Unmade
  <2>2. l \in Memory
    BY <2>1, LeastIn
  <2>3. QED
    BY <2>2, Numbered DEF Memory, Present
<1>4. KeptBy(l) = {} /\ ~Keeping(l) /\ l \notin listed
  BY <1>3, Freed
<1>5. /\ new \in LinkState /\ new # None
      /\ new.uri = work.uri /\ new.of = work.of /\ new.name = work.name /\ new.listens = work.listens
      /\ new.forced = work.forced /\ new.socket = work.socket /\ new.keeper = work.keeper /\ new.refs = 1
  BY <1>2, Numbered DEF Work, LinkState
<1>6. PICK rest : rest = Tail(work.todo)
  OBVIOUS
<1>7. rest \in Seq(Step) /\ Len(rest) > 0
  <2>1. <<"add">> \in Seq(Step) /\ Len(<<"add">>) = 1
    BY DEF Step
  <2>2. <<"fragmenter", "add">> \in Seq(Step) /\ Len(<<"fragmenter", "add">>) = 2
    BY DEF Step
  <2>3. rest = <<"add">> \/ rest = <<"fragmenter", "add">>
    BY <1>2, <1>6
  <2>4. CASE rest = <<"add">>
    BY <2>1, <2>4
  <2>5. CASE rest = <<"fragmenter", "add">>
    BY <2>2, <2>5
  <2>6. QED
    BY <2>3, <2>4, <2>5
<1>8. /\ work' \in Work /\ work'.todo = rest /\ work'.uri = work.uri /\ work'.of = work.of
      /\ work'.name = work.name /\ work'.listens = work.listens /\ work'.forced = work.forced
      /\ work'.socket = work.socket /\ work'.keeper = work.keeper /\ work'.link = l
  BY <1>1, <1>2, <1>3, <1>6, <1>7 DEF Work
<1>9. listed' = listed /\ owned' = owned /\ lost' = lost /\ shares' = shares /\ work' # None
  BY <1>1, <1>8, Numbered DEF lists
<1>10. link \in [Link -> LinkState \cup {None}]
  BY DEF OpeningInv, ResourcesCounted, TypeOK
<1>11. /\ link' \in [Link -> LinkState \cup {None}] /\ link'[l] = new
       /\ \A x \in Link : x # l => link'[x] = link[x]
  BY <1>1, <1>3, <1>5, <1>10
<1>12. Present' = Present \cup {l}
  BY <1>3, <1>5, <1>11 DEF Present, Memory
<1>13. \A x \in Present : x \in Link /\ x # l /\ link'[x] = link[x]
  BY <1>3, <1>11 DEF Present
<1>14. ASSUME NEW x
       PROVE  /\ x = work.keeper => KeptBy(x)' = KeptBy(x) \cup {l}
              /\ x # work.keeper => KeptBy(x)' = KeptBy(x)
              /\ l \notin KeptBy(x)
  BY <1>3, <1>5, <1>11, <1>12, <1>13 DEF KeptBy
<1>15. ASSUME NEW d
       PROVE  /\ d = work.socket => UsedBy(d)' = UsedBy(d) \cup {l}
              /\ d # work.socket => UsedBy(d)' = UsedBy(d)
              /\ l \notin UsedBy(d)
  BY <1>3, <1>5, <1>11, <1>12, <1>13 DEF UsedBy
<1>16. /\ \A x : (Keeping(x) <=> x = work.keeper) /\ ~Keeping(x)'
       /\ \A d : (Holds(d) <=> d = work.socket) /\ ~Holds(d)'
  BY <1>1, <1>2, <1>3, <1>8 DEF Keeping, Holds, Unmade
<1>17. listed \subseteq Present /\ owned = listed
  BY Fields DEF OpeningInv, ResourcesCounted
<1>18. TypeOK'
  <2>1. Present' \subseteq listed' \cup (IF NoWork' THEN {} ELSE {work'.link})
    <3>1. work.link = None /\ None \notin Present
      BY <1>2, Numbered DEF Unmade, Present
    <3>2. Present \subseteq listed \cup {work.link}
      BY <1>1 DEF OpeningInv, ResourcesCounted, TypeOK, NoWork
    <3>3. QED
      BY <1>8, <1>9, <1>12, <3>1, <3>2 DEF NoWork
  <2>2. listed' \subseteq Present'
    BY <1>9, <1>12, <1>17
  <2>3. QED
    BY <1>7, <1>8, <1>9, <1>11, <2>1, <2>2 DEF OpeningInv, ResourcesCounted, TypeOK, Unused
<1>19. ASSUME NEW x \in Present'
       PROVE  link'[x].refs = Holders(x)'
  <2>1. Holders(x)' = 1 + (IF x \in listed' THEN 1 ELSE 0) + (IF x \in owned' THEN 1 ELSE 0)
                        + Cardinality(KeptBy(x)') + (IF Keeping(x)' THEN 1 ELSE 0)
    BY <1>0 DEF CountsHold
  <2>2. CASE x = l
    <3>1. x # work.keeper
      BY <1>4, <1>16, <2>2
    <3>2. KeptBy(x)' = {}
      BY <1>4, <1>14, <2>2, <3>1
    <3>3. Cardinality(KeptBy(x)') = 0
      BY <3>2, FS_EmptySet
    <3>4. link'[x].refs = 1 /\ x \notin listed' /\ x \notin owned' /\ ~Keeping(x)'
      BY <1>4, <1>5, <1>9, <1>11, <1>16, <1>17, <2>2
    <3>5. QED
      BY <2>1, <3>3, <3>4
  <2>3. CASE x \in Present
    <3>1. link[x].refs = Holders(x)
      BY <2>3 DEF OpeningInv, ResourcesCounted
    <3>2. /\ Holders(x) = 1 + (IF x \in listed THEN 1 ELSE 0) + (IF x \in owned THEN 1 ELSE 0)
                            + Cardinality(KeptBy(x)) + (IF Keeping(x) THEN 1 ELSE 0)
          /\ Cardinality(KeptBy(x)) \in Nat /\ KeptBy(x) \subseteq Link
      BY Counts DEF CountsHold
    <3>3. Cardinality(KeptBy(x)') = Cardinality(KeptBy(x)) + (IF x = work.keeper THEN 1 ELSE 0)
      <4>1. CASE x = work.keeper
        BY <1>14, <3>2, <4>1, OneMore
      <4>2. CASE x # work.keeper
        BY <1>14, <3>2, <4>2
      <4>3. QED
        BY <4>1, <4>2
    <3>4. link'[x].refs = link[x].refs
      BY <1>13, <2>3
    <3>5. QED
      BY <1>9, <1>16, <2>1, <3>1, <3>2, <3>3, <3>4
  <2>4. QED
    BY <1>12, <2>2, <2>3
<1>20. ASSUME NEW d \in Socket
       PROVE  shares'[d] = Users(d)' + (IF d \in lost' THEN 1 ELSE 0)
  <2>1. /\ Users(d) = Cardinality(UsedBy(d)) + (IF Holds(d) THEN 1 ELSE 0)
        /\ Cardinality(UsedBy(d)) \in Nat /\ UsedBy(d) \subseteq Link
    BY Counts DEF CountsHold
  <2>2. Users(d)' = Cardinality(UsedBy(d)') + (IF Holds(d)' THEN 1 ELSE 0)
    BY <1>0 DEF CountsHold
  <2>3. Cardinality(UsedBy(d)') = Cardinality(UsedBy(d)) + (IF d = work.socket THEN 1 ELSE 0)
    <3>1. CASE d = work.socket
      BY <1>15, <2>1, <3>1, OneMore
    <3>2. CASE d # work.socket
      BY <1>15, <2>1, <3>2
    <3>3. QED
      BY <3>1, <3>2
  <2>4. shares[d] = Users(d) + (IF d \in lost THEN 1 ELSE 0)
    BY DEF OpeningInv, ResourcesCounted
  <2>5. QED
    BY <1>9, <1>16, <2>1, <2>2, <2>3, <2>4
<1>21. WorkInv'
  <2>1. Made(work, work.keeper)'
    BY <1>3, <1>4, <1>5, <1>8, <1>9, <1>11, <1>12 DEF Made
  <2>2. CASE Asked(work) /\ rest = IF Fragments(work) THEN <<"fragmenter", "add">> ELSE <<"add">>
    <3>1. Asked(work)' /\ work'.keeper = None
      BY <1>8, <2>2 DEF Asked
    <3>2. Fragments(work)' = Fragments(work)
      BY <1>8 DEF Fragments
    <3>3. Made(work, None)'
      BY <2>1, <3>1 DEF Made
    <3>4. Opens(work)'
      <4>1. CASE Fragments(work)
        BY <1>8, <2>2, <3>1, <3>2, <3>3, <4>1 DEF Opens
      <4>2. CASE ~Fragments(work)
        <5>1. work'.todo = <<"add">> /\ ~Fragments(work)'
          BY <1>8, <2>2, <3>2, <4>2
        <5>2. Made(work, IF Fragments(work) THEN work.link ELSE None)'
          BY <3>3, <5>1 DEF Made
        <5>3. QED
          BY <3>1, <5>1, <5>2 DEF Opens
      <4>3. QED
        BY <4>1, <4>2
    <3>5. QED
      BY <3>4 DEF WorkInv
  <2>3. CASE Welcome(work) /\ work.keeper \in {None, Keeper(work)} /\ rest = <<"add">>
    <3>1. link'[work.of] = link[work.of] /\ work.of \in listed'
      BY <1>9, <1>13, <1>17, <2>3 DEF Welcome
    <3>2. Welcome(work)' /\ Keeper(work)' = Keeper(work)
      BY <1>8, <2>3, <3>1 DEF Welcome, Keeper
    <3>3. Clones(work)'
      BY <1>8, <2>1, <2>3, <3>2 DEF Clones
    <3>4. QED
      BY <3>3 DEF WorkInv
  <2>4. QED
    BY <1>2, <1>6, <2>2, <2>3
<1>22. LinkInv'
  <2>1. ASSUME NEW x \in Present'
        PROVE  /\ link'[x].listens => link'[x].of = None
               /\ link'[x].keeper # None => /\ link'[x].uri.scheme # "TCP"
                                            /\ link'[x].keeper = IF link'[x].of = None THEN x ELSE link'[x].of
               /\ link'[x].of # None /\ link'[x].uri.scheme # "TCP" =>
                    /\ link'[x].of \in listed' /\ link'[link'[x].of].listens
                    /\ link'[link'[x].of].uri = link'[x].uri
    <3>1. \A k \in listed : link'[k] = link[k] /\ k \in Present /\ k # None
      BY <1>13, <1>17, Numbered
    <3>2. CASE x = l
      <4>1. CASE Asked(work)
        BY <1>5, <1>11, <3>2, <4>1 DEF Asked
      <4>2. CASE Welcome(work) /\ work.keeper \in {None, Keeper(work)}
        <5>1. /\ work.of \in listed /\ link[work.of].listens /\ link[work.of].uri = work.uri /\ ~work.listens
              /\ work.of # None
          BY <3>1, <4>2 DEF Welcome
        <5>2. work.keeper # None => work.keeper = work.of /\ link[work.of].keeper # None
          BY <4>2 DEF Keeper
        <5>3. work.keeper # None => work.uri.scheme # "TCP"
          BY <3>1, <5>1, <5>2 DEF OpeningInv, LinkInv
        <5>4. QED
          BY <1>5, <1>9, <1>11, <3>1, <3>2, <5>1, <5>2, <5>3
      <4>3. QED
        BY <1>2, <4>1, <4>2
    <3>3. CASE x \in Present
      <4>1. link'[x] = link[x]
        BY <1>13, <3>3
      <4>2. QED
        BY <1>9, <3>1, <3>3, <4>1 DEF OpeningInv, LinkInv
    <3>4. QED
      BY <1>12, <3>2, <3>3
  <2>2. QED
    BY <2>1 DEF LinkInv
<1>23. SocketInv'
  <2>1. \A x \in Present : link[x].socket = new.socket /\ new.socket # None =>
          link[x].uri.scheme = "ETH" /\ new.uri.scheme = "ETH"
    <3> SUFFICES ASSUME NEW x \in Present, link[x].socket = new.socket, new.socket # None
                 PROVE  link[x].uri.scheme = "ETH" /\ new.uri.scheme = "ETH"
      OBVIOUS
    <3>1. Holds(link[x].socket) /\ link[x].socket # None
      BY <1>5, <1>16
    <3>2. QED
      BY <1>5, <3>1 DEF OpeningInv, SocketInv
  <2>2. ASSUME NEW x \in Present', NEW j \in Present', x # j, link'[x].socket # None,
               link'[x].socket = link'[j].socket
        PROVE  link'[x].uri.scheme = "ETH"
    <3>1. CASE x = l
      BY <1>11, <1>12, <1>13, <2>1, <2>2, <3>1
    <3>2. CASE x \in Present /\ j = l
      BY <1>11, <1>13, <2>1, <2>2, <3>2
    <3>3. CASE x \in Present /\ j \in Present
      BY <1>13, <2>2, <3>3 DEF OpeningInv, SocketInv
    <3>4. QED
      BY <1>12, <3>1, <3>2, <3>3
  <2>3. new.socket \notin lost
    BY <1>5, <1>16 DEF OpeningInv, SocketInv
  <2>4. \A x \in Present' : link'[x].socket \notin lost'
    BY <1>9, <1>11, <1>12, <1>13, <2>3 DEF OpeningInv, SocketInv
  <2>5. \A x \in Present' : ~Holds(link[x].socket)'
    BY <1>3, <1>8 DEF Holds
  <2>6. \A d : ~Holds(d)'
    BY <1>16
  <2>7. QED
    BY <2>2, <2>4, <2>5, <2>6 DEF SocketInv
<1>24. QED
  BY <1>18, <1>19, <1>20, <1>21, <1>22, <1>23 DEF OpeningInv, ResourcesCounted

LEMMA LinkAdded ==
  ASSUME OpeningInv, AddLink
  PROVE  OpeningInv'
<1> PICK l : l = work.link
  OBVIOUS
<1>0. CountsHold'
  BY Counts, PTL
<1>1. /\ work # None /\ work.todo[1] = "add" /\ UNCHANGED <<shares, lost>>
      /\ link' = [link EXCEPT ![l].refs = @ + 2]
      /\ listed' = listed \cup {l} /\ owned' = owned \cup {l} /\ work' = None
  BY DEF AddLink, Doing
<1>2. \E keeper : Made(work, keeper)
  BY <1>1, Doings
<1>3. l \in Present \ listed /\ l \in Link /\ l # None /\ link[l] \in LinkState
  BY <1>2, Fields, Numbered DEF Made, OpeningInv, ResourcesCounted
<1>4. link \in [Link -> LinkState \cup {None}] /\ owned = listed /\ listed \subseteq Present
  BY DEF OpeningInv, ResourcesCounted, TypeOK
<1>5. link' \in [Link -> LinkState \cup {None}] /\ link'[l] \in LinkState
  <2>1. link[l].refs + 2 \in Nat \ {0}
    BY <1>3 DEF LinkState
  <2>2. [link[l] EXCEPT !.refs = @ + 2] \in LinkState
    BY <1>3, <2>1 DEF LinkState
  <2>3. QED
    BY <1>1, <1>3, <1>4, <2>2
<1>6. \A x \in Present : /\ SameShape(x)
                         /\ link'[x].refs = link[x].refs + (IF x = l THEN 2 ELSE 0)
  <2>1. \A x \in Link : x # l => link'[x] = link[x]
    BY <1>1, <1>4
  <2>2. SameShape(l) /\ link'[l].refs = link[l].refs + 2
    BY <1>1, <1>3, <1>4 DEF SameShape, LinkState
  <2>3. \A x \in Present : x \in Link /\ link[x].refs \in Nat
    BY Fields DEF OpeningInv, ResourcesCounted, LinkState
  <2>4. QED
    BY <2>1, <2>2, <2>3 DEF SameShape
<1>7. Present' = Present
  <2>1. \A x \in Link : link'[x] = None <=> link[x] = None
    BY <1>1, <1>3, <1>4, <1>5, Numbered
  <2>2. QED
    BY <2>1 DEF Present, Memory
<1>8. /\ LinkInv'
      /\ \A x : KeptBy(x)' = KeptBy(x)
      /\ \A d : UsedBy(d)' = UsedBy(d)
  BY <1>1, <1>6, <1>7, ShapesStay
<1>9. /\ \A x : ~Keeping(x) /\ ~Keeping(x)'
      /\ \A d : ~Holds(d) /\ ~Holds(d)'
  BY <1>1, <1>3 DEF Keeping, Holds
<1>10. TypeOK'
  <2>1. Present \subseteq listed \cup {l}
    BY <1>1 DEF OpeningInv, ResourcesCounted, TypeOK, NoWork
  <2>2. listed' = owned' /\ listed' \subseteq Present' /\ Present' \subseteq listed'
    BY <1>1, <1>3, <1>4, <1>7, <2>1
  <2>3. QED
    BY <1>1, <1>5, <2>2 DEF OpeningInv, ResourcesCounted, TypeOK, Unused
<1>11. ASSUME NEW x \in Present
       PROVE  link'[x].refs = Holders(x)'
  <2>1. link[x].refs = Holders(x)
    BY DEF OpeningInv, ResourcesCounted
  <2>2. /\ Holders(x) = 1 + (IF x \in listed THEN 1 ELSE 0) + (IF x \in owned THEN 1 ELSE 0)
                          + Cardinality(KeptBy(x)) + (IF Keeping(x) THEN 1 ELSE 0)
        /\ Cardinality(KeptBy(x)) \in Nat
    BY Counts DEF CountsHold
  <2>3. Holders(x)' = 1 + (IF x \in listed' THEN 1 ELSE 0) + (IF x \in owned' THEN 1 ELSE 0)
                        + Cardinality(KeptBy(x)') + (IF Keeping(x)' THEN 1 ELSE 0)
    BY <1>0 DEF CountsHold
  <2>4. CASE x = l
    BY <1>1, <1>3, <1>4, <1>6, <1>8, <1>9, <2>1, <2>2, <2>3, <2>4
  <2>5. CASE x # l
    BY <1>1, <1>4, <1>6, <1>8, <1>9, <2>1, <2>2, <2>3, <2>5
  <2>6. QED
    BY <2>4, <2>5
<1>12. ASSUME NEW d \in Socket
       PROVE  shares'[d] = Users(d)' + (IF d \in lost' THEN 1 ELSE 0)
  <2>1. Users(d) = Cardinality(UsedBy(d)) + (IF Holds(d) THEN 1 ELSE 0)
    BY Counts DEF CountsHold
  <2>2. Users(d)' = Cardinality(UsedBy(d)') + (IF Holds(d)' THEN 1 ELSE 0)
    BY <1>0 DEF CountsHold
  <2>3. QED
    BY <1>1, <1>8, <1>9, <2>1, <2>2 DEF OpeningInv, ResourcesCounted
<1>13. WorkInv'
  BY <1>1 DEF WorkInv
<1>14. SocketInv'
  <2>1. \A x, j \in Present' : x # j /\ link'[x].socket # None /\ link'[x].socket = link'[j].socket =>
          link'[x].uri.scheme = "ETH"
    BY <1>6, <1>7 DEF SameShape, OpeningInv, SocketInv
  <2>2. \A x \in Present' : link'[x].socket \notin lost'
    BY <1>1, <1>6, <1>7 DEF SameShape, OpeningInv, SocketInv
  <2>3. \A x \in Present' : ~Holds(link[x].socket)'
    BY <1>1 DEF Holds
  <2>4. \A d : ~Holds(d)'
    BY <1>9
  <2>5. QED
    BY <2>1, <2>2, <2>3, <2>4 DEF SocketInv
<1>15. QED
  BY <1>7, <1>8, <1>10, <1>11, <1>12, <1>13, <1>14 DEF OpeningInv, ResourcesCounted

(***************************************************************************)
(* Closing                                                                 *)
(***************************************************************************)

(* Links can go when all they keep and all that share a socket with them   *)
(* go too, and what stays is in the lists.                                 *)
CanGo(C) ==
  /\ C \subseteq Present
  /\ \A l \in Present : link[l].keeper \in C => l \in C
  /\ \A l \in Present : link[l].of \in C /\ link[l].uri.scheme # "TCP" => l \in C
  /\ Present \ C \subseteq listed

LEMMA LinksGo ==
  ASSUME OpeningInv, NEW C, CanGo(C), CloseLinks(C), lost' = lost, work' = None,
         work = None \/ work.link # None
  PROVE  OpeningInv' /\ \A x \in Present \ C : SameShape(x)
<1>0. CountsHold'
  BY Counts, PTL
<1>1. /\ link \in [Link -> LinkState \cup {None}] /\ shares \in [Socket -> Nat]
      /\ owned = listed /\ listed \subseteq Present /\ lost \subseteq Socket \ Unused
  BY DEF OpeningInv, ResourcesCounted, TypeOK
<1>2. /\ \A l \in Present : l \in Link /\ link[l] # None /\ link[l] \in LinkState
      /\ \A l \in Link : l \notin Present <=> link[l] = None
      /\ C \subseteq Present
  BY Fields DEF OpeningInv, ResourcesCounted, CanGo
<1> DEFINE gone(x) == {l \in C : link[l].keeper = x}
           users(d) == {l \in C : link[l].socket = d}
<1>3. \A x : gone(x) \subseteq KeptBy(x) /\ gone(x) \subseteq Link
  BY <1>2 DEF KeptBy
<1>4. \A d : users(d) \subseteq UsedBy(d) /\ users(d) \subseteq Link
  BY <1>2 DEF UsedBy
<1>5. /\ link' = [x \in Link |-> IF link[x] = None \/ link[x].refs = Released(x, C) THEN None
                                 ELSE [link[x] EXCEPT !.refs = @ - Released(x, C)]]
      /\ \A d \in Socket : shares'[d] = shares[d] - Cardinality(users(d))
      /\ DOMAIN shares' = Socket /\ shares' = [d \in Socket |-> shares'[d]]
      /\ listed' = listed \ C /\ owned' = owned \ C
  BY DEF CloseLinks, Closed
<1>6. \A x : Released(x, C) = (IF x \in C THEN 1 ELSE 0) + (IF x \in C \cap listed THEN 1 ELSE 0)
                                + (IF x \in C \cap owned THEN 1 ELSE 0) + Cardinality(gone(x))
  BY DEF Released
<1>7. /\ \A x : ~Keeping(x) /\ ~Keeping(x)'
      /\ \A d : ~Holds(d) /\ ~Holds(d)'
  BY DEF Keeping, Holds
<1>8. ASSUME NEW x
      PROVE  Cardinality(gone(x)) \in Nat /\ Cardinality(KeptBy(x) \ gone(x)) = Cardinality(KeptBy(x)) - Cardinality(gone(x))
             /\ Cardinality(KeptBy(x) \ gone(x)) \in Nat
  <2>1. KeptBy(x) \subseteq Link /\ KeptBy(x) \ gone(x) \subseteq Link
    BY Counts DEF CountsHold
  <2> HIDE DEF gone
  <2>2. QED
    BY <1>3, <2>1, LinksCount, SomeLess
<1>9. ASSUME NEW d
      PROVE  Cardinality(users(d)) \in Nat /\ Cardinality(UsedBy(d) \ users(d)) = Cardinality(UsedBy(d)) - Cardinality(users(d))
             /\ Cardinality(UsedBy(d) \ users(d)) \in Nat
  <2>1. UsedBy(d) \subseteq Link /\ UsedBy(d) \ users(d) \subseteq Link
    BY Counts DEF CountsHold
  <2> HIDE DEF users
  <2>2. QED
    BY <1>4, <2>1, LinksCount, SomeLess
<1>10. ASSUME NEW x \in Present
       PROVE  link[x].refs = 1 + (IF x \in listed THEN 2 ELSE 0) + Cardinality(KeptBy(x)) /\ Cardinality(KeptBy(x)) \in Nat
  <2>1. link[x].refs = Holders(x)
    BY DEF OpeningInv, ResourcesCounted
  <2>2. /\ Holders(x) = 1 + (IF x \in listed THEN 1 ELSE 0) + (IF x \in owned THEN 1 ELSE 0)
                          + Cardinality(KeptBy(x)) + (IF Keeping(x) THEN 1 ELSE 0)
        /\ Cardinality(KeptBy(x)) \in Nat
    BY Counts DEF CountsHold
  <2>3. QED
    BY <1>1, <1>7, <2>1, <2>2
<1> HIDE DEF gone, users
<1>11. ASSUME NEW x \in C
       PROVE  link[x].refs = Released(x, C)
  <2>1. gone(x) = KeptBy(x)
    BY DEF gone, KeptBy, CanGo
  <2>2. x \in Present
    BY <1>2
  <2>3. Released(x, C) = 1 + (IF x \in listed THEN 2 ELSE 0) + Cardinality(KeptBy(x))
    BY <1>1, <1>6, <1>8, <2>1
  <2>4. QED
    BY <1>10, <2>2, <2>3
<1>12. ASSUME NEW x \in Present \ C
       PROVE  /\ link[x].refs # Released(x, C)
              /\ link[x].refs - Released(x, C) =
                   1 + (IF x \in listed THEN 2 ELSE 0) + Cardinality(KeptBy(x) \ gone(x))
              /\ link[x].refs - Released(x, C) \in Nat \ {0}
  <2>1. Released(x, C) = Cardinality(gone(x))
    <3>1. x \notin C /\ x \notin C \cap listed /\ x \notin C \cap owned /\ Cardinality(gone(x)) \in Nat
      BY <1>8
    <3>2. Released(x, C) = (IF x \in C THEN 1 ELSE 0) + (IF x \in C \cap listed THEN 1 ELSE 0)
                             + (IF x \in C \cap owned THEN 1 ELSE 0) + Cardinality(gone(x))
      BY <1>6
    <3>3. QED
      BY <3>1, <3>2
  <2>2. QED
    BY <1>8, <1>10, <2>1
<1>13. /\ \A x \in Link : x \notin Present \ C => link'[x] = None
       /\ \A x \in Present \ C : link'[x] = [link[x] EXCEPT !.refs = @ - Released(x, C)]
  BY <1>2, <1>5, <1>11, <1>12
<1>14. \A x \in Present \ C : /\ SameShape(x) /\ link'[x] \in LinkState
                             /\ link'[x].refs = link[x].refs - Released(x, C)
  <2> SUFFICES ASSUME NEW x \in Present \ C
               PROVE  /\ SameShape(x) /\ link'[x] \in LinkState
                      /\ link'[x].refs = link[x].refs - Released(x, C)
    OBVIOUS
  <2>1. PICK r : r = link[x].refs - Released(x, C)
    OBVIOUS
  <2>2. link'[x] = [link[x] EXCEPT !.refs = r] /\ r \in Nat \ {0} /\ link[x] \in LinkState
    BY <1>2, <1>12, <1>13, <2>1
  <2>3. SameShape(x) /\ link'[x] \in LinkState /\ link'[x].refs = r
    BY <2>2 DEF SameShape, LinkState
  <2>4. QED
    BY <2>1, <2>3
<1>15. link' \in [Link -> LinkState \cup {None}]
  <2>1. \A x \in Link : link'[x] \in LinkState \cup {None}
    BY <1>13, <1>14
  <2>2. link' = [x \in Link |-> link'[x]]
    BY <1>5
  <2>3. QED
    BY <2>1, <2>2
<1>16. Present' = Present \ C
  <2>1. \A x \in Link : link'[x] = None <=> x \notin Present \ C
    BY <1>13, <1>14, Numbered
  <2>2. Present' \subseteq Link /\ Present \ C \subseteq Link /\ \A x \in Link : x \in Present' <=> link'[x] # None
    BY <1>2 DEF Present, Memory
  <2>3. QED
    BY <2>1, <2>2
<1>17. \A x : KeptBy(x)' = KeptBy(x) \ gone(x)
  BY <1>14, <1>16 DEF KeptBy, SameShape, gone
<1>18. \A d : UsedBy(d)' = UsedBy(d) \ users(d)
  BY <1>14, <1>16 DEF UsedBy, SameShape, users
<1>19. ASSUME NEW x \in Present'
       PROVE  link'[x].refs = Holders(x)'
  <2>1. Holders(x)' = 1 + (IF x \in listed' THEN 1 ELSE 0) + (IF x \in owned' THEN 1 ELSE 0)
                        + Cardinality(KeptBy(x)') + (IF Keeping(x)' THEN 1 ELSE 0)
    BY <1>0 DEF CountsHold
  <2>2. x \in Present \ C /\ (x \in listed' <=> x \in listed) /\ owned' = listed'
    BY <1>1, <1>5, <1>16
  <2>3. Holders(x)' = 1 + (IF x \in listed THEN 2 ELSE 0) + Cardinality(KeptBy(x) \ gone(x))
    BY <1>7, <1>8, <1>17, <2>1, <2>2
  <2>4. QED
    BY <1>12, <1>14, <2>2, <2>3
<1>20. ASSUME NEW d \in Socket
       PROVE  shares'[d] = Users(d)' + (IF d \in lost' THEN 1 ELSE 0) /\ shares'[d] \in Nat
  <2>1. shares[d] = Users(d) + (IF d \in lost THEN 1 ELSE 0)
    BY DEF OpeningInv, ResourcesCounted
  <2>2. Users(d) = Cardinality(UsedBy(d)) + (IF Holds(d) THEN 1 ELSE 0) /\ Cardinality(UsedBy(d)) \in Nat
    BY Counts DEF CountsHold
  <2>3. Users(d)' = Cardinality(UsedBy(d)') + (IF Holds(d)' THEN 1 ELSE 0)
    BY <1>0 DEF CountsHold
  <2>4. Users(d)' = Cardinality(UsedBy(d) \ users(d))
    BY <1>7, <1>9, <1>18, <2>3
  <2>5. QED
    BY <1>5, <1>7, <1>9, <2>1, <2>2, <2>4
<1>21. TypeOK'
  <2>1. lost' \subseteq Socket \ Unused'
    <3>1. ASSUME NEW d \in lost
          PROVE  d \in Socket /\ shares'[d] # 0
      <4>1. d \in Socket /\ Cardinality(UsedBy(d) \ users(d)) \in Nat
        BY <1>1, <1>9
      <4>2. Users(d)' = Cardinality(UsedBy(d)') + (IF Holds(d)' THEN 1 ELSE 0)
        BY <1>0 DEF CountsHold
      <4>3. shares'[d] = Users(d)' + 1
        BY <1>20, <4>1
      <4>4. QED
        BY <1>7, <1>18, <4>1, <4>2, <4>3
    <3>2. QED
      BY <3>1 DEF Unused
  <2>2. shares' \in [Socket -> Nat]
    BY <1>5, <1>20
  <2>3. listed' = owned' /\ listed' \subseteq Present' /\ Present' \subseteq listed'
    BY <1>1, <1>5, <1>16 DEF CanGo
  <2>4. QED
    BY <1>15, <2>1, <2>2, <2>3 DEF TypeOK
<1>22. WorkInv'
  BY DEF WorkInv
<1>23. LinkInv'
  <2>1. ASSUME NEW x \in Present \ C
        PROVE  /\ link'[x].listens => link'[x].of = None
               /\ link'[x].keeper # None => /\ link'[x].uri.scheme # "TCP"
                                            /\ link'[x].keeper = IF link'[x].of = None THEN x ELSE link'[x].of
               /\ link'[x].of # None /\ link'[x].uri.scheme # "TCP" =>
                    /\ link'[x].of \in listed' /\ link'[link'[x].of].listens
                    /\ link'[link'[x].of].uri = link'[x].uri
    <3>1. link[x].of # None /\ link[x].uri.scheme # "TCP" => link[x].of \in listed \ C
      BY DEF OpeningInv, LinkInv, CanGo
    <3>2. listed \ C \subseteq Present \ C
      BY <1>1
    <3>3. SameShape(x) /\ (link[x].of \in listed \ C => SameShape(link[x].of))
      BY <1>14, <3>2
    <3>4. x \in Present /\ listed' = listed \ C
      BY <1>5
    <3>5. /\ link[x].listens => link[x].of = None
          /\ link[x].keeper # None => /\ link[x].uri.scheme # "TCP"
                                      /\ link[x].keeper = IF link[x].of = None THEN x ELSE link[x].of
          /\ link[x].of # None /\ link[x].uri.scheme # "TCP" =>
               /\ link[link[x].of].listens
               /\ link[link[x].of].uri = link[x].uri
      BY <3>4 DEF OpeningInv, LinkInv
    <3>6. QED
      BY <3>1, <3>3, <3>4, <3>5 DEF SameShape
  <2>2. QED
    BY <1>16, <2>1 DEF LinkInv
<1>24. SocketInv'
  <2>1. \A x, j \in Present' : x # j /\ link'[x].socket # None /\ link'[x].socket = link'[j].socket =>
          link'[x].uri.scheme = "ETH"
    BY <1>14, <1>16 DEF SameShape, OpeningInv, SocketInv
  <2>2. \A x \in Present' : link'[x].socket \notin lost'
    BY <1>14, <1>16 DEF SameShape, OpeningInv, SocketInv
  <2>3. \A x \in Present' : ~Holds(link[x].socket)'
    BY DEF Holds
  <2>4. \A d : ~Holds(d)'
    BY <1>7
  <2>5. QED
    BY <2>1, <2>2, <2>3, <2>4 DEF SocketInv
<1>25. QED
  BY <1>14, <1>19, <1>20, <1>21, <1>22, <1>23, <1>24 DEF OpeningInv, ResourcesCounted

LEMMA LinkClosed ==
  ASSUME OpeningInv, NEW k \in Link, Close(k)
  PROVE  LET C == {k} \cup ClosedWith(k)
         IN /\ OpeningInv' /\ CanGo(C) /\ CloseLinks(C) /\ Present = listed
            /\ \A x \in Present \ C : SameShape(x)
<1> PICK C : C = {k} \cup ClosedWith(k)
  OBVIOUS
<1>1. work = None /\ k \in listed /\ CloseLinks(C) /\ work' = work /\ lost' = lost
  BY DEF Close, NoWork
<1>2. /\ listed \subseteq Present /\ Present \subseteq listed
      /\ \A l \in Present : l \in Link /\ l # None
  BY <1>1, Fields, Numbered DEF OpeningInv, ResourcesCounted, TypeOK, NoWork
<1>3. C \subseteq Present
  BY <1>1, <1>2 DEF ClosedWith
<1>4. \A l \in C : l = k \/ link[l].of = k
  BY DEF ClosedWith
<1>5. ASSUME NEW l \in Present, link[l].of \in C, link[l].uri.scheme # "TCP"
      PROVE  l \in C
  <2>1. link[l].of # None /\ link[l].of \in Present
    BY <1>2, <1>3, <1>5
  <2>2. link[link[l].of].listens
    BY <1>5, <2>1 DEF OpeningInv, LinkInv
  <2>3. link[link[l].of].of = None
    BY <2>1, <2>2 DEF OpeningInv, LinkInv
  <2>4. link[l].of = k
    BY <1>1, <1>2, <1>4, <1>5, <2>3
  <2>5. QED
    BY <1>2, <1>5, <2>4 DEF ClosedWith
<1>6. ASSUME NEW l \in Present, link[l].keeper \in C
      PROVE  l \in C
  <2>1. link[l].keeper # None
    BY <1>2, <1>3, <1>6
  <2>2. link[l].uri.scheme # "TCP" /\ link[l].keeper = IF link[l].of = None THEN l ELSE link[l].of
    BY <2>1 DEF OpeningInv, LinkInv
  <2>3. CASE link[l].of = None
    BY <1>6, <2>2, <2>3
  <2>4. CASE link[l].of # None
    BY <1>5, <1>6, <2>2, <2>4
  <2>5. QED
    BY <2>3, <2>4
<1>7. CanGo(C)
  BY <1>2, <1>3, <1>5, <1>6 DEF CanGo
<1>8. QED
  BY <1>1, <1>2, <1>7, LinksGo

LEMMA OpenUndone ==
  ASSUME OpeningInv, FragmenterFails \/ OpenRefused
  PROVE  OpeningInv' /\ listed' = listed /\ \A x \in listed : SameShape(x)
<1> PICK l : l = work.link
  OBVIOUS
<1>1. /\ work # None /\ work.todo[1] \in {"fragmenter", "add"} /\ work.of = None
      /\ CloseLinks({l}) /\ work' = None /\ lost' = lost
  BY DEF FragmenterFails, OpenRefused, Doing
<1>2. ~Welcome(work)
  BY <1>1, Fields, Numbered DEF Welcome, OpeningInv, ResourcesCounted
<1>3. \E keeper : Made(work, keeper)
  BY <1>1, <1>2, Doings
<1>4. l \in Present \ listed /\ l # None
  BY <1>3, Numbered DEF Made, Present
<1>5. Present \subseteq listed \cup {l}
  BY <1>1 DEF OpeningInv, ResourcesCounted, TypeOK, NoWork
<1>6. \A x \in Present : link[x].keeper = l => x = l
  BY <1>4, Keepers
<1>7. \A x \in Present : link[x].of = l /\ link[x].uri.scheme # "TCP" => x = l
  BY <1>4 DEF OpeningInv, LinkInv
<1>8. CanGo({l})
  BY <1>4, <1>5, <1>6, <1>7 DEF CanGo
<1>9. listed' = listed
  BY <1>1, <1>4 DEF CloseLinks
<1>10. listed \subseteq Present \ {l}
  BY <1>4, Fields DEF OpeningInv, ResourcesCounted
<1>11. QED
  BY <1>1, <1>4, <1>8, <1>9, <1>10, LinksGo

(* The work ends; its socket is closed or forgotten, when it has one.      *)
LEMMA WorkDropped ==
  ASSUME OpeningInv, work # None, work.link = None, work.keeper = None,
         NEW d \in Socket \cup {None}, d = work.socket, d # None => work.of = None,
         NEW forgets \in BOOLEAN, forgets => d # None,
         UNCHANGED <<link, lists>>, work' = None,
         shares' = [x \in Socket |-> IF x = d /\ ~forgets THEN shares[x] - 1 ELSE shares[x]],
         lost' = IF forgets THEN lost \cup {d} ELSE lost
  PROVE  OpeningInv'
<1>0. CountsHold'
  BY Counts, PTL
<1>1. link' = link /\ listed' = listed /\ owned' = owned
  BY DEF lists
<1>2. Present' = Present /\ \A l \in Present : SameShape(l)
  BY <1>1 DEF Present, Memory, SameShape
<1>3. /\ LinkInv'
      /\ \A l : KeptBy(l)' = KeptBy(l)
      /\ \A x : UsedBy(x)' = UsedBy(x)
  BY <1>1, <1>2, ShapesStay
<1>4. None \notin Present /\ None \notin Link /\ None \notin Socket /\ \A l \in Present : l \in Link
  BY Numbered DEF Present
<1>5. \A l \in Link : ~Keeping(l) /\ ~Keeping(l)'
  BY <1>4 DEF Keeping
<1>6. \A x : (Holds(x) <=> x = d) /\ ~Holds(x)'
  BY DEF Holds
<1>7. d # None => d \notin lost /\ UsedBy(d) = {}
  <2>1. d # None => d \notin lost
    BY <1>6 DEF OpeningInv, SocketInv
  <2>2. ASSUME NEW l \in Present, link[l].socket = d, d # None
        PROVE  FALSE
    <3>1. Holds(link[l].socket) /\ link[l].socket # None
      BY <1>6, <2>2
    <3>2. QED
      BY <2>2, <3>1 DEF OpeningInv, SocketInv
  <2>3. QED
    BY <2>1, <2>2 DEF UsedBy
<1>8. ASSUME NEW x \in Socket
      PROVE  /\ shares[x] = Cardinality(UsedBy(x)) + (IF x = d THEN 1 ELSE 0) + (IF x \in lost THEN 1 ELSE 0)
             /\ Cardinality(UsedBy(x)) \in Nat
  <2>1. shares[x] = Users(x) + (IF x \in lost THEN 1 ELSE 0)
    BY DEF OpeningInv, ResourcesCounted
  <2>2. Users(x) = Cardinality(UsedBy(x)) + (IF Holds(x) THEN 1 ELSE 0) /\ Cardinality(UsedBy(x)) \in Nat
    BY Counts DEF CountsHold
  <2>3. QED
    BY <1>6, <2>1, <2>2
<1>9. ASSUME NEW x \in Socket
      PROVE  /\ shares'[x] = Users(x)' + (IF x \in lost' THEN 1 ELSE 0)
             /\ shares'[x] \in Nat /\ (x \in lost' => shares'[x] # 0)
  <2>1. Users(x)' = Cardinality(UsedBy(x)') + (IF Holds(x)' THEN 1 ELSE 0)
    BY <1>0 DEF CountsHold
  <2>2. Users(x)' = Cardinality(UsedBy(x))
    BY <1>3, <1>6, <1>8, <2>1
  <2>3. shares'[x] = IF x = d /\ ~forgets THEN shares[x] - 1 ELSE shares[x]
    OBVIOUS
  <2>4. shares'[x] = Cardinality(UsedBy(x)) + (IF x \in lost' THEN 1 ELSE 0)
    <3>1. CASE x = d
      <4>1. d # None /\ x \notin lost
        BY <1>4, <1>7, <3>1
      <4>2. CASE forgets
        BY <1>8, <2>3, <3>1, <4>1, <4>2
      <4>3. CASE ~forgets
        BY <1>8, <2>3, <3>1, <4>1, <4>3
      <4>4. QED
        BY <4>2, <4>3
    <3>2. CASE x # d
      <4>1. x \in lost' <=> x \in lost
        BY <3>2
      <4>2. QED
        BY <1>8, <2>3, <3>2, <4>1
    <3>3. QED
      BY <3>1, <3>2
  <2>5. QED
    BY <1>8, <2>2, <2>4
<1>10. TypeOK'
  <2>1. shares' \in [Socket -> Nat]
    BY <1>9
  <2>2. lost' \subseteq Socket \ Unused'
    BY <1>9, Fields DEF OpeningInv, ResourcesCounted, Unused
  <2>3. Present \subseteq listed
    BY <1>4 DEF OpeningInv, ResourcesCounted, TypeOK
  <2>4. QED
    BY <1>1, <1>2, <2>1, <2>2, <2>3 DEF OpeningInv, ResourcesCounted, TypeOK
<1>11. ASSUME NEW l \in Present
       PROVE  link'[l].refs = Holders(l)'
  <2>1. link[l].refs = Holders(l)
    BY DEF OpeningInv, ResourcesCounted
  <2>2. Holders(l) = 1 + (IF l \in listed THEN 1 ELSE 0) + (IF l \in owned THEN 1 ELSE 0)
                       + Cardinality(KeptBy(l)) + (IF Keeping(l) THEN 1 ELSE 0)
    BY Counts DEF CountsHold
  <2>3. Holders(l)' = 1 + (IF l \in listed' THEN 1 ELSE 0) + (IF l \in owned' THEN 1 ELSE 0)
                       + Cardinality(KeptBy(l)') + (IF Keeping(l)' THEN 1 ELSE 0)
    BY <1>0 DEF CountsHold
  <2>4. QED
    BY <1>1, <1>3, <1>4, <1>5, <2>1, <2>2, <2>3
<1>12. SocketInv'
  <2>1. \A x, j \in Present' : x # j /\ link'[x].socket # None /\ link'[x].socket = link'[j].socket =>
          link'[x].uri.scheme = "ETH"
    BY <1>1, <1>2 DEF OpeningInv, SocketInv
  <2>2. \A x \in Present : link[x].socket \notin lost'
    BY <1>7 DEF OpeningInv, SocketInv, UsedBy
  <2>3. \A x \in Present' : ~Holds(link[x].socket)'
    BY DEF Holds
  <2>4. QED
    BY <1>1, <1>2, <1>6, <2>1, <2>2, <2>3 DEF SocketInv
<1>13. QED
  BY <1>2, <1>3, <1>9, <1>10, <1>11, <1>12 DEF OpeningInv, ResourcesCounted, WorkInv

LEMMA NothingToDrop ==
  ASSUME OpeningInv, work # None, work.todo[1] \in {"socket", "accept"},
         UNCHANGED <<link, shares, lists, lost>>, work' = None
  PROVE  OpeningInv'
<1>1. work.link = None /\ work.socket = None
  BY Doings DEF Unmade
<1>2. work.keeper = None
  <2>1. CASE work.todo[1] = "socket"
    BY <2>1, Doings DEF Asked
  <2>2. CASE work.todo[1] = "accept"
    <3>1. Welcome(work) /\ Taking(work) = "accept" /\ work.keeper \in {None, Keeper(work)}
      BY <2>2, Doings
    <3>2. work.uri.scheme = "TCP"
      BY <3>1 DEF Taking
    <3>3. work.of \in Present
      BY <3>1, Fields DEF Welcome, OpeningInv, ResourcesCounted
    <3>4. QED
      BY <3>1, <3>2, <3>3 DEF Keeper, Welcome, OpeningInv, LinkInv
  <2>3. QED
    BY <2>1, <2>2
<1>3. shares' = [x \in Socket |-> IF x = None /\ ~FALSE THEN shares[x] - 1 ELSE shares[x]]
  <2>1. shares \in [Socket -> Nat] /\ None \notin Socket
    BY Numbered DEF OpeningInv, ResourcesCounted, TypeOK
  <2>2. QED
    BY <2>1
<1>4. lost' = IF FALSE THEN lost \cup {None} ELSE lost
  OBVIOUS
<1>5. FALSE \in BOOLEAN
  OBVIOUS
<1>6. QED
  BY <1>1, <1>2, <1>3, <1>4, <1>5, WorkDropped

LEMMA CallFailed ==
  ASSUME OpeningInv, CallFails
  PROVE  OpeningInv'
<1>1. PICK step \in Faults \cap ({"socket", "accept"} \cup SystemCalls) :
        /\ Doing(step)
        /\ shares' = [d \in Socket |-> IF d \in ClosedAfter(step) THEN 0 ELSE shares[d]]
        /\ lost' = IF <<work.uri.scheme, step>> \in LeftOpen THEN lost \cup {work.socket} ELSE lost
        /\ work' = None
        /\ UNCHANGED <<link, lists>>
  BY DEF CallFails
<1>2. work # None /\ work.todo[1] = step
  BY <1>1 DEF Doing
<1>3. shares \in [Socket -> Nat]
  BY DEF OpeningInv, ResourcesCounted, TypeOK
<1>4. CASE step \in {"socket", "accept"}
  <2>1. work.socket = None
    BY <1>2, <1>4, Doings
  <2>2. ClosedAfter(step) = {}
    BY <2>1 DEF ClosedAfter
  <2>3. <<work.uri.scheme, step>> \notin LeftOpen
    BY <1>4 DEF LeftOpen
  <2>4. shares' = shares /\ lost' = lost
    BY <1>1, <1>3, <2>2, <2>3
  <2>5. QED
    BY <1>1, <1>2, <1>4, <2>4, NothingToDrop
<1>5. CASE step \in SystemCalls
  <2>1. PICK d : d = work.socket
    OBVIOUS
  <2>2. work.of = None /\ work.keeper = None /\ work.link = None /\ d \in Socket /\ d # None
    BY <1>2, <1>5, <2>1, Doings, Numbered DEF Asked, Unmade
  <2>3. PICK forgets \in BOOLEAN : forgets <=> <<work.uri.scheme, step>> \in LeftOpen
    <3>1. CASE <<work.uri.scheme, step>> \in LeftOpen
      BY <3>1
    <3>2. CASE <<work.uri.scheme, step>> \notin LeftOpen
      BY <3>2
    <3>3. QED
      BY <3>1, <3>2
  <2>4. ClosedAfter(step) = IF forgets THEN {} ELSE {d}
    BY <2>1, <2>2, <2>3 DEF ClosedAfter
  <2>5. shares[d] = 1
    <3>1. shares[d] = Users(d) + (IF d \in lost THEN 1 ELSE 0)
      BY <2>2 DEF OpeningInv, ResourcesCounted
    <3>2. Users(d) = Cardinality(UsedBy(d)) + (IF Holds(d) THEN 1 ELSE 0)
      BY Counts DEF CountsHold
    <3>3. Holds(d) /\ d \notin lost
      BY <1>2, <2>1, <2>2 DEF Holds, OpeningInv, SocketInv
    <3>4. ASSUME NEW l \in Present
          PROVE  link[l].socket # d
      BY <2>2, <3>3 DEF OpeningInv, SocketInv
    <3>5. Cardinality(UsedBy(d)) = 0
      <4>1. UsedBy(d) = {}
        BY <3>4 DEF UsedBy
      <4>2. QED
        BY <4>1, FS_EmptySet
    <3>6. QED
      BY <3>1, <3>2, <3>3, <3>5
  <2>6. shares' = [x \in Socket |-> IF x = d /\ ~forgets THEN shares[x] - 1 ELSE shares[x]]
    <3>1. \A x \in Socket : shares'[x] = IF x = d /\ ~forgets THEN shares[x] - 1 ELSE shares[x]
      <4>1. \A x \in Socket : shares'[x] = IF x \in ClosedAfter(step) THEN 0 ELSE shares[x]
        BY <1>1
      <4>2. shares[d] - 1 = 0
        BY <2>5
      <4>3. QED
        BY <2>4, <4>1, <4>2
    <3>2. shares' = [x \in Socket |-> shares'[x]]
      BY <1>1
    <3>3. QED
      BY <3>1, <3>2
  <2>7. lost' = IF forgets THEN lost \cup {d} ELSE lost
    BY <1>1, <2>1, <2>3
  <2>8. QED
    BY <1>1, <1>2, <2>1, <2>2, <2>6, <2>7, WorkDropped
<1>6. QED
  BY <1>4, <1>5

LEMMA SocketRefused ==
  ASSUME OpeningInv, NoSocket
  PROVE  OpeningInv'
BY NothingToDrop DEF NoSocket, Doing

LEMMA CloneTurnedAway ==
  ASSUME OpeningInv, CloneRefused
  PROVE  OpeningInv' /\ listed' = listed /\ \A x \in listed : SameShape(x)
<1> PICK l, d : l = work.link /\ d = work.socket
  OBVIOUS
<1>0. CountsHold'
  BY Counts, PTL
<1>1. /\ work # None /\ work.todo[1] = "add" /\ work.of # None /\ work.uri.scheme = "TCP"
      /\ link' = [link EXCEPT ![l] = None]
      /\ shares' = [shares EXCEPT ![d] = @ - 1]
      /\ lost' = lost /\ work' = None /\ listed' = listed /\ owned' = owned
  BY DEF CloneRefused, Doing, lists
<1>2. work \in Work /\ Welcome(work) /\ work.keeper \in {None, Keeper(work)} /\ Made(work, work.keeper)
  BY <1>1, Doings DEF Asked
<1>3. /\ link \in [Link -> LinkState \cup {None}] /\ shares \in [Socket -> Nat]
      /\ owned = listed /\ listed \subseteq Present /\ lost \subseteq Socket \ Unused
      /\ Present \subseteq listed \cup {l}
  BY <1>1, Fields DEF OpeningInv, ResourcesCounted, TypeOK, NoWork
<1>4. /\ \A x \in Present : x \in Link /\ x # None /\ link[x] # None /\ link[x] \in LinkState
      /\ \A x \in Link : x \notin Present <=> link[x] = None
  BY Fields, Numbered DEF OpeningInv, ResourcesCounted
<1>5. /\ l \in Present /\ l \notin listed /\ link[l].socket = d
      /\ link[l].uri = work.uri
  BY <1>2 DEF Made
<1>6. link[l].keeper = None
  BY <1>1, <1>5 DEF OpeningInv, LinkInv
<1>8. /\ \A x : ~Keeping(x) /\ ~Keeping(x)'
      /\ \A x : ~Holds(x) /\ ~Holds(x)'
  BY <1>1, <1>4, <1>5 DEF Keeping, Holds
<1>9. ASSUME NEW x \in Present
      PROVE  link[x].refs = 1 + (IF x \in listed THEN 2 ELSE 0) + Cardinality(KeptBy(x)) /\ Cardinality(KeptBy(x)) \in Nat
  <2>1. link[x].refs = Holders(x)
    BY DEF OpeningInv, ResourcesCounted
  <2>2. /\ Holders(x) = 1 + (IF x \in listed THEN 1 ELSE 0) + (IF x \in owned THEN 1 ELSE 0)
                          + Cardinality(KeptBy(x)) + (IF Keeping(x) THEN 1 ELSE 0)
        /\ Cardinality(KeptBy(x)) \in Nat
    BY Counts DEF CountsHold
  <2>3. QED
    BY <1>3, <1>8, <2>1, <2>2
<1>10. \A x \in Present : KeptBy(x) \ {l} = KeptBy(x)
  BY <1>4, <1>6 DEF KeptBy
<1>11. ASSUME NEW x
       PROVE  /\ Cardinality(UsedBy(x) \ {l}) = Cardinality(UsedBy(x)) - (IF x = d THEN 1 ELSE 0)
              /\ Cardinality(UsedBy(x) \ {l}) \in Nat
  <2>1. UsedBy(x) \subseteq Link /\ UsedBy(x) \ {l} \subseteq Link /\ Cardinality(UsedBy(x)) \in Nat
    BY Counts DEF CountsHold
  <2>2. CASE x = d
    <3>1. {l} \subseteq UsedBy(x)
      BY <1>5, <2>2 DEF UsedBy
    <3>2. Cardinality({l}) = 1
      BY FS_Singleton
    <3>3. Cardinality(UsedBy(x) \ {l}) = Cardinality(UsedBy(x)) - Cardinality({l})
      BY <2>1, <3>1, SomeLess
    <3>4. Cardinality(UsedBy(x) \ {l}) \in Nat
      BY <2>1, LinksCount
    <3>5. QED
      BY <2>2, <3>2, <3>3, <3>4
  <2>3. CASE x # d
    <3>1. UsedBy(x) \ {l} = UsedBy(x)
      BY <1>5, <2>3 DEF UsedBy
    <3>2. QED
      BY <2>1, <2>3, <3>1
  <2>4. QED
    BY <2>2, <2>3
<1>12. ASSUME NEW x \in Present \ {l}
       PROVE  link'[x] = link[x] /\ link'[x] \in LinkState /\ SameShape(x)
  <2>1. link'[x] = link[x]
    BY <1>1, <1>3, <1>4
  <2>2. QED
    BY <1>4, <2>1 DEF SameShape
<1>13. link'[l] = None
  BY <1>1, <1>3, <1>4, <1>5
<1>14. \A x \in Link : x \notin Present \ {l} => link'[x] = None
  BY <1>1, <1>3, <1>4, <1>13
<1>15. link' \in [Link -> LinkState \cup {None}]
  BY <1>1, <1>3, <1>4, <1>5
<1>16. Present' = Present \ {l}
  <2>1. \A x \in Link : link'[x] = None <=> x \notin Present \ {l}
    BY <1>12, <1>14, Numbered
  <2>2. Present' \subseteq Link /\ Present \ {l} \subseteq Link /\ \A x \in Link : x \in Present' <=> link'[x] # None
    BY <1>4 DEF Present, Memory
  <2>3. QED
    BY <2>1, <2>2
<1>17. \A x : KeptBy(x)' = KeptBy(x) \ {l}
  BY <1>12, <1>16 DEF KeptBy, SameShape
<1>18. \A x : UsedBy(x)' = UsedBy(x) \ {l}
  BY <1>12, <1>16 DEF UsedBy, SameShape
<1>19. ASSUME NEW x \in Present'
       PROVE  link'[x].refs = Holders(x)'
  <2>1. Holders(x)' = 1 + (IF x \in listed' THEN 1 ELSE 0) + (IF x \in owned' THEN 1 ELSE 0)
                        + Cardinality(KeptBy(x)') + (IF Keeping(x)' THEN 1 ELSE 0)
    BY <1>0 DEF CountsHold
  <2>2. KeptBy(x)' = KeptBy(x)
    BY <1>10, <1>16, <1>17
  <2>3. Holders(x)' = 1 + (IF x \in listed THEN 2 ELSE 0) + Cardinality(KeptBy(x))
    BY <1>1, <1>3, <1>8, <1>9, <1>16, <2>1, <2>2
  <2>4. QED
    BY <1>9, <1>12, <1>16, <2>3
<1>20. d # None => d \in Socket /\ d \notin lost
  BY <1>4, <1>5 DEF OpeningInv, SocketInv, LinkState
<1>21. ASSUME NEW x \in Socket
       PROVE  /\ shares'[x] = Users(x)' + (IF x \in lost' THEN 1 ELSE 0)
              /\ shares'[x] \in Nat /\ (x \in lost' => shares'[x] # 0)
  <2>1. shares[x] = Users(x) + (IF x \in lost THEN 1 ELSE 0)
    BY DEF OpeningInv, ResourcesCounted
  <2>2. Users(x) = Cardinality(UsedBy(x)) + (IF Holds(x) THEN 1 ELSE 0) /\ Cardinality(UsedBy(x)) \in Nat
    BY Counts DEF CountsHold
  <2>3. Users(x)' = Cardinality(UsedBy(x)') + (IF Holds(x)' THEN 1 ELSE 0)
    BY <1>0 DEF CountsHold
  <2>4. Users(x)' = Cardinality(UsedBy(x) \ {l})
    BY <1>8, <1>11, <1>18, <2>3
  <2>5. shares[x] = Cardinality(UsedBy(x)) + (IF x \in lost THEN 1 ELSE 0)
    BY <1>8, <2>1, <2>2
  <2>6. shares'[x] = IF x = d THEN shares[x] - 1 ELSE shares[x]
    BY <1>1, <1>3
  <2>7. x = d => x \notin lost
    BY <1>20, Numbered
  <2>8. shares'[x] = Cardinality(UsedBy(x) \ {l}) + (IF x \in lost' THEN 1 ELSE 0)
    <3>1. CASE x = d
      BY <1>1, <1>11, <2>2, <2>5, <2>6, <2>7, <3>1
    <3>2. CASE x # d
      BY <1>1, <1>11, <2>2, <2>5, <2>6, <3>2
    <3>3. QED
      BY <3>1, <3>2
  <2>9. QED
    BY <1>11, <2>4, <2>8
<1>22. TypeOK'
  <2>1. shares' \in [Socket -> Nat]
    BY <1>1, <1>3, <1>21
  <2>2. lost' \subseteq Socket
    BY <1>1, <1>3
  <2>3. lost' \subseteq Socket \ Unused'
    BY <1>21, <2>2 DEF Unused
  <2>4. listed' = owned' /\ listed' \subseteq Present' /\ Present' \subseteq listed'
    BY <1>1, <1>3, <1>5, <1>16
  <2>5. QED
    BY <1>1, <1>15, <2>1, <2>3, <2>4 DEF TypeOK
<1>23. LinkInv'
  <2>1. ASSUME NEW x \in Present \ {l}
        PROVE  /\ link'[x].listens => link'[x].of = None
               /\ link'[x].keeper # None => /\ link'[x].uri.scheme # "TCP"
                                            /\ link'[x].keeper = IF link'[x].of = None THEN x ELSE link'[x].of
               /\ link'[x].of # None /\ link'[x].uri.scheme # "TCP" =>
                    /\ link'[x].of \in listed' /\ link'[link'[x].of].listens
                    /\ link'[link'[x].of].uri = link'[x].uri
    <3>1. listed \subseteq Present \ {l} /\ listed' = listed
      BY <1>1, <1>3, <1>5
    <3>2. SameShape(x) /\ (link[x].of \in listed => SameShape(link[x].of))
      BY <1>12, <3>1
    <3>3. /\ link[x].listens => link[x].of = None
          /\ link[x].keeper # None => /\ link[x].uri.scheme # "TCP"
                                      /\ link[x].keeper = IF link[x].of = None THEN x ELSE link[x].of
          /\ link[x].of # None /\ link[x].uri.scheme # "TCP" =>
               /\ link[x].of \in listed /\ link[link[x].of].listens
               /\ link[link[x].of].uri = link[x].uri
      BY DEF OpeningInv, LinkInv
    <3>4. QED
      BY <3>1, <3>2, <3>3 DEF SameShape
  <2>2. QED
    BY <1>16, <2>1 DEF LinkInv
<1>24. SocketInv'
  <2>1. \A x, j \in Present' : x # j /\ link'[x].socket # None /\ link'[x].socket = link'[j].socket =>
          link'[x].uri.scheme = "ETH"
    <3>1. \A x \in Present' : /\ x \in Present /\ link'[x].socket = link[x].socket
                             /\ link'[x].uri = link[x].uri
      BY <1>12, <1>16 DEF SameShape
    <3>2. QED
      BY <3>1 DEF OpeningInv, SocketInv
  <2>2. ASSUME NEW x \in Present \ {l}
        PROVE  link'[x].socket \notin lost'
    <3>1. link'[x].socket = link[x].socket /\ link[x].socket \notin lost
      BY <1>12 DEF SameShape, OpeningInv, SocketInv
    <3>2. QED
      BY <1>1, <3>1
  <2>3. \A x \in Present' : ~Holds(link[x].socket)'
    BY <1>1 DEF Holds
  <2>4. QED
    BY <1>8, <1>16, <2>1, <2>2, <2>3 DEF SocketInv
<1>25. WorkInv'
  BY <1>1 DEF WorkInv
<1>26. \A x \in listed : SameShape(x)
  BY <1>3, <1>5, <1>12
<1>27. QED
  BY <1>1, <1>26, <1>19, <1>21, <1>22, <1>23, <1>24, <1>25 DEF OpeningInv, ResourcesCounted

(***************************************************************************)
(* Every state                                                             *)
(***************************************************************************)
LEMMA OpeningBegins ==
  ASSUME Init
  PROVE  OpeningInv
<1>1. Present = {}
  BY DEF Init, Present, Memory
<1>2. work = None /\ listed = {} /\ owned = {} /\ lost = {} /\ \A d \in Socket : shares[d] = 0
  BY DEF Init
<1>3. TypeOK
  BY <1>1 DEF Init, TypeOK
<1>4. \A d \in Socket : shares[d] = Users(d) + (IF d \in lost THEN 1 ELSE 0)
  <2>1. \A d : UsedBy(d) = {} /\ ~Holds(d)
    BY <1>1, <1>2 DEF UsedBy, Holds
  <2>2. \A d : Cardinality(UsedBy(d)) = 0
    BY <2>1, FS_EmptySet
  <2>3. \A d : Users(d) = 0
    BY <2>1, <2>2, Counts DEF CountsHold
  <2>4. QED
    BY <1>2, <2>3
<1>5. QED
  BY <1>1, <1>2, <1>3, <1>4 DEF OpeningInv, ResourcesCounted, WorkInv, LinkInv, SocketInv, Holds

LEMMA AllEnds ==
  ASSUME CloneCrashes
  PROVE  Init' /\ listed' = {} /\ \A l \in Link : link'[l] = None
BY DEF CloneCrashes, Init

LEMMA OpeningBegun == Init => OpeningInv
BY OpeningBegins

LEMMA OpeningBeginsAgain ==
  ASSUME CloneCrashes
  PROVE  OpeningInv'
<1>1. Init' => OpeningInv'
  BY OpeningBegun, PTL
<1>2. QED
  BY <1>1, AllEnds

LEMMA OpeningStays ==
  ASSUME OpeningInv, UNCHANGED vars
  PROVE  OpeningInv'
BY DEF vars, lists, OpeningInv, ResourcesCounted, TypeOK, WorkInv, LinkInv, SocketInv, Holds, Holders, Users,
       Present, Memory, Unused, NoWork, Opens, Clones, Asked, Welcome, Fragments, Keeper, Taking, Unmade, Made

LEMMA OpeningGoesOn ==
  ASSUME OpeningInv, [Next]_vars
  PROVE  OpeningInv'
<1>1. ASSUME NEW u \in Uri, BeginOpen(u)
      PROVE  OpeningInv'
  BY <1>1, OpenBegins
<1>2. ASSUME NEW k \in Link, NEW n \in PeerName, BeginClone(k, n)
      PROVE  OpeningInv'
  BY <1>2, CloneBegins
<1>3. ASSUME TakeSocket
      PROVE  OpeningInv'
  BY <1>3, NoDescriptorForClone, DescriptorTaken
<1>4. ASSUME CreateFragmenter
      PROVE  OpeningInv'
  BY <1>4, FragmenterForClone, FragmenterForOpen
<1>5. ASSUME Undo
      PROVE  OpeningInv'
  BY <1>5, CallFailed, SocketRefused, OpenUndone, NoFragmenterForClone, CloneTurnedAway,
     OpeningBeginsAgain DEF Undo
<1>6. QED
  BY <1>1, <1>2, <1>3, <1>4, <1>5, DescriptorShared, CallMade, LinkCreated, LinkAdded, LinkClosed,
     OpeningStays DEF Next

(* Every reference and every user of a descriptor is counted, and what is  *)
(* left to do when a link is made fits what is there: a link is kept by    *)
(* itself or its listener, a listener stays as long as its socket is       *)
(* shared, and only Ethernet links share one (athenaTransportLink_Acquire  *)
(* and _Release, athenaEthernet_Acquire and _Release, _closeConnection).   *)
THEOREM OpeningInvariant == Spec => []OpeningInv
<1>1. Init => OpeningInv
  BY OpeningBegins
<1>2. OpeningInv /\ [Next]_vars => OpeningInv'
  BY OpeningGoesOn
<1>3. QED
  BY <1>1, <1>2, PTL DEF Spec

(* As long as the process runs, however opens fail, peers come and links   *)
(* are closed, the references to a link and the users of a descriptor are  *)
(* as many as their counts say (athenaTransportLink_Release,               *)
(* athenaEthernet_Release, close).  It stops when the UDP or ETH link of a *)
(* peer is refused (CloneCrashes).                                         *)
THEOREM AlwaysCounted == Spec => []ResourcesCounted
<1>1. OpeningInv => ResourcesCounted
  BY DEF OpeningInv
<1>2. QED
  BY <1>1, OpeningInvariant, PTL

(***************************************************************************)
(* The links others can tell of                                            *)
(***************************************************************************)
LEMMA OpenedToOthers ==
  ASSUME OpeningInv
  PROVE  /\ \A l \in listed : /\ OpenedAs(l) = [uri |-> link[l].uri, of |-> link[l].of, name |-> link[l].name,
                                                listens |-> link[l].listens,
                                                fragments |-> link[l].keeper # None,
                                                forced |-> link[l].forced]
                              /\ OpenedAs(l) # None /\ OpenedAs(l).name = link[l].name /\ l \in Link
         /\ Opened!There = listed
<1>1. \A l \in listed : l \in Link /\ link[l] \in LinkState
  BY Fields DEF OpeningInv, ResourcesCounted
<1>2. ASSUME NEW l \in listed
      PROVE  /\ OpenedAs(l) = [uri |-> link[l].uri, of |-> link[l].of, name |-> link[l].name,
                               listens |-> link[l].listens,
                               fragments |-> link[l].keeper # None,
                               forced |-> link[l].forced]
             /\ OpenedAs(l) # None /\ OpenedAs(l).name = link[l].name
  <2>1. OpenedAs(l) = [uri |-> link[l].uri, of |-> link[l].of, name |-> link[l].name,
                       listens |-> link[l].listens, fragments |-> link[l].keeper # None,
                       forced |-> link[l].forced]
    BY DEF OpenedAs
  <2>2. OpenedAs(l) \in Description
    <3>1. link[l] \in LinkState
      BY <1>1
    <3>2. (link[l].keeper # None) \in BOOLEAN
      OBVIOUS
    <3>3. QED
      BY <2>1, <3>1, <3>2 DEF LinkState, Description
  <2>3. OpenedAs(l).name = link[l].name
    BY DEF OpenedAs
  <2>4. QED
    BY <2>1, <2>2, <2>3, Numbered
<1>3. Opened!There = listed
  <2>1. \A l \in Link : OpenedAs(l) # None <=> l \in listed
    BY <1>2 DEF OpenedAs
  <2>2. QED
    BY <1>1, <2>1 DEF Opened!There
<1>4. QED
  BY <1>1, <1>2, <1>3

LEMMA ToldTheSame ==
  ASSUME listed' = listed, \A x \in listed : SameShape(x)
  PROVE  [l \in Link |-> OpenedAs(l)]' = [l \in Link |-> OpenedAs(l)]
<1>1. ASSUME NEW l \in Link
      PROVE  OpenedAs(l)' = OpenedAs(l)
  BY DEF OpenedAs, SameShape
<1>2. QED
  BY <1>1

LEMMA JoinedAs ==
  ASSUME NEW u, NEW of, NEW name, NEW listens, NEW fragments, NEW forced, NEW n, NEW k, NEW b, NEW f, NEW x,
         x = [uri |-> u, of |-> of, name |-> name, listens |-> listens,
              fragments |-> fragments, forced |-> forced],
         NEW y, y = [x EXCEPT !.listens = b, !.name = n, !.of = k, !.fragments = f]
  PROVE  y = [uri |-> u, of |-> k, name |-> n, listens |-> b,
              fragments |-> f, forced |-> forced]
OBVIOUS

LEMMA AddTold ==
  ASSUME OpeningInv, AddLink
  PROVE  Opened!Next
<1> PICK l : l = work.link
  OBVIOUS
<1> DEFINE told == [x \in Link |-> OpenedAs(x)]
<1>1. /\ work # None /\ work.todo[1] = "add" /\ ~NameTaken(work.name)
      /\ link' = [link EXCEPT ![l].refs = @ + 2] /\ listed' = listed \cup {l}
  BY DEF AddLink, Doing
<1>2. /\ work \in Work
      /\ \/ Asked(work) /\ Made(work, IF Fragments(work) THEN l ELSE None)
         \/ Welcome(work) /\ work.keeper \in {None, Keeper(work)} /\ Made(work, work.keeper)
  BY <1>1, Doings
<1>3. PICK keeper : /\ Made(work, keeper)
                    /\ \/ Asked(work) /\ keeper = IF Fragments(work) THEN l ELSE None
                       \/ Welcome(work) /\ keeper \in {None, Keeper(work)}
  BY <1>2
<1>4. /\ l \in Present \ listed /\ l \in Link /\ l # None /\ link[l] \in LinkState
      /\ link[l].uri = work.uri /\ link[l].of = work.of /\ link[l].name = work.name
      /\ link[l].listens = work.listens /\ link[l].forced = work.forced /\ link[l].keeper = keeper
  BY <1>3, Fields, Numbered DEF Made, OpeningInv, ResourcesCounted
<1>5. link \in [Link -> LinkState \cup {None}]
  BY DEF OpeningInv, ResourcesCounted, TypeOK
<1>6. \A x \in Link : SameShape(x)
  <2>1. \A x \in Link : x # l => link'[x] = link[x]
    BY <1>1, <1>5
  <2>2. SameShape(l)
    BY <1>1, <1>4, <1>5 DEF SameShape, LinkState
  <2>3. QED
    BY <2>1, <2>2 DEF SameShape
<1> PICK what : what = [uri |-> work.uri, of |-> work.of, name |-> work.name, listens |-> work.listens,
                        fragments |-> keeper # None, forced |-> work.forced]
  OBVIOUS
<1>7. /\ OpenedAs(l)' = what
      /\ \A x \in Link : x # l => OpenedAs(x)' = OpenedAs(x)
  BY <1>1, <1>4, <1>6 DEF OpenedAs, SameShape
<1>8. told' = [told EXCEPT ![l] = what]
  BY <1>4, <1>7
<1>9. \A k \in listed : /\ told[k] = [uri |-> link[k].uri, of |-> link[k].of, name |-> link[k].name,
                                      listens |-> link[k].listens,
                                      fragments |-> link[k].keeper # None,
                                      forced |-> link[k].forced]
                        /\ k \in Link
  BY OpenedToOthers
<1>10. Opened!There = listed
  BY OpenedToOthers
<1>11. \A k \in listed : told[k].name # what.name
  <2>1. \A k \in listed : told[k].name = link[k].name
    BY OpenedToOthers
  <2>2. what.name = work.name /\ \A k \in listed : link[k].name # work.name
    BY <1>1 DEF NameTaken
  <2> HIDE DEF told
  <2>3. QED
    BY <2>1, <2>2
<1>12. Opened!Add(l, what)
  BY <1>4, <1>8, <1>10, <1>11 DEF Opened!Add
<1>13. CASE Asked(work) /\ keeper = IF Fragments(work) THEN l ELSE None
  <2>1. PICK u \in Uri : u = work.uri
    BY <1>2 DEF Work
  <2>2. PICK p : p = Parameters(u)
    OBVIOUS
  <2>3. /\ work.of = None /\ p # Malformed /\ work.listens = p.listens /\ work.forced = p.forced
        /\ work.name = (IF p.name = None THEN u.at ELSE p.name) /\ Fragments(work) = p.fragments
    BY <1>13, <2>1, <2>2 DEF Asked, Fragments
  <2>4. /\ p \in ParameterSet /\ Opened!Legal(u)
        /\ Opened!Meaning(u) =
             [uri |-> u, of |-> None, name |-> IF p.name = None THEN u.at ELSE p.name,
              listens |-> p.listens, fragments |-> p.fragments, forced |-> p.forced]
    BY <2>2, <2>3, MeaningOfURI
  <2>5. p.fragments \in BOOLEAN
    BY <2>4 DEF ParameterSet
  <2>6. (keeper # None) = p.fragments
    BY <1>4, <1>13, <2>3, <2>5
  <2>7. what = Opened!Meaning(u)
    BY <2>1, <2>3, <2>4, <2>6
  <2>8. Opened!Open(l, u)
    BY <1>12, <2>4, <2>7 DEF Opened!Open
  <2>9. QED
    BY <1>4, <2>8 DEF Opened!Next
<1>14. CASE Welcome(work) /\ keeper \in {None, Keeper(work)}
  <2>1. PICK k : k = work.of
    OBVIOUS
  <2>2. PICK n \in Name : n = work.name
    BY <1>2 DEF Work
  <2>3. /\ k \in listed /\ k \in Link /\ k # None /\ link[k].listens /\ link[k].uri = work.uri
        /\ link[k].forced = work.forced /\ ~work.listens
        /\ keeper # None => link[k].keeper # None
    BY <1>9, <1>14, <2>1, Numbered DEF Welcome, Keeper
  <2>4. PICK fragments \in BOOLEAN : fragments = (keeper # None)
    OBVIOUS
  <2>5. work.listens = FALSE
    BY <1>2, <2>3 DEF Work
  <2>6. told[k] = [uri |-> work.uri, of |-> link[k].of, name |-> link[k].name,
                   listens |-> link[k].listens,
                   fragments |-> link[k].keeper # None,
                   forced |-> work.forced]
    BY <1>9, <2>3
  <2>11. fragments \in {told[k].fragments, FALSE}
    <3>1. told[k].fragments = (link[k].keeper # None)
      BY <2>6
    <3>2. QED
      BY <2>3, <2>4, <3>1
  <2> HIDE DEF told
  <2>7. what = [told[k] EXCEPT !.listens = FALSE, !.name = n, !.of = k, !.fragments = fragments]
    <3>1. PICK b : b = FALSE
      OBVIOUS
    <3>2. PICK f : f = (link[k].keeper # None)
      OBVIOUS
    <3>3. PICK y : y = [told[k] EXCEPT !.listens = b, !.name = n, !.of = k, !.fragments = fragments]
      OBVIOUS
    <3>4. PICK x, u, of, name, listens, forced :
            /\ x = told[k] /\ u = work.uri /\ of = link[k].of /\ name = link[k].name
            /\ listens = link[k].listens /\ forced = work.forced
      OBVIOUS
    <3>5. x = [uri |-> u, of |-> of, name |-> name, listens |-> listens, fragments |-> f, forced |-> forced]
      BY <2>6, <3>2, <3>4
    <3>6. y = [x EXCEPT !.listens = b, !.name = n, !.of = k, !.fragments = fragments]
      BY <3>3, <3>4
    <3>7. y = [uri |-> u, of |-> k, name |-> n, listens |-> b, fragments |-> fragments, forced |-> forced]
      BY <3>5, <3>6, JoinedAs
    <3>8. what = [uri |-> u, of |-> k, name |-> n, listens |-> b, fragments |-> fragments, forced |-> forced]
      BY <2>1, <2>2, <2>4, <2>5, <3>1, <3>4
    <3>9. y = [told[k] EXCEPT !.listens = FALSE, !.name = n, !.of = k, !.fragments = fragments]
      BY <3>1, <3>3
    <3>10. QED
      BY <3>7, <3>8, <3>9
  <2>8. told[k].listens
    BY <2>3, <2>6
  <2>9. Opened!Join(l, k, n)
    BY <1>10, <1>12, <2>3, <2>7, <2>8, <2>11 DEF Opened!Join, told
  <2>10. QED
    BY <1>4, <2>3, <2>9 DEF Opened!Next
<1>15. QED
  BY <1>3, <1>13, <1>14

LEMMA CloseTold ==
  ASSUME OpeningInv, NEW k \in Link, Close(k)
  PROVE  Opened!Next
<1> PICK C : C = {k} \cup ClosedWith(k)
  OBVIOUS
<1>1. CanGo(C) /\ CloseLinks(C) /\ Present = listed /\ \A x \in Present \ C : SameShape(x)
  BY LinkClosed
<1>2. C \subseteq listed /\ listed' = listed \ C
  BY <1>1 DEF CanGo, CloseLinks
<1>3. Opened!There = listed
  BY OpenedToOthers
<1>4. ASSUME NEW x \in Link
      PROVE  OpenedAs(x)' = IF x \in C THEN None ELSE OpenedAs(x)
  BY <1>1, <1>2 DEF OpenedAs, SameShape
<1>5. ASSUME NEW j \in C, NEW x \in listed, Opened!SharesSocket(x, j)
      PROVE  x \in C
  <2>1. link[x].of = j /\ link[x].uri.scheme # "TCP"
    BY <1>5, OpenedToOthers DEF Opened!SharesSocket
  <2>2. QED
    BY <1>1, <2>1 DEF CanGo
<1>6. Opened!Close(C)
  BY <1>3, <1>4, <1>5 DEF Opened!Close
<1>7. QED
  BY <1>2, <1>3, <1>6 DEF Opened!Next

LEMMA FragmenterUntold ==
  ASSUME OpeningInv, CreateFragmenter
  PROVE  listed' = listed /\ \A x \in listed : SameShape(x)
<1>1. work # None /\ work.todo[1] = "fragmenter" /\ listed' = listed
  BY DEF CreateFragmenter, Doing, lists
<1>2. link \in [Link -> LinkState \cup {None}] /\ \A x \in listed : x \in Link /\ link[x] \in LinkState
  BY Fields DEF OpeningInv, ResourcesCounted, TypeOK
<1>3. CASE work.of = None
  <2>1. ~Welcome(work)
    BY <1>3, Fields, Numbered DEF Welcome, OpeningInv, ResourcesCounted
  <2>2. work.link \notin listed
    BY <1>1, <2>1, Doings DEF Made
  <2>3. link' = [KeepFor(work.link) EXCEPT ![work.link].keeper = work.link]
    BY <1>3 DEF CreateFragmenter
  <2>4. \A x \in listed : link'[x] = link[x]
    BY <1>2, <2>2, <2>3 DEF KeepFor
  <2>5. QED
    BY <1>1, <2>4 DEF SameShape
<1>4. CASE work.of # None
  <2>1. link' = link \/ link' = [link EXCEPT ![work.of].refs = @ + 1]
    BY <1>4 DEF CreateFragmenter, KeepFor
  <2>2. CASE link' = link
    BY <1>1, <2>2 DEF SameShape
  <2>3. CASE link' = [link EXCEPT ![work.of].refs = @ + 1]
    <3>1. \A x \in listed : x # work.of => link'[x] = link[x]
      BY <1>2, <2>3
    <3>2. work.of \in listed => SameShape(work.of)
      BY <1>2, <2>3 DEF SameShape, LinkState
    <3>3. QED
      BY <1>1, <3>1, <3>2 DEF SameShape
  <2>4. QED
    BY <2>1, <2>2, <2>3
<1>5. QED
  BY <1>3, <1>4

LEMMA CreateUntold ==
  ASSUME OpeningInv, CreateLink
  PROVE  listed' = listed /\ \A x \in listed : SameShape(x)
<1>1. work # None /\ work.todo[1] = "create" /\ listed' = listed
  BY DEF CreateLink, Doing, lists
<1>2. Least(Memory) \in Memory
  <2>1. Unmade(work)
    BY <1>1, Doings
  <2>2. Memory \subseteq Nat /\ Memory # {}
    BY <2>1, Numbered DEF Memory, Unmade
  <2>3. QED
    BY <2>2, LeastIn
<1>3. \A x \in listed : x \in Link /\ x # Least(Memory)
  BY <1>2, Fields DEF OpeningInv, ResourcesCounted, Present
<1>4. \A x \in listed : link'[x] = link[x]
  <2>1. link \in [Link -> LinkState \cup {None}]
    BY DEF OpeningInv, ResourcesCounted, TypeOK
  <2>2. QED
    BY <1>3, <2>1 DEF CreateLink
<1>5. QED
  BY <1>1, <1>4 DEF SameShape

LEMMA NextTold ==
  ASSUME OpeningInv, [Next]_vars
  PROVE  Opened!Next \/ [l \in Link |-> OpenedAs(l)]' = [l \in Link |-> OpenedAs(l)]
<1> DEFINE Untold == listed' = listed /\ \A x \in listed : SameShape(x)
<1>1. ASSUME link' = link, listed' = listed
      PROVE  Untold
  BY <1>1 DEF SameShape
<1>2. ASSUME NEW u \in Uri, BeginOpen(u)
      PROVE  Untold
  BY <1>1, <1>2 DEF BeginOpen, lists
<1>3. ASSUME NEW k \in Link, NEW n \in PeerName, BeginClone(k, n)
      PROVE  Untold
  BY <1>1, <1>3 DEF BeginClone, lists
<1>4. ASSUME TakeSocket \/ ShareSocket \/ Call
      PROVE  Untold
  BY <1>1, <1>4 DEF TakeSocket, ShareSocket, Call, lists
<1>5. ASSUME Undo, ~CloneCrashes
      PROVE  Untold
  <2>1. ASSUME CallFails \/ NoSocket \/ CloneGoesWithout
        PROVE  Untold
    BY <1>1, <2>1 DEF CallFails, NoSocket, CloneGoesWithout, lists
  <2>2. ASSUME FragmenterFails \/ OpenRefused
        PROVE  Untold
    BY <2>2, OpenUndone
  <2>3. ASSUME CloneRefused
        PROVE  Untold
    BY <2>3, CloneTurnedAway
  <2>4. QED
    BY <1>5, <2>1, <2>2, <2>3 DEF Undo
<1>6. ASSUME UNCHANGED vars
      PROVE  Untold
  BY <1>1, <1>6 DEF vars, lists
<1>7. ASSUME CreateLink \/ CreateFragmenter
      PROVE  Untold
  BY <1>7, CreateUntold, FragmenterUntold
<1>8. Untold \/ AddLink \/ CloneCrashes \/ \E k \in Link : Close(k)
  <2> HIDE DEF Untold
  <2>1. QED
    BY <1>2, <1>3, <1>4, <1>5, <1>6, <1>7 DEF Next, Undo
<1>9. CASE CloneCrashes
  BY <1>9, AllEnds DEF OpenedAs, Opened!Halt, Opened!Next
<1>10. QED
  BY <1>8, <1>9, ToldTheSame, AddTold, CloseTold

(* An open makes the link its URI describes, the last of each option       *)
(* counting, or none at all; no two links have one name; the link of a     *)
(* peer has what its listener has, but for a fragmenter it may lack, and   *)
(* goes with the listener when they share a socket; and they all may stop  *)
(* at once (athenaTransportLinkModule_Open, _cloneNewLink,                 *)
(* _closeConnection).                                                      *)
THEOREM LinksOpenAsPromised == Spec => ImplementsOpenLinks
<1>1. Init => Opened!Init
  BY DEF Init, Opened!Init, OpenedAs
<1>2. OpeningInv /\ [Next]_vars => [Opened!Next]_[l \in Link |-> OpenedAs(l)]
  BY NextTold
<1>3. QED
  BY <1>1, <1>2, OpeningInvariant, PTL DEF Spec, ImplementsOpenLinks, Opened!Spec

(***************************************************************************)
(* The configuration.  What the commands, the state file and the starts of *)
(* AthenaConfiguration keep to, for any links, prefixes and command lines. *)
(***************************************************************************)
AnyName == {s.name : s \in LinkSpec} \cup Peer

AnyOption == LinkSpec \cup {StateFile, Debug}

ConfigSet ==
  [links : SUBSET LinkSpec, peers : SUBSET Peer, routes : SUBSET (Prefix \X AnyName),
   level : Level \cup {Nothing}, spawned : SUBSET LinkSpec, exit : BOOLEAN]

(* Names are unique and routes are over links there are.                   *)
Sound(c) ==
  /\ c \in ConfigSet
  /\ \A s, t \in c.links : s.name = t.name => s = t
  /\ \A r \in c.routes : r[2] \in Routable(c)

(* A name with arguments that need not be its own.                         *)
Request ==
  [do : {"link add", "spawn", "link remove", "route add", "route remove"},
   with : LinkArgument \cup NameArgument \cup RouteArgument \cup {Nothing}]
  \cup BareCommands

IsCommand(m) == m \in Commands \cup BareCommands

(* What a command is, and when it is carried out.                          *)
Adds(c, m) ==
  /\ m.do = "link add" /\ m.with.is \in LinkSpec /\ m.with.is.name \notin Names(c)
  /\ Effect(c, m) = [c EXCEPT !.links = @ \cup {m.with.is}]

Spawns(c, m) ==
  /\ m.do = "spawn" /\ m.with.is \in LinkSpec
  /\ Effect(c, m) = [c EXCEPT !.spawned = @ \cup {m.with.is}]

Removes(c, m) ==
  /\ m.do = "link remove" /\ m.with.is \in Names(c)
  /\ Effect(c, m) = Without(c, m.with.is)

AddsRoute(c, m) ==
  /\ m.do = "route add" /\ m.with.is \in Prefix \X AnyName /\ m.with.is[2] \in Routable(c)
  /\ Effect(c, m) = [c EXCEPT !.routes = @ \cup {m.with.is}]

RemovesRoute(c, m) ==
  /\ m.do = "route remove" /\ m.with.is \in c.routes
  /\ Effect(c, m) = [c EXCEPT !.routes = @ \ {m.with.is}]

Sets(c, m) ==
  /\ m.do = "set" /\ m.with.is \in Level
  /\ Effect(c, m) = [c EXCEPT !.level = m.with.is]

Quits(c, m) == m.do = "quit" /\ Effect(c, m) = [c EXCEPT !.exit = TRUE]

LEMMA ByKind ==
  ASSUME NEW m \in Request, NEW c
  PROVE  Accepts(c, m) =>
           /\ IsCommand(m)
           /\ \/ m.do = "link add" /\ m.with \in LinkArgument /\ m.with.is.name \notin Names(c)
              \/ m.do = "spawn" /\ m.with \in LinkArgument
              \/ m.do = "link remove" /\ m.with \in NameArgument /\ m.with.is \in Names(c)
              \/ m.do = "route add" /\ m.with \in RouteArgument /\ m.with.is[2] \in Routable(c)
              \/ m.do = "route remove" /\ m.with \in RouteArgument /\ m.with.is \in c.routes
              \/ m.do = "set" /\ m.with.is \in Level
              \/ m.do = "quit"
<1> SUFFICES ASSUME Accepts(c, m)
             PROVE  /\ IsCommand(m)
                    /\ \/ m.do = "link add" /\ m.with \in LinkArgument /\ m.with.is.name \notin Names(c)
                       \/ m.do = "spawn" /\ m.with \in LinkArgument
                       \/ m.do = "link remove" /\ m.with \in NameArgument /\ m.with.is \in Names(c)
                       \/ m.do = "route add" /\ m.with \in RouteArgument /\ m.with.is[2] \in Routable(c)
                       \/ m.do = "route remove" /\ m.with \in RouteArgument /\ m.with.is \in c.routes
                       \/ m.do = "set" /\ m.with.is \in Level
                       \/ m.do = "quit"
  OBVIOUS
<1>0. /\ \A x \in LinkArgument : x.kind = "spec"
      /\ \A x \in NameArgument : x.kind = "name"
      /\ \A x \in RouteArgument : x.kind = "route"
  BY DEF LinkArgument, NameArgument, RouteArgument
<1>1. CASE m \in BareCommands
  <2>1. \/ m.do = "set" /\ m.with.is \in Level
        \/ m.do = "quit"
    BY <1>1 DEF BareCommands
  <2>2. QED
    BY <1>1, <2>1 DEF IsCommand
<1>2. CASE m \notin BareCommands
  <2>1. /\ m \in [do : {"link add", "spawn", "link remove", "route add", "route remove"},
               with : LinkArgument \cup NameArgument \cup RouteArgument \cup {Nothing}]
    BY <1>2 DEF Request
  <2>2. m = [do |-> m.do, with |-> m.with]
    BY <2>1
  <2>3. m.with # Nothing
    BY DEF Accepts
  <2>4. CASE m.do = "link add"
    <3>1. m.with.kind = "spec" /\ m.with.is.name \notin Names(c)
      BY <2>4 DEF Accepts
    <3>2. m.with \in LinkArgument
      BY <1>0, <2>1, <2>3, <3>1
    <3>3. m \in [do : {"link add", "spawn"}, with : LinkArgument]
      BY <2>2, <2>4, <3>2
    <3>4. QED
      BY <2>4, <3>1, <3>2, <3>3 DEF IsCommand, Commands
  <2>5. CASE m.do = "spawn"
    <3>1. m.with.kind = "spec"
      BY <2>5 DEF Accepts
    <3>2. m.with \in LinkArgument
      BY <1>0, <2>1, <2>3, <3>1
    <3>3. m \in [do : {"link add", "spawn"}, with : LinkArgument]
      BY <2>2, <2>5, <3>2
    <3>4. QED
      BY <2>5, <3>2, <3>3 DEF IsCommand, Commands
  <2>6. CASE m.do = "link remove"
    <3>1. m.with.kind = "name" /\ m.with.is \in Names(c)
      BY <2>6 DEF Accepts
    <3>2. m.with \in NameArgument
      BY <1>0, <2>1, <2>3, <3>1
    <3>3. m \in [do : {"link remove"}, with : NameArgument]
      BY <2>2, <2>6, <3>2
    <3>4. QED
      BY <2>6, <3>1, <3>2, <3>3 DEF IsCommand, Commands
  <2>7. CASE m.do = "route add"
    <3>1. m.with.kind = "route" /\ m.with.is[2] \in Routable(c)
      BY <2>7 DEF Accepts
    <3>2. m.with \in RouteArgument
      BY <1>0, <2>1, <2>3, <3>1
    <3>3. m \in [do : {"route add", "route remove"}, with : RouteArgument]
      BY <2>2, <2>7, <3>2
    <3>4. QED
      BY <2>7, <3>1, <3>2, <3>3 DEF IsCommand, Commands
  <2>8. CASE m.do = "route remove"
    <3>1. m.with.kind = "route" /\ m.with.is \in c.routes
      BY <2>8 DEF Accepts
    <3>2. m.with \in RouteArgument
      BY <1>0, <2>1, <2>3, <3>1
    <3>3. m \in [do : {"route add", "route remove"}, with : RouteArgument]
      BY <2>2, <2>8, <3>2
    <3>4. QED
      BY <2>8, <3>1, <3>2, <3>3 DEF IsCommand, Commands
  <2>9. QED
    BY <2>1, <2>4, <2>5, <2>6, <2>7, <2>8
<1>3. QED
  BY <1>1, <1>2

LEMMA WhatACommandDoes ==
  ASSUME NEW c, Sound(c), NEW m \in Request, Accepts(c, m)
  PROVE  \/ Adds(c, m) \/ Spawns(c, m) \/ Removes(c, m) \/ AddsRoute(c, m) \/ RemovesRoute(c, m)
         \/ Sets(c, m) \/ Quits(c, m)
<1>1. \A n \in Routable(c) : n \in AnyName
  BY DEF Routable, AnyName, Sound, ConfigSet
<1>2. \A x \in LinkArgument : x.is \in LinkSpec
  BY DEF LinkArgument
<1>3. \A x \in RouteArgument : \E p \in Prefix : \E n : x.is = <<p, n>>
  BY DEF RouteArgument
<1>4. CASE m.do = "link add" /\ m.with \in LinkArgument /\ m.with.is.name \notin Names(c)
  BY <1>2, <1>4 DEF Adds, Effect, LinkCommand
<1>5. CASE m.do = "spawn" /\ m.with \in LinkArgument
  BY <1>2, <1>5 DEF Spawns, Effect, ControlCommand
<1>6. CASE m.do = "link remove" /\ m.with \in NameArgument /\ m.with.is \in Names(c)
  BY <1>6 DEF Removes, Effect, LinkCommand
<1>7. CASE m.do = "route add" /\ m.with \in RouteArgument /\ m.with.is[2] \in Routable(c)
  <2>1. m.with.is \in Prefix \X AnyName
    <3>1. PICK p \in Prefix : \E n : m.with.is = <<p, n>>
      BY <1>3, <1>7
    <3>2. PICK n : m.with.is = <<p, n>>
      BY <3>1
    <3>3. n = m.with.is[2]
      BY <3>2
    <3>4. n \in AnyName
      BY <1>1, <1>7, <3>3
    <3>5. QED
      BY <3>2, <3>4
  <2>2. QED
    BY <1>7, <2>1 DEF AddsRoute, Effect, RouteCommand
<1>8. CASE m.do = "route remove" /\ m.with \in RouteArgument /\ m.with.is \in c.routes
  BY <1>8 DEF RemovesRoute, Effect, RouteCommand
<1>9. CASE m.do = "set" /\ m.with.is \in Level
  BY <1>9 DEF Sets, Effect, ControlCommand
<1>10. CASE m.do = "quit"
  BY <1>10 DEF Quits, Effect, ControlCommand
<1>11. QED
  BY ByKind, <1>4, <1>5, <1>6, <1>7, <1>8, <1>9, <1>10

(* A configuration without a name loses the routes over it.                *)
LEMMA WithoutIs ==
  ASSUME NEW c \in ConfigSet, NEW n
  PROVE  /\ Without(c, n) \in ConfigSet
         /\ Without(c, n).links = {s \in c.links : s.name # n}
         /\ Without(c, n).peers = c.peers \ {n}
         /\ Without(c, n).routes = {r \in c.routes : r[2] # n}
         /\ Without(c, n).level = c.level /\ Without(c, n).spawned = c.spawned
         /\ Without(c, n).exit = c.exit
<1>1. {s \in c.links : s.name # n} \in SUBSET LinkSpec /\ c.peers \ {n} \in SUBSET Peer
      /\ {r \in c.routes : r[2] # n} \in SUBSET (Prefix \X AnyName)
  BY DEF ConfigSet
<1>2. QED
  BY <1>1 DEF ConfigSet, Without

LEMMA WithoutSound ==
  ASSUME NEW c, Sound(c), NEW n
  PROVE  Sound(Without(c, n))
<1>1. c \in ConfigSet
  BY DEF Sound
<1> DEFINE d == Without(c, n)
<1>2. /\ d \in ConfigSet /\ d.links = {s \in c.links : s.name # n} /\ d.peers = c.peers \ {n}
      /\ d.routes = {r \in c.routes : r[2] # n}
  BY <1>1, WithoutIs
<1> HIDE DEF d
<1>3. \A r \in d.routes : r[2] \in Routable(d)
  BY <1>2 DEF Sound, Routable
<1>4. QED
  BY <1>2, <1>3 DEF Sound, d

LEMMA EffectSound ==
  ASSUME NEW c, Sound(c), NEW m \in Request, Accepts(c, m)
  PROVE  Sound(Effect(c, m)) /\ Effect(c, m).peers \subseteq c.peers
<1> DEFINE d == Effect(c, m)
<1>1. c \in ConfigSet /\ (\A s, t \in c.links : s.name = t.name => s = t)
      /\ \A r \in c.routes : r[2] \in Routable(c)
  BY DEF Sound
<1>2. CASE Adds(c, m)
  <2>1. d = [c EXCEPT !.links = @ \cup {m.with.is}] /\ m.with.is \in LinkSpec
        /\ \A s \in c.links : s.name # m.with.is.name
    BY <1>2 DEF Adds, Names
  <2>2. d \in ConfigSet /\ d.links = c.links \cup {m.with.is} /\ d.peers = c.peers /\ d.routes = c.routes
    BY <1>1, <2>1 DEF ConfigSet
  <2> HIDE DEF d
  <2>3. \A s, t \in d.links : s.name = t.name => s = t
    BY <1>1, <2>1, <2>2
  <2>4. \A r \in d.routes : r[2] \in Routable(d)
    BY <1>1, <2>2 DEF Routable
  <2>5. QED
    BY <2>2, <2>3, <2>4 DEF Sound, d
<1>3. CASE Removes(c, m)
  <2>1. d = Without(c, m.with.is)
    BY <1>3 DEF Removes
  <2>2. Without(c, m.with.is).peers = c.peers \ {m.with.is}
    BY <1>1, WithoutIs
  <2>3. Sound(Without(c, m.with.is))
    BY WithoutSound
  <2>4. QED
    BY <2>1, <2>2, <2>3
<1>4. ASSUME d.links = c.links, d.peers = c.peers, d \in ConfigSet,
             d.routes \subseteq c.routes \cup {m.with.is},
             m.with.is \notin d.routes \/ m.with.is[2] \in Routable(c) \/ d.routes = c.routes
      PROVE  Sound(d) /\ d.peers \subseteq c.peers
  <2> HIDE DEF d
  <2>1. Routable(d) = Routable(c)
    BY <1>4 DEF Routable
  <2>2. QED
    BY <1>1, <1>4, <2>1 DEF Sound
<1>5. CASE AddsRoute(c, m)
  <2>1. d = [c EXCEPT !.routes = @ \cup {m.with.is}] /\ m.with.is \in Prefix \X AnyName
        /\ m.with.is[2] \in Routable(c)
    BY <1>5 DEF AddsRoute
  <2>2. d \in ConfigSet /\ d.links = c.links /\ d.peers = c.peers /\ d.routes = c.routes \cup {m.with.is}
    BY <1>1, <2>1 DEF ConfigSet
  <2>3. QED
    BY <1>4, <2>1, <2>2
<1>6. CASE RemovesRoute(c, m)
  <2>1. d = [c EXCEPT !.routes = @ \ {m.with.is}]
    BY <1>6 DEF RemovesRoute
  <2>2. d \in ConfigSet /\ d.links = c.links /\ d.peers = c.peers /\ d.routes = c.routes \ {m.with.is}
    BY <1>1, <2>1 DEF ConfigSet
  <2>3. QED
    BY <1>4, <2>2
<1>7. CASE Spawns(c, m) \/ Sets(c, m) \/ Quits(c, m)
  <2>1. \/ d = [c EXCEPT !.spawned = @ \cup {m.with.is}] /\ m.with.is \in LinkSpec
        \/ d = [c EXCEPT !.level = m.with.is] /\ m.with.is \in Level
        \/ d = [c EXCEPT !.exit = TRUE]
    BY <1>7 DEF Spawns, Sets, Quits
  <2> HIDE DEF d
  <2>2. d \in ConfigSet /\ d.links = c.links /\ d.peers = c.peers /\ d.routes = c.routes
    <3>1. CASE d = [c EXCEPT !.spawned = @ \cup {m.with.is}] /\ m.with.is \in LinkSpec
      BY <1>1, <3>1 DEF ConfigSet
    <3>2. CASE d = [c EXCEPT !.level = m.with.is] /\ m.with.is \in Level
      BY <1>1, <3>2 DEF ConfigSet
    <3>3. CASE d = [c EXCEPT !.exit = TRUE]
      BY <1>1, <3>3 DEF ConfigSet
    <3>4. QED
      BY <2>1, <3>1, <3>2, <3>3
  <2>3. QED
    BY <1>4, <2>2 DEF d
<1>8. QED
  BY WhatACommandDoes, <1>2, <1>3, <1>5, <1>6, <1>7

(***************************************************************************)
(* What the lines of a file tell                                           *)
(***************************************************************************)
ToldBy(c, lines, R) ==
  R = [n \in 0..Len(lines) |->
         IF n = 0 THEN c ELSE Carried(R[n - 1], lines[n])]

LEMMA ToldExists ==
  ASSUME NEW c, NEW lines, Len(lines) \in Nat
  PROVE  \E R : ToldBy(c, lines, R) /\ Told(c, lines) = R[Len(lines)]
<1> DEFINE Then(r, n) == Carried(r, lines[n])
           Upto(F, m) == F = [n \in 0..m |-> IF n = 0 THEN c ELSE Then(F[n - 1], n)]
           S == {m \in Nat : \E F : Upto(F, m)}
<1>1. 0 \in S
  <2>1. Upto([n \in 0..0 |-> c], 0)
    OBVIOUS
  <2>2. QED
    BY <2>1
<1>2. ASSUME NEW m \in Nat, m \in S
      PROVE  m + 1 \in S
  <2>1. PICK F : Upto(F, m)
    <3> HIDE DEF Upto
    <3>1. QED
      BY <1>2
  <2> DEFINE G == [n \in 0..(m + 1) |-> IF n = m + 1 THEN Then(F[m], m + 1) ELSE F[n]]
  <2> HIDE DEF Then
  <2>2. \A n \in 0..m : F[n] = IF n = 0 THEN c ELSE Then(F[n - 1], n)
    BY <2>1
  <2>3. ASSUME NEW n \in 0..(m + 1)
        PROVE  G[n] = IF n = 0 THEN c ELSE Then(G[n - 1], n)
    <3>1. CASE n = m + 1
      <4>1. G[m] = F[m] /\ n - 1 = m /\ n # 0 /\ G[n] = Then(F[m], m + 1)
        BY <3>1
      <4> HIDE DEF G
      <4>2. QED
        BY <3>1, <4>1
    <3>2. CASE n # m + 1 /\ n # 0
      <4>1. n \in 0..m /\ n - 1 \in 0..m /\ n - 1 # m + 1 /\ n - 1 \in 0..(m + 1)
        BY <3>2
      <4>2. G[n] = F[n] /\ G[n - 1] = F[n - 1]
        BY <3>2, <4>1
      <4> HIDE DEF G
      <4>3. QED
        BY <2>2, <3>2, <4>1, <4>2
    <3>3. CASE n # m + 1 /\ n = 0
      <4>1. G[n] = F[n] /\ n \in 0..m
        BY <3>3
      <4> HIDE DEF G
      <4>2. QED
        BY <2>2, <3>3, <4>1
    <3>4. QED
      BY <3>1, <3>2, <3>3
  <2>4. G = [n \in 0..(m + 1) |-> G[n]]
    OBVIOUS
  <2>5. Upto(G, m + 1)
    <3> HIDE DEF G
    <3>1. QED
      BY <2>3, <2>4
  <2>6. QED
    <3> HIDE DEF G, Upto
    <3>1. QED
      BY <2>5
<1>3. Len(lines) \in S
  <2> HIDE DEF S
  <2>1. QED
    BY <1>1, <1>2, SetInduction
<1> DEFINE P(F) == F = [n \in 0..Len(lines) |->
                          IF n = 0 THEN c ELSE Carried(F[n - 1], lines[n])]
           K == CHOOSE F : P(F)
<1>4. \E F : P(F)
  BY <1>3
<1>5. P(K)
  <2> HIDE DEF P
  <2>1. QED
    BY <1>4
<1>6. Told(c, lines) = K[Len(lines)]
  BY DEF Told
<1> HIDE DEF K
<1>7. QED
  BY <1>5, <1>6 DEF ToldBy

LEMMA ToldNothing ==
  ASSUME NEW c
  PROVE  Told(c, <<>>) = c
<1>1. Len(<<>>) = 0
  OBVIOUS
<1>2. PICK R : ToldBy(c, <<>>, R) /\ Told(c, <<>>) = R[0]
  BY <1>1, ToldExists
<1>3. R[0] = c
  BY <1>1, <1>2 DEF ToldBy
<1>4. QED
  BY <1>2, <1>3

(* One more line is carried out last.                                      *)
LEMMA ToldOneMore ==
  ASSUME NEW c, NEW T, NEW s \in Seq(T), NEW m \in T
  PROVE  Told(c, Append(s, m)) = Carried(Told(c, s), m)
<1> DEFINE N == Len(s)
<1>1. PICK t : t = Append(s, m)
  OBVIOUS
<1>2. /\ t \in Seq(T) /\ N \in Nat /\ Len(t) = N + 1 /\ t[N + 1] = m
      /\ \A n \in 1..N : t[n] = s[n]
  BY <1>1, AppendProperties
<1>3. PICK R : ToldBy(c, s, R) /\ Told(c, s) = R[N]
  BY <1>2, ToldExists
<1>4. PICK Q : ToldBy(c, t, Q) /\ Told(c, t) = Q[N + 1]
  BY <1>2, ToldExists
<1> HIDE DEF N
<1>5. /\ \A n \in 0..N : R[n] = IF n = 0 THEN c ELSE Carried(R[n - 1], s[n])
      /\ \A n \in 0..N + 1 : Q[n] = IF n = 0 THEN c ELSE Carried(Q[n - 1], t[n])
  BY <1>2, <1>3, <1>4 DEF ToldBy, N
<1> DEFINE S == {n \in Nat : n <= N => Q[n] = R[n]}
<1>6. 0 \in S
  <2>1. 0 \in 0..N /\ 0 \in 0..N + 1
    BY <1>2
  <2>2. QED
    BY <1>5, <2>1
<1>7. ASSUME NEW n \in Nat, n \in S
      PROVE  n + 1 \in S
  <2> SUFFICES ASSUME n + 1 <= N
               PROVE  Q[n + 1] = R[n + 1]
    OBVIOUS
  <2>1. n + 1 \in 0..N /\ n + 1 \in 0..N + 1 /\ n + 1 # 0 /\ (n + 1) - 1 = n /\ n + 1 \in 1..N /\ n <= N
    BY <1>2
  <2>2. Q[n] = R[n] /\ t[n + 1] = s[n + 1]
    BY <1>2, <1>7, <2>1
  <2>3. QED
    BY <1>5, <2>1, <2>2
<1>8. N \in S
  <2> HIDE DEF S
  <2>1. QED
    BY <1>2, <1>6, <1>7, SetInduction
<1>9. Q[N + 1] = Carried(R[N], m)
  <2>1. N + 1 \in 0..N + 1 /\ N + 1 # 0 /\ (N + 1) - 1 = N
    BY <1>2
  <2>2. Q[N + 1] = Carried(Q[(N + 1) - 1], t[N + 1])
    BY <1>5, <2>1
  <2>3. QED
    BY <1>2, <1>8, <2>1, <2>2
<1>10. QED
  BY <1>1, <1>3, <1>4, <1>9

LEMMA FieldApart ==
  ASSUME NEW c \in ConfigSet, NEW l, NEW e, e = [c EXCEPT !.level = l], NEW x
  PROVE  /\ [e EXCEPT !.links = x] = [[c EXCEPT !.links = x] EXCEPT !.level = l]
         /\ [e EXCEPT !.routes = x] = [[c EXCEPT !.routes = x] EXCEPT !.level = l]
         /\ [e EXCEPT !.spawned = x] = [[c EXCEPT !.spawned = x] EXCEPT !.level = l]
         /\ [e EXCEPT !.exit = x] = [[c EXCEPT !.exit = x] EXCEPT !.level = l]
BY DEF ConfigSet

(* But for commands that set the level, a level stays as it is.            *)
LEMMA LevelApart ==
  ASSUME NEW c, Sound(c), NEW l \in Level, NEW m \in Request, m.do # "set"
  PROVE  Carried([c EXCEPT !.level = l], m) = [Carried(c, m) EXCEPT !.level = l]
<1> PICK e : e = [c EXCEPT !.level = l]
  OBVIOUS
<1>1. c \in ConfigSet
  BY DEF Sound
<1>2. /\ e \in ConfigSet /\ e.links = c.links /\ e.peers = c.peers /\ e.routes = c.routes
      /\ e.spawned = c.spawned /\ e.exit = c.exit
  BY <1>1 DEF ConfigSet
<1>3. Names(e) = Names(c) /\ Routable(e) = Routable(c)
  BY <1>2 DEF Names, Routable
<1>4. Accepts(e, m) <=> Accepts(c, m)
  BY <1>2, <1>3 DEF Accepts
<1>5. CASE ~Accepts(c, m)
  BY <1>4, <1>5 DEF Carried
<1>6. CASE Accepts(c, m)
  <2>0. Carried(e, m) = Effect(e, m) /\ Carried(c, m) = Effect(c, m)
    BY <1>4, <1>6 DEF Carried
  <2>1. SUFFICES Effect(e, m) = [Effect(c, m) EXCEPT !.level = l]
    BY <2>0
  <2>2. CASE Adds(c, m)
    <3>1. Effect(e, m) = [e EXCEPT !.links = c.links \cup {m.with.is}]
      BY <1>1, <1>2, <2>2 DEF Adds, Effect, LinkCommand, ConfigSet
    <3>2. Effect(c, m) = [c EXCEPT !.links = c.links \cup {m.with.is}]
      BY <2>2 DEF Adds
    <3>3. QED
      BY <1>1, <3>1, <3>2, FieldApart
  <2>3. CASE Spawns(c, m)
    <3>1. Effect(e, m) = [e EXCEPT !.spawned = c.spawned \cup {m.with.is}]
      BY <1>1, <1>2, <2>3 DEF Spawns, Effect, ControlCommand, ConfigSet
    <3>2. Effect(c, m) = [c EXCEPT !.spawned = c.spawned \cup {m.with.is}]
      BY <2>3 DEF Spawns
    <3>3. QED
      BY <1>1, <3>1, <3>2, FieldApart
  <2>4. CASE Removes(c, m)
    <3>1. Effect(e, m) = Without(e, m.with.is)
      BY <1>1, <1>2, <2>4 DEF Removes, Effect, LinkCommand, ConfigSet
    <3>2. Effect(c, m) = Without(c, m.with.is)
      BY <2>4 DEF Removes
    <3>3. Without(e, m.with.is) = [Without(c, m.with.is) EXCEPT !.level = l]
      BY <1>1, <1>2 DEF Without, ConfigSet
    <3>4. QED
      BY <3>1, <3>2, <3>3
  <2>5. CASE AddsRoute(c, m)
    <3>1. Effect(e, m) = [e EXCEPT !.routes = c.routes \cup {m.with.is}]
      BY <1>1, <1>2, <2>5 DEF AddsRoute, Effect, RouteCommand, ConfigSet
    <3>2. Effect(c, m) = [c EXCEPT !.routes = c.routes \cup {m.with.is}]
      BY <2>5 DEF AddsRoute
    <3>3. QED
      BY <1>1, <3>1, <3>2, FieldApart
  <2>6. CASE RemovesRoute(c, m)
    <3>1. Effect(e, m) = [e EXCEPT !.routes = c.routes \ {m.with.is}]
      BY <1>1, <1>2, <2>6 DEF RemovesRoute, Effect, RouteCommand, ConfigSet
    <3>2. Effect(c, m) = [c EXCEPT !.routes = c.routes \ {m.with.is}]
      BY <2>6 DEF RemovesRoute
    <3>3. QED
      BY <1>1, <3>1, <3>2, FieldApart
  <2>7. CASE Quits(c, m)
    <3>1. Effect(e, m) = [e EXCEPT !.exit = TRUE]
      BY <1>1, <1>2, <2>7 DEF Quits, Effect, ControlCommand, ConfigSet
    <3>2. Effect(c, m) = [c EXCEPT !.exit = TRUE]
      BY <2>7 DEF Quits
    <3>3. QED
      BY <1>1, <3>1, <3>2, FieldApart
  <2>8. ~Sets(c, m)
    BY DEF Sets
  <2>9. QED
    BY <1>6, <2>2, <2>3, <2>4, <2>5, <2>6, <2>7, <2>8, WhatACommandDoes
<1>7. QED
  BY <1>5, <1>6

LEMMA ToldLevelApart ==
  ASSUME NEW c, Sound(c), NEW l \in Level, NEW s \in Seq(Request),
         \A i \in 1..Len(s) : s[i].do # "set"
  PROVE  Sound(Told(c, s)) /\ Told([c EXCEPT !.level = l], s) = [Told(c, s) EXCEPT !.level = l]
<1> PICK e : e = [c EXCEPT !.level = l]
  OBVIOUS
<1> DEFINE N == Len(s)
<1>1. N \in Nat /\ \A i \in 1..N : s[i] \in Request
  OBVIOUS
<1>2. PICK R : ToldBy(c, s, R) /\ Told(c, s) = R[N]
  BY <1>1, ToldExists
<1>3. PICK Q : ToldBy(e, s, Q) /\ Told(e, s) = Q[N]
  BY <1>1, ToldExists
<1>4. /\ \A n \in 0..N : R[n] = IF n = 0 THEN c ELSE Carried(R[n - 1], s[n])
      /\ \A n \in 0..N : Q[n] = IF n = 0 THEN e ELSE Carried(Q[n - 1], s[n])
  BY <1>1, <1>2, <1>3 DEF ToldBy
<1>5. \A i \in 1..N : s[i].do # "set"
  OBVIOUS
<1> HIDE DEF N
<1> DEFINE S == {n \in Nat : n <= N => Sound(R[n]) /\ Q[n] = [R[n] EXCEPT !.level = l]}
<1>6. 0 \in S
  <2>1. 0 \in 0..N
    BY <1>1
  <2>2. R[0] = c /\ Q[0] = e
    BY <1>4, <2>1
  <2>3. QED
    BY <2>2
<1>7. ASSUME NEW n \in Nat, n \in S
      PROVE  n + 1 \in S
  <2> SUFFICES ASSUME n + 1 <= N
               PROVE  Sound(R[n + 1]) /\ Q[n + 1] = [R[n + 1] EXCEPT !.level = l]
    OBVIOUS
  <2>1. n + 1 \in 0..N /\ n + 1 # 0 /\ (n + 1) - 1 = n /\ n + 1 \in 1..N /\ n <= N
    BY <1>1
  <2>2. PICK t : t = R[n] /\ Sound(t) /\ Q[n] = [t EXCEPT !.level = l]
    BY <1>7, <2>1
  <2>3. PICK m \in Request : m = s[n + 1] /\ m.do # "set"
    BY <1>1, <1>5, <2>1
  <2>4. R[n + 1] = Carried(t, m) /\ Q[n + 1] = Carried([t EXCEPT !.level = l], m)
    <3>1. /\ R[n + 1] = Carried(R[(n + 1) - 1], s[n + 1])
          /\ Q[n + 1] = Carried(Q[(n + 1) - 1], s[n + 1])
      BY <1>4, <2>1
    <3>2. QED
      BY <2>1, <2>2, <2>3, <3>1
  <2>5. Sound(Carried(t, m))
    BY <2>2, <2>3, EffectSound DEF Carried
  <2>6. QED
    BY <2>2, <2>3, <2>4, <2>5, LevelApart
<1>8. N \in S
  <2> HIDE DEF S
  <2>1. QED
    BY <1>1, <1>6, <1>7, SetInduction
<1>9. Sound(R[N]) /\ Q[N] = [R[N] EXCEPT !.level = l]
  BY <1>1, <1>8
<1>10. QED
  BY <1>2, <1>3, <1>9

(***************************************************************************)
(* Types                                                                   *)
(***************************************************************************)
Whole(lines) == \A i \in 1..Len(lines) - 1 : ~Torn(lines[i])

(* Only the last line of a file is ever without its arguments, and only    *)
(* while it is being written.                                              *)
FileInv ==
  /\ file \in Seq(Lines) \cup {Nothing}
  /\ file # Nothing => Whole(file)
  /\ pending # Nothing => IsCommand(pending) /\ file # Nothing
  /\ file # Nothing /\ Quiet => ~HalfWritten(file)

SourceInv ==
  /\ source \in Seq(Lines) \cup {Nothing}
  /\ source # Nothing => Whole(source) /\ at <= Len(source)
  /\ source = Nothing => at = 0
  /\ at \in Nat

ForwarderInv ==
  /\ phase \in {"down", "starting", "running"}
  /\ Sound(config)
  /\ options \in Seq(AnyOption)
  /\ faults \subseteq {"broken", "refused"}
  /\ phase = "down" => /\ config = NewForwarder /\ at = 0
                       /\ file = Nothing /\ pending = Nothing /\ faults = {}
  /\ phase = "starting" => config.peers = {}

ConfigurationInv == FileInv /\ SourceInv /\ ForwarderInv

LEMMA NewSound == Sound(NewForwarder) /\ NewForwarder.peers = {}
BY DEF Sound, ConfigSet, NewForwarder, Routable

LEMMA LineForms ==
  ASSUME NEW m \in Lines
  PROVE  /\ m \in Request
         /\ IsCommand(m) => m.with # Nothing /\ ~Torn(m) /\ m # Nothing
         /\ ~Torn(m) => IsCommand(m)
         /\ Torn(m) =>
              m \in [do : {"link add", "spawn", "link remove", "route add", "route remove"}, with : {Nothing}]
         /\ m \notin BareCommands =>
              m \in [do : {"link add", "spawn", "link remove", "route add", "route remove"},
                    with : LinkArgument \cup NameArgument \cup RouteArgument \cup {Nothing}]
<1>1. \A x \in Commands :
        x \in [do : {"link add", "spawn", "link remove", "route add", "route remove"},
              with : LinkArgument \cup NameArgument \cup RouteArgument \cup {Nothing}]
  BY DEF Commands
<1>2. \A x \in BareCommands : x.do \in {"set", "quit"}
  BY DEF BareCommands
<1>3. \A x : IsCommand(x) => x.with # Nothing /\ x # Nothing
  BY NothingAssumption DEF IsCommand
<1>4. CASE m \in Commands
  BY <1>1, <1>3, <1>4 DEF Request, IsCommand, Torn
<1>5. CASE m \in BareCommands
  BY <1>2, <1>3, <1>5 DEF Request, IsCommand, Torn
<1>6. CASE m \in [do : {"link add", "spawn", "link remove", "route add", "route remove"}, with : {Nothing}]
  <2>1. m.with = Nothing /\ m.do \notin {"set", "quit"}
    BY <1>6
  <2>2. m \in Request
    BY <1>6 DEF Request
  <2>3. QED
    BY <1>3, <1>6, <2>1, <2>2 DEF Torn
<1>7. QED
  BY <1>4, <1>5, <1>6 DEF Lines

LEMMA CommandIsLine == \A m : IsCommand(m) => m \in Lines
BY DEF IsCommand, Lines

(* A change is logged when it has been made.                               *)
LEMMA LogKeeps ==
  ASSUME FileInv, Quiet, NEW m, IsCommand(m),
         pending' = (IF file = Nothing THEN Nothing ELSE m), UNCHANGED file
  PROVE  FileInv'
<1>1. m # Nothing
  BY CommandIsLine, LineForms
<1>2. QED
  BY <1>1 DEF FileInv, Quiet

(* A change of the configuration that was asked for.                       *)
LEMMA ChangeTypes ==
  ASSUME ConfigurationInv, phase # "down", Quiet, NEW m \in Request,
         Accepts(config, m), config' = Effect(config, m),
         pending' = (IF file = Nothing THEN Nothing ELSE m),
         UNCHANGED <<phase, source, file, faults>>, at' = at \/ (at' = at + 1 /\ source # Nothing /\ at < Len(source)),
         options' \in Seq(AnyOption)
  PROVE  ConfigurationInv'
<1>1. IsCommand(m)
  BY ByKind
<1>2. FileInv'
  BY <1>1, LogKeeps DEF ConfigurationInv
<1>3. Sound(config') /\ config'.peers \subseteq config.peers
  BY EffectSound DEF ConfigurationInv, ForwarderInv
<1>4. SourceInv'
  <2>1. source # Nothing => Len(source) \in Nat
    BY DEF ConfigurationInv, SourceInv
  <2>2. QED
    BY <2>1 DEF ConfigurationInv, SourceInv
<1>5. ForwarderInv'
  BY <1>3 DEF ConfigurationInv, ForwarderInv
<1>6. QED
  BY <1>2, <1>4, <1>5 DEF ConfigurationInv

LEMMA ResolvedIs ==
  ASSUME NEW m, IsCommand(m), NEW p \in Peer
  PROVE  Resolved(m, p) \in Request
<1>1. m \in Request
  BY CommandIsLine, LineForms
<1>2. CASE m.with.kind = "route" /\ m.with.is[2] = Nothing
  <2>1. m \in [do : {"route add", "route remove"}, with : RouteArgument]
    <3>1. m.with.kind = "route"
      BY <1>2
    <3>2. m \notin [do : {"link add", "spawn"}, with : LinkArgument]
      <4>1. \A x \in LinkArgument : x.kind # "route"
        BY DEF LinkArgument
      <4>2. QED
        BY <3>1, <4>1
    <3>3. m \notin [do : {"link remove"}, with : NameArgument]
      <4>1. \A x \in NameArgument : x.kind # "route"
        BY DEF NameArgument
      <4>2. QED
        BY <3>1, <4>1
    <3>4. m \notin BareCommands
      BY <3>1 DEF BareCommands
    <3>5. QED
      BY <3>2, <3>3, <3>4 DEF IsCommand, Commands
  <2>2. PICK q \in Prefix : \E n : m.with = [kind |-> "route", is |-> <<q, n>>]
    <3>1. m.with \in RouteArgument
      BY <2>1
    <3>2. \A x \in RouteArgument : \E q \in Prefix : \E n : x = [kind |-> "route", is |-> <<q, n>>]
      BY DEF RouteArgument
    <3>3. QED
      BY <3>1, <3>2
  <2>3. m.with.is[1] = q
    BY <2>2
  <2>4. Resolved(m, p) = [do |-> m.do, with |-> [kind |-> "route", is |-> <<q, p>>]]
    BY <1>2, <2>3 DEF Resolved
  <2>5. [kind |-> "route", is |-> <<q, p>>] \in RouteArgument
    BY DEF RouteArgument
  <2>6. m.do \in {"link add", "spawn", "link remove", "route add", "route remove"}
    BY <2>1
  <2>7. [do |-> m.do, with |-> [kind |-> "route", is |-> <<q, p>>]] \in Request
    BY <2>5, <2>6 DEF Request
  <2>8. QED
    BY <2>4, <2>7
<1>3. CASE ~(m.with.kind = "route" /\ m.with.is[2] = Nothing)
  BY <1>1, <1>3 DEF Resolved
<1>4. QED
  BY <1>2, <1>3

LEMMA PayloadIs ==
  ASSUME SourceInv, source # Nothing, NEW i \in 1..Len(source)
  PROVE  /\ Payload(i) \in Request
         /\ ~Torn(source[i]) => Payload(i) = source[i]
<1>1. source \in Seq(Lines) /\ Len(source) \in Nat /\ source[i] \in Lines
  BY DEF SourceInv
<1>2. CASE Torn(source[i]) /\ i > 1 /\ source[i - 1] \notin BareCommands
           /\ Length(source[i]) <= Length(source[i - 1])
  <2>1. Payload(i) = [source[i] EXCEPT !.with = source[i - 1].with]
    BY <1>2 DEF Payload
  <2>2. source[i - 1] \in Lines
    BY <1>1, <1>2
  <2>3. source[i - 1].with \in LinkArgument \cup NameArgument \cup RouteArgument \cup {Nothing}
    BY <1>2, <2>2, LineForms
  <2>4. source[i] \in [do : {"link add", "spawn", "link remove", "route add", "route remove"}, with : {Nothing}]
    BY <1>1, <1>2, LineForms
  <2>5. QED
    BY <1>2, <2>1, <2>3, <2>4 DEF Request
<1>3. CASE ~(Torn(source[i]) /\ i > 1 /\ source[i - 1] \notin BareCommands
           /\ Length(source[i]) <= Length(source[i - 1]))
  <2>1. Payload(i) = source[i]
    BY <1>3 DEF Payload
  <2>2. QED
    BY <1>1, <2>1, LineForms
<1>4. QED
  BY <1>2, <1>3

(***************************************************************************)
(* Every step keeps the types                                              *)
(***************************************************************************)
LEMMA HandleTypes ==
  ASSUME ConfigurationInv, NEW m, IsCommand(m), NEW p \in Peer, Handle(m, p)
  PROVE  ConfigurationInv'
<1>1. /\ phase = "running" /\ Quiet /\ Accepts(config, Resolved(m, p))
      /\ config' = Effect(config, Resolved(m, p))
      /\ pending' = (IF file = Nothing THEN Nothing ELSE Resolved(m, p))
      /\ UNCHANGED <<phase, options, source, at, file, faults>>
  BY DEF Handle, Running, Log, commandLine
<1>2. options' \in Seq(AnyOption)
  BY <1>1 DEF ConfigurationInv, ForwarderInv
<1>3. PICK r \in Request : r = Resolved(m, p)
  BY ResolvedIs
<1>4. /\ Accepts(config, r) /\ config' = Effect(config, r)
      /\ pending' = (IF file = Nothing THEN Nothing ELSE r)
  BY <1>1, <1>3
<1>5. phase # "down" /\ Quiet /\ at' = at /\ phase' = phase /\ source' = source /\ file' = file /\ faults' = faults
  BY <1>1
<1>6. QED
  BY <1>2, <1>4, <1>5, ChangeTypes

(* Accepted links and broken ones are not in the state file.               *)
LEMMA UnaskedTypes ==
  ASSUME ConfigurationInv, phase = "running", Sound(config)', faults' \subseteq {"broken", "refused"},
         UNCHANGED <<phase, options, source, at, file, pending>>
  PROVE  ConfigurationInv'
<1>1. FileInv'
  BY DEF ConfigurationInv, FileInv, Quiet
<1>2. SourceInv'
  BY DEF ConfigurationInv, SourceInv
<1>3. ForwarderInv'
  BY DEF ConfigurationInv, ForwarderInv
<1>4. QED
  BY <1>1, <1>2, <1>3 DEF ConfigurationInv

LEMMA AcceptTypes ==
  ASSUME ConfigurationInv, NEW p \in Peer, Accept(p)
  PROVE  ConfigurationInv'
<1>1. /\ phase = "running" /\ config' = [config EXCEPT !.peers = @ \cup {p}]
      /\ UNCHANGED <<phase, options, source, at, file, pending, faults>>
  BY DEF Accept, Running, commandLine
<1>2. Sound(config)
  BY DEF ConfigurationInv, ForwarderInv
<1>3. config' \in ConfigSet /\ config'.links = config.links /\ config'.peers = config.peers \cup {p}
      /\ config'.routes = config.routes
  BY <1>1, <1>2 DEF Sound, ConfigSet
<1>4. Sound(config')
  BY <1>2, <1>3 DEF Sound, Routable
<1>5. faults' \subseteq {"broken", "refused"}
  BY <1>1 DEF ConfigurationInv, ForwarderInv
<1>6. QED
  BY <1>1, <1>4, <1>5, UnaskedTypes

LEMMA BreakTypes ==
  ASSUME ConfigurationInv, NEW n, Break(n)
  PROVE  ConfigurationInv'
<1>1. /\ phase = "running" /\ config' = Without(config, n)
      /\ UNCHANGED <<phase, options, source, at, file, pending>>
      /\ faults' = faults \/ faults' = faults \cup {"broken"}
  BY DEF Break, Running, commandLine
<1>2. Sound(config')
  BY <1>1, WithoutSound DEF ConfigurationInv, ForwarderInv
<1>3. faults' \subseteq {"broken", "refused"}
  BY <1>1 DEF ConfigurationInv, ForwarderInv
<1>4. QED
  BY <1>1, <1>2, <1>3, UnaskedTypes

LEMMA StopTypes ==
  ASSUME ConfigurationInv, Stop
  PROVE  ConfigurationInv'
<1>1. /\ phase' = "down" /\ source' = (IF phase = "running" THEN file ELSE source)
      /\ config' = NewForwarder /\ options' = <<>> /\ at' = 0
      /\ file' = Nothing /\ pending' = Nothing /\ faults' = {}
  BY DEF Stop
<1>2. FileInv'
  BY <1>1 DEF FileInv
<1>3. SourceInv'
  <2>1. source' # Nothing => Len(source') \in Nat
    BY <1>1 DEF ConfigurationInv, SourceInv, FileInv
  <2>2. QED
    BY <1>1, <2>1 DEF ConfigurationInv, SourceInv, FileInv
<1>4. ForwarderInv'
  BY <1>1, NewSound, EmptySeq DEF ForwarderInv
<1>5. QED
  BY <1>2, <1>3, <1>4 DEF ConfigurationInv

(* What the links to other gateways configure.                             *)
LEMMA GatewaysSound ==
  ASSUME NEW G \in Gateways, Openable(G), NEW c,
         c = [NewForwarder EXCEPT !.links = {g[2] : g \in G},
                                  !.routes = {<<g[1], g[2].name>> : g \in G}]
  PROVE  Sound(c) /\ c.peers = {}
<1>1. \A g \in G : /\ g \in Prefix \X LinkSpec /\ g[1] \in Prefix /\ g[2] \in LinkSpec /\ ~g[2].listens
  BY ConfigurationAssumption DEF Openable
<1>2. /\ c.links = {g[2] : g \in G} /\ c.routes = {<<g[1], g[2].name>> : g \in G}
      /\ c.peers = {} /\ c.level = Nothing /\ c.spawned = {} /\ c.exit = FALSE
      /\ c = [links |-> c.links, peers |-> {}, routes |-> c.routes, level |-> Nothing, spawned |-> {}, exit |-> FALSE]
  BY DEF NewForwarder
<1>3. c.links \subseteq LinkSpec
  BY <1>1, <1>2
<1>4. c.routes \subseteq Prefix \X AnyName
  <2>1. ASSUME NEW g \in G
        PROVE  <<g[1], g[2].name>> \in Prefix \X AnyName
    BY <1>1 DEF AnyName
  <2>2. QED
    BY <1>2, <2>1
<1>5. c \in ConfigSet
  BY <1>2, <1>3, <1>4 DEF ConfigSet
<1>6. \A s, t \in c.links : s.name = t.name => s = t
  BY <1>2 DEF Openable
<1>7. \A r \in c.routes : r[2] \in Routable(c)
  <2>1. ASSUME NEW g \in G
        PROVE  g[2].name \in Routable(c)
    BY <1>1, <1>2 DEF Routable
  <2>2. \A r \in c.routes : \E g \in G : r[2] = g[2].name
    BY <1>2
  <2>3. QED
    BY <2>1, <2>2
<1>8. QED
  BY <1>2, <1>5, <1>6, <1>7 DEF Sound

LEMMA StartTypes ==
  ASSUME ConfigurationInv, Start
  PROVE  ConfigurationInv'
<1>1. /\ phase = "down" /\ phase' = "starting" /\ options' \in CommandLines
      /\ UNCHANGED <<source, at, file, pending, faults>>
  BY DEF Start
<1>2. options' \in Seq(AnyOption)
  BY <1>1, ConfigurationAssumption DEF AnyOption
<1>3. FileInv' /\ SourceInv'
  BY <1>1 DEF ConfigurationInv, FileInv, SourceInv, Quiet
<1>4. Sound(config') /\ config'.peers = {}
  BY GatewaysSound DEF Start
<1>5. ForwarderInv'
  BY <1>1, <1>2, <1>4 DEF ConfigurationInv, ForwarderInv
<1>6. QED
  BY <1>3, <1>5 DEF ConfigurationInv

LEMMA TailOptions ==
  ASSUME ConfigurationInv, options # <<>>
  PROVE  /\ Tail(options) \in Seq(AnyOption) /\ options[1] \in AnyOption
         /\ Len(options) \in Nat /\ Len(options) > 0 /\ Len(Tail(options)) = Len(options) - 1
         /\ \A i \in 1..Len(options) - 1 : Tail(options)[i] = options[i + 1]
<1>1. options \in Seq(AnyOption)
  BY DEF ConfigurationInv, ForwarderInv
<1>2. QED
  BY <1>1, HeadTailProperties

LEMMA OpenStateFileTypes ==
  ASSUME ConfigurationInv, OpenStateFile
  PROVE  ConfigurationInv'
<1>1. /\ phase = "starting" /\ pending = Nothing /\ options # <<>> /\ file' = <<>> /\ options' = Tail(options)
      /\ UNCHANGED <<phase, config, source, at, pending, faults>>
  BY DEF OpenStateFile, Option, Starting, Quiet
<1>2. FileInv'
  <2>1. <<>> \in Seq(Lines) /\ Len(<<>>) = 0
    BY EmptySeq
  <2>2. QED
    BY <1>1, <2>1 DEF FileInv, Whole, HalfWritten
<1>3. SourceInv'
  BY <1>1 DEF ConfigurationInv, SourceInv
<1>4. ForwarderInv'
  BY <1>1, TailOptions DEF ConfigurationInv, ForwarderInv
<1>5. QED
  BY <1>2, <1>3, <1>4 DEF ConfigurationInv

LEMMA SetDebugTypes ==
  ASSUME ConfigurationInv, SetDebug
  PROVE  ConfigurationInv'
<1>1. /\ phase = "starting" /\ options # <<>> /\ options' = Tail(options)
      /\ config' = [config EXCEPT !.level = Debug]
      /\ UNCHANGED <<phase, source, at, file, pending, faults>>
  BY DEF SetDebug, Option, Starting
<1>2. Sound(config) /\ config.peers = {}
  BY <1>1 DEF ConfigurationInv, ForwarderInv
<1>3. /\ config' \in ConfigSet /\ config'.links = config.links /\ config'.peers = config.peers
      /\ config'.routes = config.routes
  BY <1>1, <1>2, ConfigurationAssumption DEF Sound, ConfigSet
<1>4. Sound(config')
  BY <1>2, <1>3 DEF Sound, Routable
<1>5. FileInv' /\ SourceInv'
  BY <1>1 DEF ConfigurationInv, FileInv, SourceInv, Quiet
<1>6. ForwarderInv'
  BY <1>1, <1>2, <1>3, <1>4, TailOptions DEF ConfigurationInv, ForwarderInv
<1>7. QED
  BY <1>5, <1>6 DEF ConfigurationInv

LEMMA AddingIs ==
  ASSUME NEW s \in LinkSpec
  PROVE  /\ Adding(s) \in Request /\ Adding(s).do = "link add"
         /\ Adding(s).with.is = s
<1>1. [kind |-> "spec", is |-> s] \in LinkArgument
  BY DEF LinkArgument
<1>2. QED
  BY <1>1 DEF Adding, Request

LEMMA OpenAnyTypes ==
  ASSUME ConfigurationInv, NEW s \in LinkSpec, phase = "starting", Quiet,
         Accepts(config, Adding(s)),
         config' = Effect(config, Adding(s)),
         pending' = (IF file = Nothing THEN Nothing ELSE Adding(s)),
         UNCHANGED <<phase, source, at, file, faults>>, options' \in Seq(AnyOption)
  PROVE  ConfigurationInv'
<1>1. PICK m \in Request : m = Adding(s)
  BY AddingIs
<1>2. phase # "down"
  OBVIOUS
<1>3. QED
  BY <1>1, <1>2, ChangeTypes

LEMMA OpenLinkTypes ==
  ASSUME ConfigurationInv, OpenLink
  PROVE  ConfigurationInv'
<1>1. PICK s \in LinkSpec :
        /\ phase = "starting" /\ Quiet /\ options # <<>>
        /\ Accepts(config, Adding(s))
        /\ config' = Effect(config, Adding(s))
        /\ pending' = (IF file = Nothing THEN Nothing ELSE Adding(s))
        /\ options' = Tail(options) /\ UNCHANGED <<phase, source, at, file, faults>>
  BY DEF OpenLink, Option, Starting, Log
<1>2. options' \in Seq(AnyOption)
  BY <1>1, TailOptions
<1>3. QED
  BY <1>1, <1>2, OpenAnyTypes

LEMMA OpenDefaultTypes ==
  ASSUME ConfigurationInv, OpenDefault
  PROVE  ConfigurationInv'
<1>1. /\ phase = "starting" /\ Quiet /\ Accepts(config, Adding(DefaultSpec))
      /\ config' = Effect(config, Adding(DefaultSpec))
      /\ pending' = (IF file = Nothing THEN Nothing ELSE Adding(DefaultSpec))
      /\ UNCHANGED <<phase, source, at, file, faults>>
      /\ options' = <<>> \/ options' = <<NodeSpec>>
  BY DEF OpenDefault, Starting, Log
<1>2. DefaultSpec \in LinkSpec /\ NodeSpec \in AnyOption
  BY ConfigurationAssumption DEF AnyOption
<1>3. <<>> \in Seq(AnyOption) /\ <<NodeSpec>> \in Seq(AnyOption)
  BY <1>2, EmptySeq
<1>4. options' \in Seq(AnyOption)
  BY <1>1, <1>3
<1>5. QED
  BY <1>1, <1>2, <1>4, OpenAnyTypes

LEMMA ReplayLineTypes ==
  ASSUME ConfigurationInv, ReplayLine
  PROVE  ConfigurationInv'
<1>1. /\ phase = "starting" /\ Quiet /\ source # Nothing /\ at < Len(source) /\ at' = at + 1
      /\ UNCHANGED <<phase, options, source, file, faults>>
  BY DEF ReplayLine, Reading, Starting, commandLine
<1>2. Len(source) \in Nat /\ at + 1 \in 1..Len(source) /\ options' \in Seq(AnyOption)
  BY <1>1 DEF ConfigurationInv, SourceInv, ForwarderInv
<1>3. CASE Dispatched /\ Accepts(config, Payload(at + 1))
  <2>1. PICK m \in Request : m = Payload(at + 1)
    BY <1>1, <1>2, PayloadIs DEF ConfigurationInv
  <2>2. config' = Effect(config, m) /\ Accepts(config, m)
        /\ pending' = (IF file = Nothing THEN Nothing ELSE m)
    BY <1>3, <2>1 DEF ReplayLine, Log
  <2>3. phase # "down"
    BY <1>1
  <2>4. QED
    BY <1>1, <1>2, <2>2, <2>3, ChangeTypes
<1>4. CASE ~(Dispatched /\ Accepts(config, Payload(at + 1)))
  <2>1. UNCHANGED <<config, pending>>
    BY <1>4 DEF ReplayLine
  <2>2. FileInv' /\ ForwarderInv'
    BY <1>1, <2>1 DEF ConfigurationInv, FileInv, ForwarderInv, Quiet
  <2>3. SourceInv'
    BY <1>1, <1>2 DEF ConfigurationInv, SourceInv
  <2>4. QED
    BY <2>2, <2>3 DEF ConfigurationInv
<1>5. QED
  BY <1>3, <1>4

LEMMA ReplayRefusedTypes ==
  ASSUME ConfigurationInv, ReplayRefused
  PROVE  ConfigurationInv'
<1>1. /\ phase = "starting" /\ source # Nothing /\ at < Len(source) /\ at' = at + 1
      /\ faults' = faults \cup {"refused"} /\ UNCHANGED <<phase, config, options, source, file, pending>>
  BY DEF ReplayRefused, Reading, Starting, commandLine
<1>2. Len(source) \in Nat
  BY <1>1 DEF ConfigurationInv, SourceInv
<1>3. FileInv' /\ ForwarderInv'
  BY <1>1 DEF ConfigurationInv, FileInv, ForwarderInv, Quiet
<1>4. SourceInv'
  BY <1>1, <1>2 DEF ConfigurationInv, SourceInv
<1>5. QED
  BY <1>3, <1>4 DEF ConfigurationInv

LEMMA RunTypes ==
  ASSUME ConfigurationInv, Run
  PROVE  ConfigurationInv'
<1>1. /\ phase = "starting" /\ phase' = "running" /\ source' = Nothing /\ at' = 0
      /\ UNCHANGED <<config, options, file, pending, faults>>
  BY DEF Run, Starting, commandLine
<1>2. FileInv' /\ SourceInv' /\ ForwarderInv'
  BY <1>1 DEF ConfigurationInv, FileInv, SourceInv, ForwarderInv, Quiet
<1>3. QED
  BY <1>2 DEF ConfigurationInv

(* The line that is written next, and what the file is with it.            *)
LEMMA WrittenFile ==
  ASSUME NEW s \in Seq(Lines), NEW m \in Lines
  PROVE  /\ Append(s, m) \in Seq(Lines) /\ Len(Append(s, m)) = Len(s) + 1 /\ Len(s) \in Nat
         /\ Append(s, m)[Len(s) + 1] = m /\ \A i \in 1..Len(s) : Append(s, m)[i] = s[i]
         /\ Append(s, m) # <<>>
         /\ HalfWritten(Append(s, m)) = Torn(m)
         /\ Whole(s) /\ ~HalfWritten(s) => Whole(Append(s, m))
<1>1. PICK t : t = Append(s, m)
  OBVIOUS
<1>2. /\ t \in Seq(Lines) /\ Len(t) = Len(s) + 1 /\ Len(s) \in Nat
      /\ t[Len(s) + 1] = m /\ \A i \in 1..Len(s) : t[i] = s[i]
  BY <1>1, AppendProperties
<1>3. t # <<>>
  BY <1>2
<1>4. HalfWritten(t) = Torn(m)
  BY <1>2, <1>3 DEF HalfWritten, Last
<1>5. ASSUME Whole(s), ~HalfWritten(s)
      PROVE  Whole(t)
  <2> SUFFICES ASSUME NEW i \in 1..Len(t) - 1
               PROVE  ~Torn(t[i])
    BY DEF Whole
  <2>1. i \in 1..Len(s) /\ t[i] = s[i]
    BY <1>2
  <2>2. CASE i = Len(s)
    <3>1. s # <<>>
      BY <1>2, <2>1
    <3>2. QED
      BY <1>5, <2>1, <2>2, <3>1 DEF HalfWritten, Last
  <2>3. CASE i # Len(s)
    <3>1. i \in 1..Len(s) - 1
      BY <1>2, <2>1, <2>3
    <3>2. QED
      BY <1>5, <2>1, <3>1 DEF Whole
  <2>4. QED
    BY <2>2, <2>3
<1>6. QED
  BY <1>1, <1>2, <1>3, <1>4, <1>5

LEMMA FrontOf ==
  ASSUME NEW s \in Seq(Lines), s # <<>>, Whole(s)
  PROVE  /\ Front(s) \in Seq(Lines) /\ Whole(Front(s))
         /\ ~HalfWritten(Front(s))
         /\ Len(Front(s)) = Len(s) - 1 /\ Len(s) \in Nat \ {0}
         /\ \A i \in 1..Len(s) - 1 : Front(s)[i] = s[i]
<1>1. PICK t : t = SubSeq(s, 1, Len(s) - 1)
  OBVIOUS
<1>2. Len(s) \in Nat /\ Len(s) # 0
  OBVIOUS
<1>3. /\ t \in Seq(Lines) /\ Len(t) = Len(s) - 1 /\ \A i \in 1..Len(s) - 1 : t[i] = s[i]
  <2>1. PICK n : n = Len(s) - 1
    OBVIOUS
  <2>2. n \in Nat /\ 1 \in 1..Len(s) + 1 /\ n \in 1 - 1..Len(s)
    BY <1>2, <2>1
  <2>3. t = SubSeq(s, 1, n)
    BY <1>1, <2>1
  <2>4. t \in Seq(Lines) /\ Len(t) = n - 1 + 1 /\ \A i \in 1..n - 1 + 1 : t[i] = s[1 + i - 1]
    BY <2>2, <2>3, SubSeqProperties
  <2>5. n - 1 + 1 = n /\ \A i \in 1..n : 1 + i - 1 = i
    BY <2>2
  <2>6. QED
    BY <2>1, <2>4, <2>5
<1>4. \A i \in 1..Len(t) : ~Torn(t[i])
  BY <1>2, <1>3 DEF Whole
<1>5. Whole(t)
  BY <1>2, <1>3, <1>4 DEF Whole
<1>6. ~HalfWritten(t)
  <2>1. t # <<>> => Len(t) \in 1..Len(t)
    BY <1>2, <1>3
  <2>2. QED
    BY <1>4, <2>1 DEF HalfWritten, Last
<1>7. QED
  BY <1>1, <1>2, <1>3, <1>5, <1>6 DEF Front

WrittenName == IF pending \in BareCommands THEN pending ELSE [pending EXCEPT !.with = Nothing]

LEMMA WrittenNameIs ==
  ASSUME IsCommand(pending)
  PROVE  /\ WrittenName \in Lines
         /\ WrittenName = pending => ~Torn(WrittenName)
         /\ WrittenName # pending => Torn(WrittenName)
<1>1. pending \in Lines /\ pending.with # Nothing /\ ~Torn(pending)
  BY CommandIsLine, LineForms
<1>2. CASE pending \in BareCommands
  BY <1>1, <1>2 DEF WrittenName
<1>3. CASE pending \notin BareCommands
  <2>1. pending \in [do : {"link add", "spawn", "link remove", "route add", "route remove"},
                    with : LinkArgument \cup NameArgument \cup RouteArgument \cup {Nothing}]
    BY <1>1, <1>3, LineForms
  <2>2. WrittenName = [pending EXCEPT !.with = Nothing]
    BY <1>3 DEF WrittenName
  <2>3. /\ WrittenName \in [do : {"link add", "spawn", "link remove", "route add", "route remove"}, with : {Nothing}]
        /\ WrittenName.with = Nothing
    BY <2>1, <2>2
  <2>4. WrittenName.do \notin {"set", "quit"}
    BY <2>3
  <2>5. QED
    BY <1>1, <2>3, <2>4 DEF Lines, Torn
<1>4. QED
  BY <1>2, <1>3

LEMMA WriteNameTypes ==
  ASSUME ConfigurationInv, WriteName
  PROVE  ConfigurationInv'
<1>1. /\ pending # Nothing /\ ~HalfWritten(file) /\ file' = Append(file, WrittenName)
      /\ pending' = (IF WrittenName = pending THEN Nothing ELSE pending)
      /\ phase # "down" /\ UNCHANGED <<phase, config, options, source, at, faults>>
  BY DEF WriteName, Quiet, WrittenName, commandLine
<1>2. IsCommand(pending) /\ file \in Seq(Lines) /\ Whole(file)
  BY <1>1 DEF ConfigurationInv, FileInv
<1>3. PICK s, w : s = file /\ w = WrittenName
  OBVIOUS
<1>4. /\ s \in Seq(Lines) /\ w \in Lines /\ Whole(s) /\ ~HalfWritten(s)
      /\ w = pending => ~Torn(w)
  BY <1>1, <1>2, <1>3, WrittenNameIs
<1>5. /\ Append(s, w) \in Seq(Lines) /\ Whole(Append(s, w))
      /\ HalfWritten(Append(s, w)) = Torn(w)
  BY <1>4, WrittenFile
<1>6. file' # Nothing
  BY <1>1, <1>3, <1>5, NothingAssumption
<1>7. FileInv'
  BY <1>1, <1>2, <1>3, <1>4, <1>5, <1>6 DEF FileInv, Quiet
<1>8. SourceInv'
  BY <1>1 DEF ConfigurationInv, SourceInv
<1>9. ForwarderInv'
  BY <1>1 DEF ConfigurationInv, ForwarderInv
<1>10. QED
  BY <1>7, <1>8, <1>9 DEF ConfigurationInv

LEMMA WriteArgumentsTypes ==
  ASSUME ConfigurationInv, WriteArguments
  PROVE  ConfigurationInv'
<1>1. /\ pending # Nothing /\ HalfWritten(file) /\ file' = Append(Front(file), pending)
      /\ pending' = Nothing /\ phase # "down" /\ UNCHANGED <<phase, config, options, source, at, faults>>
  BY DEF WriteArguments, Quiet, commandLine
<1>2. IsCommand(pending) /\ file \in Seq(Lines) /\ Whole(file) /\ file # <<>>
  BY <1>1 DEF ConfigurationInv, FileInv, HalfWritten
<1>3. PICK s, w : s = Front(file) /\ w = pending
  OBVIOUS
<1>4. /\ s \in Seq(Lines) /\ Whole(s) /\ ~HalfWritten(s)
      /\ w \in Lines /\ ~Torn(w)
  BY <1>2, <1>3, FrontOf, CommandIsLine, LineForms
<1>5. /\ Append(s, w) \in Seq(Lines) /\ Whole(Append(s, w)) /\ ~HalfWritten(Append(s, w))
  BY <1>4, WrittenFile
<1>6. file' # Nothing
  BY <1>1, <1>3, <1>5, NothingAssumption
<1>7. FileInv'
  BY <1>1, <1>3, <1>5, <1>6 DEF FileInv, Quiet
<1>8. SourceInv'
  BY <1>1 DEF ConfigurationInv, SourceInv
<1>9. ForwarderInv'
  BY <1>1 DEF ConfigurationInv, ForwarderInv
<1>10. QED
  BY <1>7, <1>8, <1>9 DEF ConfigurationInv

LEMMA TypesInit == ConfigurationInit => ConfigurationInv
<1> SUFFICES ASSUME ConfigurationInit
             PROVE  ConfigurationInv
  OBVIOUS
<1>1. FileInv /\ SourceInv
  BY DEF ConfigurationInit, FileInv, SourceInv
<1>2. ForwarderInv
  BY NewSound, EmptySeq DEF ConfigurationInit, ForwarderInv
<1>3. QED
  BY <1>1, <1>2 DEF ConfigurationInv

LEMMA TypesKept == ConfigurationInv /\ [ConfigurationNext]_configurationVars => ConfigurationInv'
<1> SUFFICES ASSUME ConfigurationInv, [ConfigurationNext]_configurationVars
             PROVE  ConfigurationInv'
  OBVIOUS
<1>1. CASE UNCHANGED configurationVars
  BY <1>1 DEF configurationVars, commandLine, ConfigurationInv, FileInv, SourceInv, ForwarderInv, Quiet
<1>2. CASE \E m \in Commands \cup BareCommands, p \in Peer : p \in config.peers /\ Handle(m, p)
  BY <1>2, HandleTypes DEF IsCommand
<1>3. CASE \E p \in Peer : Accept(p)
  BY <1>3, AcceptTypes
<1>4. CASE \E n \in Routable(config) : Break(n)
  BY <1>4, BreakTypes
<1>5. CASE Exit \/ Crash
  BY <1>5, StopTypes DEF Exit, Crash
<1>6. QED
  BY <1>1, <1>2, <1>3, <1>4, <1>5, StartTypes, OpenStateFileTypes, OpenLinkTypes, OpenDefaultTypes,
     SetDebugTypes, ReplayLineTypes, ReplayRefusedTypes, RunTypes, WriteNameTypes, WriteArgumentsTypes
     DEF ConfigurationNext

(* Configurations, lines and the state file keep their types: names are    *)
(* unique, no route is over a link that is not there, and only the last    *)
(* line of the file is ever without its arguments (athena_InterestControl.c).*)
THEOREM ConfigurationTypeCorrect == Configuration => []ConfigurationTypeOK
<1>1. ConfigurationInv => ConfigurationTypeOK
  <2> SUFFICES ASSUME ConfigurationInv
               PROVE  ConfigurationTypeOK
    OBVIOUS
  <2>1. config \in ConfigSet
    BY DEF ConfigurationInv, ForwarderInv, Sound
  <2>2. config.routes \subseteq Prefix \X Routable(config)
    BY <2>1 DEF ConfigurationInv, ForwarderInv, Sound, ConfigSet
  <2>3. QED
    BY <2>1, <2>2 DEF ConfigurationTypeOK, ConfigurationInv, FileInv, ForwarderInv, Sound, ConfigSet, Whole
<1>2. QED
  BY <1>1, TypesInit, TypesKept, PTL DEF Configuration

(***************************************************************************)
(* What the state file tells                                               *)
(***************************************************************************)

(* A name is not given to another link later.                              *)
NamesStay == \A s, t \in LinkSpec : s.name = t.name => s = t

Tells(c, t, f) ==
  /\ c.links \subseteq t.links /\ OverOwnLinks(c) \subseteq t.routes
  /\ c.level = t.level /\ c.spawned = t.spawned
  /\ "broken" \notin f => c.links = t.links /\ OverOwnLinks(c) = t.routes

(* The lines of the changes that were made: the last is still to be        *)
(* written, or was written up to its name.                                 *)
Begun == IF HalfWritten(file) THEN Front(file) ELSE file
ChangesMade == IF pending = Nothing THEN file ELSE Append(Begun, pending)

TellsInv ==
  file # Nothing =>
    /\ Sound(untold)
    /\ Sound(Told(untold, ChangesMade)) /\ Told(untold, ChangesMade).peers = {}
    /\ Tells(config, Told(untold, ChangesMade), faults)

(* The level that -d sets is set before any line of the file sets one.     *)
NoLevelIn(s) == \A i \in 1..Len(s) : s[i].do # "set"

LevelInv ==
  phase = "starting" =>
    /\ options # <<>> => at = 0
    /\ at = 0 /\ file # Nothing => NoLevelIn(ChangesMade)

StateInv == ConfigurationInv /\ TellsInv /\ LevelInv

LEMMA AcceptsWhen ==
  ASSUME NEW m, NEW c, Accepts(c, m), NEW t
  PROVE  /\ m.do = "link add" => (Accepts(t, m) <=> m.with.is.name \notin Names(t))
         /\ m.do \in {"spawn", "set", "quit"} => Accepts(t, m)
         /\ m.do = "link remove" => (Accepts(t, m) <=> m.with.is \in Names(t))
         /\ m.do = "route add" => (Accepts(t, m) <=> m.with.is[2] \in Routable(t))
         /\ m.do = "route remove" => (Accepts(t, m) <=> m.with.is \in t.routes)
<1>1. m.do = "link add" => (Accepts(t, m) <=> m.with.is.name \notin Names(t))
  BY DEF Accepts
<1>2. m.do \in {"spawn", "set", "quit"} => Accepts(t, m)
  BY DEF Accepts
<1>3. m.do = "link remove" => (Accepts(t, m) <=> m.with.is \in Names(t))
  BY DEF Accepts
<1>4. m.do = "route add" => (Accepts(t, m) <=> m.with.is[2] \in Routable(t))
  BY DEF Accepts
<1>5. m.do = "route remove" => (Accepts(t, m) <=> m.with.is \in t.routes)
  BY DEF Accepts
<1>6. QED
  BY <1>1, <1>2, <1>3, <1>4, <1>5

LEMMA CarriedSound ==
  ASSUME NEW t, Sound(t), NEW m \in Request
  PROVE  /\ Sound(Carried(t, m)) /\ Carried(t, m).peers \subseteq t.peers
         /\ Accepts(t, m) => Carried(t, m) = Effect(t, m)
         /\ ~Accepts(t, m) => Carried(t, m) = t
BY EffectSound DEF Carried

(* Names of links and of peers are different.                              *)
LEMMA NamesOf ==
  ASSUME NEW c, Sound(c)
  PROVE  /\ \A s \in c.links : s \in LinkSpec /\ s.name \notin Peer
         /\ c.peers \subseteq Peer
         /\ \A n \in Peer : n \in Routable(c) <=> n \in c.peers
         /\ \A n : n \in Routable(c) => n \in c.peers \/ \E s \in c.links : s.name = n /\ ~s.listens
         /\ \A n, s : s \in c.links /\ s.name = n /\ ~s.listens => n \in Routable(c)
         /\ \A n : n \in Names(c) <=> n \in c.peers \/ \E s \in c.links : s.name = n
<1>1. (\A s \in c.links : s \in LinkSpec /\ s.name \notin Peer) /\ c.peers \subseteq Peer
  BY ConfigurationAssumption DEF Sound, ConfigSet
<1>2. QED
  BY <1>1 DEF Routable, Names

(* A change that is made and told is made to what was told before.         *)
LEMMA ChangeTold ==
  ASSUME NamesStay, NEW c, Sound(c), NEW t, Sound(t), t.peers = {}, NEW f, Tells(c, t, f),
         NEW m \in Request, Accepts(c, m)
  PROVE  /\ Sound(Carried(t, m)) /\ Carried(t, m).peers = {}
         /\ Tells(Effect(c, m), Carried(t, m), f)
<1> DEFINE own == OverOwnLinks(c)
           d == Effect(c, m)
           u == Carried(t, m)
<1>1. /\ c \in ConfigSet /\ t \in ConfigSet
      /\ c.links \subseteq t.links /\ own \subseteq t.routes /\ c.level = t.level /\ c.spawned = t.spawned
      /\ "broken" \notin f => c.links = t.links /\ own = t.routes
      /\ own = {r \in c.routes : r[2] \notin c.peers}
  BY DEF Tells, Sound, OverOwnLinks
<1>2. /\ Sound(u) /\ u.peers = {}
      /\ Accepts(t, m) => u = Effect(t, m)
      /\ ~Accepts(t, m) => u = t
  BY CarriedSound
<1>0. /\ \A s \in c.links : s \in LinkSpec /\ s.name \notin Peer
      /\ \A s \in t.links : s \in LinkSpec /\ s.name \notin Peer
      /\ c.peers \subseteq Peer
      /\ \A x : x \in Names(c) <=> x \in c.peers \/ \E s \in c.links : s.name = x
      /\ \A x : x \in Names(t) <=> \E s \in t.links : s.name = x
  BY NamesOf
<1>3. SUFFICES Tells(d, u, f)
  BY <1>2
<1>4. CASE Adds(c, m)
  <2>1. /\ m.do = "link add" /\ m.with.is \in LinkSpec /\ m.with.is.name \notin Names(c)
        /\ d = [c EXCEPT !.links = @ \cup {m.with.is}]
    BY <1>4 DEF Adds
  <2>2. /\ d.links = c.links \cup {m.with.is} /\ d.routes = c.routes /\ d.peers = c.peers
        /\ d.level = c.level /\ d.spawned = c.spawned
    BY <1>1, <2>1 DEF ConfigSet
  <2>3. OverOwnLinks(d) = own
    BY <2>2 DEF OverOwnLinks
  <2>4. CASE Accepts(t, m)
    <3>1. u = [t EXCEPT !.links = @ \cup {m.with.is}]
      BY <1>2, <2>1, <2>4, WhatACommandDoes DEF Adds, Spawns, Removes, AddsRoute, RemovesRoute, Sets, Quits
    <3>2. u.links = t.links \cup {m.with.is} /\ u.routes = t.routes /\ u.level = t.level /\ u.spawned = t.spawned
      BY <1>1, <3>1 DEF ConfigSet
    <3>3. QED
      BY <1>1, <2>2, <2>3, <3>2 DEF Tells
  <2>5. CASE ~Accepts(t, m)
    <3>1. m.with.is.name \in Names(t)
      BY <2>1, <2>5, AcceptsWhen
    <3>2. m.with.is \in t.links
      <4>1. PICK s \in t.links : s.name = m.with.is.name
        BY <1>0, <3>1
      <4>2. QED
        BY <1>0, <2>1, <4>1 DEF NamesStay
    <3>3. m.with.is \notin c.links
      BY <1>0, <2>1
    <3>4. QED
      BY <1>1, <1>2, <2>2, <2>3, <2>5, <3>2, <3>3 DEF Tells
  <2>6. QED
    BY <2>4, <2>5
<1>5. CASE Spawns(c, m) \/ Sets(c, m) \/ Quits(c, m)
  <2>1. Accepts(t, m) /\ u = Effect(t, m)
    BY <1>2, <1>5, AcceptsWhen DEF Spawns, Sets, Quits
  <2>2. \/ d = [c EXCEPT !.spawned = @ \cup {m.with.is}] /\ u = [t EXCEPT !.spawned = @ \cup {m.with.is}]
        \/ d = [c EXCEPT !.level = m.with.is] /\ u = [t EXCEPT !.level = m.with.is]
        \/ d = [c EXCEPT !.exit = TRUE] /\ u = [t EXCEPT !.exit = TRUE]
    BY <1>5, <2>1, WhatACommandDoes DEF Adds, Spawns, Removes, AddsRoute, RemovesRoute, Sets, Quits
  <2>3. /\ d.links = c.links /\ d.routes = c.routes /\ d.peers = c.peers
        /\ u.links = t.links /\ u.routes = t.routes /\ d.level = u.level /\ d.spawned = u.spawned
    BY <1>1, <2>2 DEF ConfigSet
  <2>4. OverOwnLinks(d) = own
    BY <2>3 DEF OverOwnLinks
  <2>5. QED
    BY <1>1, <2>3, <2>4 DEF Tells
<1>6. CASE Removes(c, m)
  <2>1. PICK n : n = m.with.is
    OBVIOUS
  <2>2. m.do = "link remove" /\ n \in Names(c) /\ d = Without(c, n)
    BY <1>6, <2>1 DEF Removes
  <2>3. /\ d.links = {s \in c.links : s.name # n} /\ d.peers = c.peers \ {n}
        /\ d.routes = {r \in c.routes : r[2] # n} /\ d.level = c.level /\ d.spawned = c.spawned
    <3>1. PICK w : w = Without(c, n)
      OBVIOUS
    <3>2. /\ w.links = {s \in c.links : s.name # n} /\ w.peers = c.peers \ {n}
          /\ w.routes = {r \in c.routes : r[2] # n} /\ w.level = c.level /\ w.spawned = c.spawned
      BY <1>1, <3>1, WithoutIs
    <3>3. d = w
      BY <2>2, <3>1
    <3> HIDE DEF d
    <3>4. QED
      BY <3>2, <3>3
  <2>4. OverOwnLinks(d) = {r \in own : r[2] # n}
    BY <2>3 DEF OverOwnLinks
  <2>5. CASE Accepts(t, m)
    <3>1. u = Without(t, n)
      BY <1>2, <2>1, <2>2, <2>5, WhatACommandDoes DEF Adds, Spawns, Removes, AddsRoute, RemovesRoute, Sets, Quits
    <3>2. /\ u.links = {s \in t.links : s.name # n} /\ u.routes = {r \in t.routes : r[2] # n}
          /\ u.level = t.level /\ u.spawned = t.spawned
      <4>1. PICK w : w = Without(t, n)
        OBVIOUS
      <4>2. /\ w.links = {s \in t.links : s.name # n} /\ w.routes = {r \in t.routes : r[2] # n}
            /\ w.level = t.level /\ w.spawned = t.spawned
        BY <1>1, <4>1, WithoutIs
      <4>3. u = w
        BY <3>1, <4>1
      <4> HIDE DEF u
      <4>4. QED
        BY <4>2, <4>3
    <3>3. QED
      BY <1>1, <2>3, <2>4, <3>2 DEF Tells
  <2>6. CASE ~Accepts(t, m)
    <3>1. n \notin Names(t)
      BY <2>1, <2>2, <2>6, AcceptsWhen
    <3>2. \A s \in t.links : s.name # n
      BY <1>0, <3>1
    <3>3. n \in c.peers
      BY <1>1, <1>0, <2>2, <3>2
    <3>4. d.links = c.links
      BY <1>1, <2>3, <3>2
    <3>5. \A r \in own : r[2] # n
      BY <1>1, <3>3
    <3>6. QED
      BY <1>1, <1>2, <2>3, <2>4, <2>6, <3>4, <3>5 DEF Tells
  <2>7. QED
    BY <2>5, <2>6
<1>7. CASE AddsRoute(c, m)
  <2>1. PICK r : r = m.with.is
    OBVIOUS
  <2>2. m.do = "route add" /\ r[2] \in Routable(c) /\ d = [c EXCEPT !.routes = @ \cup {r}]
    BY <1>7, <2>1 DEF AddsRoute
  <2>3. /\ d.links = c.links /\ d.peers = c.peers /\ d.routes = c.routes \cup {r}
        /\ d.level = c.level /\ d.spawned = c.spawned
    BY <1>1, <2>2 DEF ConfigSet
  <2>4. /\ r[2] \in c.peers => OverOwnLinks(d) = own
        /\ r[2] \notin c.peers => OverOwnLinks(d) = own \cup {r}
    BY <1>1, <2>3 DEF OverOwnLinks
  <2>5. CASE Accepts(t, m)
    <3>1. u = [t EXCEPT !.routes = @ \cup {r}]
      BY <1>2, <2>1, <2>2, <2>5, WhatACommandDoes DEF Adds, Spawns, Removes, AddsRoute, RemovesRoute, Sets, Quits
    <3>2. u.links = t.links /\ u.routes = t.routes \cup {r} /\ u.level = t.level /\ u.spawned = t.spawned
      BY <1>1, <3>1 DEF ConfigSet
    <3>3. r[2] \notin c.peers
      <4>1. r[2] \in Routable(t)
        BY <2>1, <2>2, <2>5, AcceptsWhen
      <4>2. r[2] \notin Peer
        BY <4>1, NamesOf
      <4>3. QED
        BY <4>2, NamesOf
    <3>4. QED
      BY <1>1, <2>3, <2>4, <3>2, <3>3 DEF Tells
  <2>6. CASE ~Accepts(t, m)
    <3>1. r[2] \notin Routable(t)
      BY <2>1, <2>2, <2>6, AcceptsWhen
    <3>2. r[2] \in c.peers
      <4>1. \A s \in c.links : ~(s.name = r[2] /\ ~s.listens)
        BY <1>1, <3>1, NamesOf
      <4>2. \A x : x \in Routable(c) => x \in c.peers \/ \E s \in c.links : s.name = x /\ ~s.listens
        BY NamesOf
      <4>3. QED
        BY <2>2, <4>1, <4>2
    <3>3. QED
      BY <1>1, <1>2, <2>3, <2>4, <2>6, <3>2 DEF Tells
  <2>7. QED
    BY <2>5, <2>6
<1>8. CASE RemovesRoute(c, m)
  <2>1. PICK r : r = m.with.is
    OBVIOUS
  <2>2. m.do = "route remove" /\ d = [c EXCEPT !.routes = @ \ {r}]
    BY <1>8, <2>1 DEF RemovesRoute
  <2>3. /\ d.links = c.links /\ d.peers = c.peers /\ d.routes = c.routes \ {r}
        /\ d.level = c.level /\ d.spawned = c.spawned
    BY <1>1, <2>2 DEF ConfigSet
  <2>4. OverOwnLinks(d) = own \ {r}
    BY <1>1, <2>3 DEF OverOwnLinks
  <2>5. CASE Accepts(t, m)
    <3>1. u = [t EXCEPT !.routes = @ \ {r}]
      BY <1>2, <2>1, <2>2, <2>5, WhatACommandDoes DEF Adds, Spawns, Removes, AddsRoute, RemovesRoute, Sets, Quits
    <3>2. u.links = t.links /\ u.routes = t.routes \ {r} /\ u.level = t.level /\ u.spawned = t.spawned
      BY <1>1, <3>1 DEF ConfigSet
    <3>3. QED
      BY <1>1, <2>3, <2>4, <3>2 DEF Tells
  <2>6. CASE ~Accepts(t, m)
    <3>1. r \notin t.routes
      BY <2>1, <2>2, <2>6, AcceptsWhen
    <3>2. own \ {r} = own
      BY <1>1, <3>1
    <3>3. QED
      BY <1>1, <1>2, <2>3, <2>4, <2>6, <3>2 DEF Tells
  <2>7. QED
    BY <2>5, <2>6
<1>9. QED
  BY WhatACommandDoes, <1>4, <1>5, <1>6, <1>7, <1>8

LEMMA MadeIsLines ==
  ASSUME ConfigurationInv, file # Nothing
  PROVE  ChangesMade \in Seq(Lines)
<1>1. file \in Seq(Lines) /\ Whole(file)
  BY DEF ConfigurationInv, FileInv
<1>2. CASE pending # Nothing
  <2>1. pending \in Lines
    BY <1>2, CommandIsLine DEF ConfigurationInv, FileInv
  <2>2. Begun \in Seq(Lines)
    <3>1. HalfWritten(file) => file # <<>>
      BY DEF HalfWritten
    <3>2. QED
      BY <1>1, <3>1, FrontOf DEF Begun
  <2>3. QED
    BY <1>2, <2>1, <2>2, AppendProperties DEF ChangesMade
<1>3. CASE pending = Nothing
  BY <1>1, <1>3 DEF ChangesMade
<1>4. QED
  BY <1>2, <1>3

(* A change is made where it is logged.                                    *)
LEMMA OneMoreChange ==
  ASSUME ConfigurationInv, Quiet, file # Nothing, NEW m \in Request, IsCommand(m),
         pending' = m, UNCHANGED file
  PROVE  /\ file \in Seq(Lines) /\ m \in Lines
         /\ ChangesMade = file /\ ChangesMade' = Append(file, m)
<1>1. m \in Lines /\ m # Nothing
  BY CommandIsLine, LineForms
<1>2. ~HalfWritten(file) /\ file \in Seq(Lines)
  BY DEF ConfigurationInv, FileInv
<1>3. QED
  BY <1>1, <1>2 DEF Quiet, ChangesMade, Begun

LEMMA ChangeTells ==
  ASSUME NamesStay, ConfigurationInv, TellsInv, Quiet, NEW m \in Request,
         Accepts(config, m), config' = Effect(config, m),
         pending' = (IF file = Nothing THEN Nothing ELSE m), UNCHANGED <<file, faults>>,
         file # Nothing => UNCHANGED untold
  PROVE  TellsInv'
<1> SUFFICES ASSUME file # Nothing
             PROVE  /\ Sound(untold')
                    /\ Sound(Told(untold', ChangesMade')) /\ Told(untold', ChangesMade').peers = {}
                    /\ Tells(config', Told(untold', ChangesMade'), faults')
  BY DEF TellsInv
<1>1. IsCommand(m) /\ pending' = m
  BY ByKind
<1>2. file \in Seq(Lines) /\ m \in Lines /\ ChangesMade = file /\ ChangesMade' = Append(file, m)
  BY <1>1, OneMoreChange
<1>3. PICK b : b = untold
  OBVIOUS
<1>4. PICK t : t = Told(b, file)
  OBVIOUS
<1>5. Told(b, ChangesMade') = Carried(t, m)
  BY <1>2, <1>4, ToldOneMore
<1>6. Sound(b) /\ Sound(t) /\ t.peers = {} /\ Tells(config, t, faults)
  BY <1>2, <1>3, <1>4 DEF TellsInv
<1>7. Sound(config)
  BY DEF ConfigurationInv, ForwarderInv
<1>8. /\ Sound(Carried(t, m)) /\ Carried(t, m).peers = {}
      /\ Tells(Effect(config, m), Carried(t, m), faults)
  BY <1>6, <1>7, ChangeTold
<1>9. untold' = b
  BY <1>3
<1>10. QED
  BY <1>5, <1>6, <1>8, <1>9

(* What tells a configuration tells one that has lost links that broke, or *)
(* has accepted others.                                                    *)
LEMMA UnaskedTells ==
  ASSUME ConfigurationInv, TellsInv, UNCHANGED <<file, pending, untold>>,
         config'.links \subseteq config.links,
         OverOwnLinks(config') \subseteq OverOwnLinks(config),
         config'.level = config.level, config'.spawned = config.spawned,
         \/ /\ faults' = faults /\ config'.links = config.links
            /\ OverOwnLinks(config') = OverOwnLinks(config)
         \/ "broken" \in faults'
  PROVE  TellsInv'
<1>1. ChangesMade' = ChangesMade
  BY DEF ChangesMade, Begun
<1>2. QED
  BY <1>1 DEF TellsInv, Tells

LEMMA AcceptTells ==
  ASSUME ConfigurationInv, TellsInv, NEW p \in Peer, Accept(p)
  PROVE  TellsInv'
<1>1. /\ config' = [config EXCEPT !.peers = @ \cup {p}] /\ UNCHANGED <<file, pending, untold, faults>>
  BY DEF Accept
<1>2. Sound(config) /\ config \in ConfigSet
  BY DEF ConfigurationInv, ForwarderInv, Sound
<1>3. /\ config'.links = config.links /\ config'.peers = config.peers \cup {p}
      /\ config'.routes = config.routes /\ config'.level = config.level /\ config'.spawned = config.spawned
  BY <1>1, <1>2 DEF ConfigSet
<1>4. \A r \in config.routes : r[2] = p => r[2] \in config.peers
  <2>1. \A r \in config.routes : r[2] \in Routable(config)
    BY <1>2 DEF Sound
  <2>2. \A n \in Peer : n \in Routable(config) <=> n \in config.peers
    BY <1>2, NamesOf
  <2>3. QED
    BY <2>1, <2>2
<1>5. OverOwnLinks(config') = OverOwnLinks(config)
  BY <1>3, <1>4 DEF OverOwnLinks
<1>6. UNCHANGED <<file, pending, untold>> /\ faults' = faults
  BY <1>1
<1>7. QED
  BY <1>3, <1>5, <1>6, UnaskedTells

LEMMA BreakTells ==
  ASSUME ConfigurationInv, TellsInv, NEW n, n \in Routable(config), Break(n)
  PROVE  TellsInv'
<1>1. /\ config' = Without(config, n) /\ UNCHANGED <<file, pending, untold>>
      /\ faults' = IF n \in Peer THEN faults ELSE faults \cup {"broken"}
  BY DEF Break
<1>2. Sound(config) /\ config \in ConfigSet
  BY DEF ConfigurationInv, ForwarderInv, Sound
<1>3. PICK w : w = Without(config, n)
  OBVIOUS
<1>4. /\ w.links = {s \in config.links : s.name # n} /\ w.peers = config.peers \ {n}
      /\ w.routes = {r \in config.routes : r[2] # n}
      /\ w.level = config.level /\ w.spawned = config.spawned
  BY <1>2, <1>3, WithoutIs
<1>5. config' = w
  BY <1>1, <1>3
<1>6. /\ config'.links = {s \in config.links : s.name # n} /\ config'.peers = config.peers \ {n}
      /\ config'.routes = {r \in config.routes : r[2] # n}
      /\ config'.level = config.level /\ config'.spawned = config.spawned
  BY <1>4, <1>5
<1>7. OverOwnLinks(config') = {r \in OverOwnLinks(config) : r[2] # n}
  BY <1>6 DEF OverOwnLinks
<1>8. CASE n \in Peer
  <2>1. \A s \in config.links : s.name # n
    BY <1>2, <1>8, NamesOf
  <2>2. config'.links = config.links
    BY <1>6, <2>1
  <2>3. n \in config.peers
    BY <1>2, <1>8, NamesOf
  <2>4. \A r \in OverOwnLinks(config) : r[2] # n
    BY <2>3 DEF OverOwnLinks
  <2>5. OverOwnLinks(config') = OverOwnLinks(config)
    BY <1>7, <2>4
  <2>6. faults' = faults /\ UNCHANGED <<file, pending, untold>>
    BY <1>1, <1>8
  <2>7. QED
    BY <1>6, <2>2, <2>5, <2>6, UnaskedTells
<1>9. CASE n \notin Peer
  <2>1. "broken" \in faults' /\ UNCHANGED <<file, pending, untold>>
    BY <1>1, <1>9
  <2>2. config'.links \subseteq config.links
        /\ OverOwnLinks(config') \subseteq OverOwnLinks(config)
    BY <1>6, <1>7
  <2>3. QED
    BY <1>6, <2>1, <2>2, UnaskedTells
<1>10. QED
  BY <1>8, <1>9

(* The name of a line, then its arguments: the change is the same.         *)
LEMMA WritingIsTelling ==
  ASSUME ConfigurationInv, WriteName \/ WriteArguments
  PROVE  ChangesMade' = ChangesMade
<1>1. pending # Nothing /\ phase # "down"
  BY DEF WriteName, WriteArguments, Quiet
<1>2. IsCommand(pending) /\ file \in Seq(Lines) /\ Whole(file) /\ pending \in Lines
  BY <1>1, CommandIsLine DEF ConfigurationInv, FileInv
<1>3. CASE WriteName
  <2>1. /\ ~HalfWritten(file) /\ file' = Append(file, WrittenName)
        /\ pending' = (IF WrittenName = pending THEN Nothing ELSE pending)
    BY <1>3 DEF WriteName, Quiet, WrittenName
  <2>2. ChangesMade = Append(file, pending)
    BY <1>1, <2>1 DEF ChangesMade, Begun
  <2>3. CASE WrittenName = pending
    <3>1. pending' = Nothing /\ file' = Append(file, pending)
      BY <2>1, <2>3
    <3>2. QED
      BY <2>2, <3>1 DEF ChangesMade
  <2>4. CASE WrittenName # pending
    <3>1. WrittenName \in Lines /\ Torn(WrittenName)
      BY <1>2, <2>4, WrittenNameIs
    <3>2. PICK s, w, t : s = file /\ w = WrittenName /\ t = Append(s, w)
      OBVIOUS
    <3>3. /\ t \in Seq(Lines) /\ Len(t) = Len(s) + 1 /\ Len(s) \in Nat
          /\ \A i \in 1..Len(s) : t[i] = s[i]
          /\ t # <<>> /\ HalfWritten(t) /\ Whole(t)
      BY <1>2, <2>1, <3>1, <3>2, WrittenFile
    <3>4. /\ Front(t) \in Seq(Lines) /\ Len(Front(t)) = Len(t) - 1
          /\ \A i \in 1..Len(t) - 1 : Front(t)[i] = t[i]
      BY <3>3, FrontOf
    <3>5. Front(t) = s
      <4>1. s \in Seq(Lines) /\ Len(t) - 1 = Len(s)
        BY <1>2, <3>2, <3>3
      <4>2. Len(Front(t)) = Len(s) /\ \A i \in 1..Len(Front(t)) : Front(t)[i] = s[i]
        BY <3>3, <3>4, <4>1
      <4>3. QED
        BY <3>4, <4>1, <4>2, SeqEqual
    <3>6. file' = t /\ pending' = pending
      BY <2>1, <2>4, <3>2
    <3>7. QED
      BY <1>1, <2>2, <3>2, <3>3, <3>5, <3>6 DEF ChangesMade, Begun
  <2>5. QED
    BY <2>3, <2>4
<1>4. CASE WriteArguments
  <2>1. HalfWritten(file) /\ file' = Append(Front(file), pending) /\ pending' = Nothing
    BY <1>4 DEF WriteArguments
  <2>2. QED
    BY <1>1, <2>1 DEF ChangesMade, Begun
<1>5. QED
  BY <1>3, <1>4

LEMMA WritingTells ==
  ASSUME ConfigurationInv, TellsInv, WriteName \/ WriteArguments
  PROVE  TellsInv'
<1>1. ChangesMade' = ChangesMade /\ UNCHANGED <<config, untold, faults>>
  BY WritingIsTelling DEF WriteName, WriteArguments
<1>2. file # Nothing
  BY DEF WriteName, WriteArguments, Quiet, ConfigurationInv, FileInv
<1>3. QED
  BY <1>1, <1>2 DEF TellsInv

LEMMA OpeningTells ==
  ASSUME ConfigurationInv, OpenStateFile
  PROVE  TellsInv'
<1>1. /\ phase = "starting" /\ pending = Nothing /\ file' = <<>> /\ untold' = config
      /\ UNCHANGED <<config, pending, faults>>
  BY DEF OpenStateFile, Option, Starting, Quiet
<1>2. ChangesMade' = <<>>
  BY <1>1 DEF ChangesMade
<1>3. PICK c : c = config
  OBVIOUS
<1>4. Told(c, <<>>) = c
  BY ToldNothing
<1>5. Sound(c) /\ c.peers = {}
  BY <1>1, <1>3 DEF ConfigurationInv, ForwarderInv
<1>6. Tells(c, c, faults)
  <2>1. OverOwnLinks(c) = c.routes
    BY <1>5 DEF OverOwnLinks
  <2>2. QED
    BY <2>1 DEF Tells
<1>7. config' = c /\ untold' = c /\ faults' = faults
  BY <1>1, <1>3
<1>8. QED
  BY <1>2, <1>4, <1>5, <1>6, <1>7 DEF TellsInv

(* As no line sets the level, it is that of what was configured before.    *)
LEMMA DebugTells ==
  ASSUME ConfigurationInv, TellsInv, LevelInv, SetDebug
  PROVE  TellsInv'
<1>1. /\ phase = "starting" /\ options # <<>>
      /\ config' = [config EXCEPT !.level = Debug] /\ untold' = [untold EXCEPT !.level = Debug]
      /\ UNCHANGED <<file, pending, faults>>
  BY DEF SetDebug, Option, Starting
<1>2. ChangesMade' = ChangesMade
  BY <1>1 DEF ChangesMade, Begun
<1> SUFFICES ASSUME file # Nothing
             PROVE  /\ Sound(untold')
                    /\ Sound(Told(untold', ChangesMade)) /\ Told(untold', ChangesMade).peers = {}
                    /\ Tells(config', Told(untold', ChangesMade), faults')
  BY <1>1, <1>2 DEF TellsInv
<1>3. PICK s \in Seq(Request) : s = ChangesMade
  <2>1. Lines \subseteq Request
    BY LineForms
  <2>2. QED
    BY <2>1, MadeIsLines
<1>4. \A i \in 1..Len(s) : s[i].do # "set"
  BY <1>1, <1>3 DEF LevelInv, NoLevelIn
<1>5. PICK b : b = untold
  OBVIOUS
<1>6. PICK t : t = Told(b, s)
  OBVIOUS
<1>7. Sound(b) /\ Sound(t) /\ t.peers = {} /\ Tells(config, t, faults)
  BY <1>3, <1>5, <1>6 DEF TellsInv
<1>8. Debug \in Level
  BY ConfigurationAssumption
<1>9. PICK e : e = [b EXCEPT !.level = Debug]
  OBVIOUS
<1>10. PICK u : u = Told(e, s)
  OBVIOUS
<1>11. u = [t EXCEPT !.level = Debug]
  BY <1>4, <1>6, <1>7, <1>8, <1>9, <1>10, ToldLevelApart
<1>12. Sound(e) /\ Sound(u) /\ u.peers = {}
  <2>1. ASSUME NEW c, Sound(c), NEW d, d = [c EXCEPT !.level = Debug]
        PROVE  Sound(d) /\ d.peers = c.peers
    <3>1. d \in ConfigSet /\ d.links = c.links /\ d.peers = c.peers /\ d.routes = c.routes
      BY <1>8, <2>1 DEF Sound, ConfigSet
    <3>2. QED
      BY <2>1, <3>1 DEF Sound, Routable
  <2>2. Sound(e)
    BY <1>7, <1>9, <2>1
  <2>3. QED
    BY <1>7, <1>11, <2>1, <2>2
<1>13. Tells(config', u, faults)
  <2>1. config \in ConfigSet /\ t \in ConfigSet
    BY <1>7 DEF ConfigurationInv, ForwarderInv, Sound
  <2>2. /\ config'.links = config.links /\ config'.routes = config.routes /\ config'.peers = config.peers
        /\ config'.level = Debug /\ config'.spawned = config.spawned
    BY <1>1, <2>1 DEF ConfigSet
  <2>3. u.links = t.links /\ u.routes = t.routes /\ u.level = Debug /\ u.spawned = t.spawned
    BY <1>11, <2>1 DEF ConfigSet
  <2>4. OverOwnLinks(config') = OverOwnLinks(config)
    BY <2>2 DEF OverOwnLinks
  <2>5. QED
    BY <1>7, <2>2, <2>3, <2>4 DEF Tells
<1>14. Told(untold', ChangesMade) = u /\ untold' = e /\ faults' = faults
  BY <1>1, <1>3, <1>5, <1>9, <1>10
<1>15. QED
  BY <1>12, <1>13, <1>14

LEMMA HandleTells ==
  ASSUME NamesStay, ConfigurationInv, TellsInv, NEW m, IsCommand(m), NEW p \in Peer,
         Handle(m, p)
  PROVE  TellsInv'
<1>1. PICK r \in Request : r = Resolved(m, p)
  BY ResolvedIs
<1>2. /\ Quiet /\ Accepts(config, r) /\ config' = Effect(config, r)
      /\ pending' = (IF file = Nothing THEN Nothing ELSE r) /\ UNCHANGED <<file, untold, faults>>
  BY <1>1 DEF Handle, Running, Log
<1>3. QED
  BY <1>2, ChangeTells

LEMMA OpenedTells ==
  ASSUME NamesStay, ConfigurationInv, TellsInv, NEW l, l \in LinkSpec, Quiet,
         Accepts(config, Adding(l)), config' = Effect(config, Adding(l)),
         Log(Adding(l)), UNCHANGED <<file, faults>>, file # Nothing => UNCHANGED untold
  PROVE  TellsInv'
<1>1. PICK m \in Request : m = Adding(l)
  BY AddingIs
<1>2. Accepts(config, m) /\ config' = Effect(config, m)
      /\ pending' = (IF file = Nothing THEN Nothing ELSE m)
  BY <1>1 DEF Log
<1>3. QED
  BY <1>2, ChangeTells

LEMMA ReplayTells ==
  ASSUME NamesStay, ConfigurationInv, TellsInv, ReplayLine
  PROVE  TellsInv'
<1>1. /\ Quiet /\ source # Nothing /\ at < Len(source) /\ UNCHANGED <<file, untold, faults>>
  BY DEF ReplayLine, Reading, Starting, commandLine
<1>2. at + 1 \in 1..Len(source)
  BY <1>1 DEF ConfigurationInv, SourceInv
<1>3. CASE Dispatched /\ Accepts(config, Payload(at + 1))
  <2>1. PICK m \in Request : m = Payload(at + 1)
    BY <1>1, <1>2, PayloadIs DEF ConfigurationInv
  <2>2. config' = Effect(config, m) /\ Accepts(config, m)
        /\ pending' = (IF file = Nothing THEN Nothing ELSE m)
    BY <1>3, <2>1 DEF ReplayLine, Log
  <2>3. QED
    BY <1>1, <2>2, ChangeTells
<1>4. CASE ~(Dispatched /\ Accepts(config, Payload(at + 1)))
  BY <1>1, <1>4 DEF ReplayLine, TellsInv, ChangesMade, Begun
<1>5. QED
  BY <1>3, <1>4

LEMMA TellsKept ==
  ASSUME NamesStay, ConfigurationInv, TellsInv, LevelInv, [ConfigurationNext]_configurationVars
  PROVE  TellsInv'
<1>1. CASE UNCHANGED configurationVars
  BY <1>1 DEF configurationVars, TellsInv, ChangesMade, Begun
<1>2. CASE \E m \in Commands \cup BareCommands, p \in Peer : p \in config.peers /\ Handle(m, p)
  BY <1>2, HandleTells DEF IsCommand
<1>3. CASE \E p \in Peer : Accept(p)
  BY <1>3, AcceptTells
<1>4. CASE \E n \in Routable(config) : Break(n)
  BY <1>4, BreakTells
<1>5. CASE Exit \/ Crash
  BY <1>5 DEF Exit, Crash, Stop, TellsInv
<1>6. CASE Start
  BY <1>6 DEF Start, TellsInv, ConfigurationInv, ForwarderInv
<1>7. CASE Run
  BY <1>7 DEF Run, TellsInv, ChangesMade, Begun
<1>8. CASE OpenLink
  <2>1. PICK s \in LinkSpec :
          /\ Quiet /\ Accepts(config, Adding(s)) /\ config' = Effect(config, Adding(s))
          /\ Log(Adding(s)) /\ UNCHANGED <<file, faults>> /\ (file # Nothing => UNCHANGED untold)
    BY <1>8 DEF OpenLink, Option, Starting
  <2>2. QED
    BY <2>1, OpenedTells
<1>9. CASE OpenDefault
  <2>1. /\ Quiet /\ Accepts(config, Adding(DefaultSpec)) /\ config' = Effect(config, Adding(DefaultSpec))
        /\ Log(Adding(DefaultSpec)) /\ UNCHANGED <<file, faults>> /\ (file # Nothing => UNCHANGED untold)
    BY <1>9 DEF OpenDefault, Starting
  <2>2. DefaultSpec \in LinkSpec
    BY ConfigurationAssumption
  <2>3. QED
    BY <2>1, <2>2, OpenedTells
<1>10. CASE ReplayRefused
  <2>1. UNCHANGED <<config, file, pending, untold>> /\ faults' = faults \cup {"refused"}
    BY <1>10 DEF ReplayRefused
  <2>2. "broken" \in faults' <=> "broken" \in faults
    BY <2>1
  <2>3. ChangesMade' = ChangesMade
    BY <2>1 DEF ChangesMade, Begun
  <2>4. QED
    BY <2>1, <2>2, <2>3 DEF TellsInv, Tells
<1>11. QED
  BY <1>1, <1>2, <1>3, <1>4, <1>5, <1>6, <1>7, <1>8, <1>9, <1>10,
     OpeningTells, DebugTells, ReplayTells, WritingTells
     DEF ConfigurationNext

(* A link that is opened is told by a line that sets no level.             *)
LEMMA OpenedSetsNoLevel ==
  ASSUME ConfigurationInv, LevelInv, phase = "starting", Quiet, NEW l \in LinkSpec,
         Log(Adding(l)), UNCHANGED <<file, at>>, at = 0, file # Nothing
  PROVE  NoLevelIn(ChangesMade')
<1>1. PICK m \in Request : m = Adding(l) /\ m.do = "link add"
  BY AddingIs
<1>2. IsCommand(m)
  <2>1. m \in Commands
    BY <1>1 DEF Adding, Commands, LinkArgument
  <2>2. QED
    BY <2>1 DEF IsCommand
<1>3. pending' = m
  BY <1>1 DEF Log
<1>4. file \in Seq(Lines) /\ m \in Lines /\ ChangesMade = file /\ ChangesMade' = Append(file, m)
  BY <1>2, <1>3, OneMoreChange
<1>5. PICK s \in Seq(Lines) : s = file
  BY <1>4
<1>6. \A i \in 1..Len(s) : s[i].do # "set"
  BY <1>4, <1>5 DEF LevelInv, NoLevelIn
<1>7. PICK u : u = Append(s, m)
  OBVIOUS
<1>8. /\ Len(s) \in Nat /\ Len(u) = Len(s) + 1 /\ u[Len(s) + 1] = m
      /\ \A n \in 1..Len(s) : u[n] = s[n]
  BY <1>4, <1>7, AppendProperties
<1>9. NoLevelIn(u)
  <2> SUFFICES ASSUME NEW i \in 1..Len(u)
               PROVE  u[i].do # "set"
    BY DEF NoLevelIn
  <2>1. CASE i \in 1..Len(s)
    BY <1>6, <1>8, <2>1
  <2>2. CASE i = Len(s) + 1
    BY <1>1, <1>8, <2>2
  <2>3. QED
    BY <1>8, <2>1, <2>2
<1>10. QED
  BY <1>4, <1>5, <1>7, <1>9

LEMMA LevelKept ==
  ASSUME ConfigurationInv, LevelInv, [ConfigurationNext]_configurationVars
  PROVE  LevelInv'
<1>1. ASSUME phase' # "starting"
      PROVE  LevelInv'
  BY <1>1 DEF LevelInv
<1>2. ASSUME UNCHANGED <<phase, at>>, options' # <<>> => options # <<>>, ChangesMade' = ChangesMade,
             file' # Nothing => file # Nothing
      PROVE  LevelInv'
  BY <1>2 DEF LevelInv
<1>3. ASSUME at' = at + 1, options' = <<>>
      PROVE  LevelInv'
  BY <1>3 DEF LevelInv, ConfigurationInv, SourceInv
<1>4. CASE UNCHANGED configurationVars
  BY <1>2, <1>4 DEF configurationVars, commandLine, ChangesMade, Begun
<1>5. CASE \E m \in Commands \cup BareCommands, p \in Peer : p \in config.peers /\ Handle(m, p)
  BY <1>1, <1>5 DEF Handle, Running
<1>6. CASE \E p \in Peer : Accept(p)
  BY <1>1, <1>6 DEF Accept, Running
<1>7. CASE \E n \in Routable(config) : Break(n)
  BY <1>1, <1>7 DEF Break, Running
<1>8. CASE Exit \/ Crash \/ Run
  BY <1>1, <1>8 DEF Exit, Crash, Stop, Run
<1>9. CASE Start
  BY <1>9 DEF Start, LevelInv, ConfigurationInv, ForwarderInv
<1>10. CASE OpenStateFile
  <2>1. /\ phase = "starting" /\ options # <<>> /\ UNCHANGED at /\ pending' = Nothing /\ file' = <<>>
    BY <1>10 DEF OpenStateFile, Option, Starting, Quiet
  <2>2. ChangesMade' = <<>> /\ Len(<<>>) = 0
    BY <2>1 DEF ChangesMade
  <2>3. at' = 0
    BY <2>1 DEF LevelInv
  <2>4. QED
    BY <2>2, <2>3 DEF LevelInv, NoLevelIn
<1>11. CASE SetDebug
  BY <1>2, <1>11 DEF SetDebug, Option, ChangesMade, Begun
<1>12. CASE OpenLink
  <2>1. PICK s \in LinkSpec :
          /\ phase = "starting" /\ options # <<>> /\ Quiet
          /\ Log(Adding(s)) /\ UNCHANGED <<file, at>>
    BY <1>12 DEF OpenLink, Option, Starting
  <2>2. at = 0
    BY <2>1 DEF LevelInv
  <2>3. QED
    BY <2>1, <2>2, OpenedSetsNoLevel DEF LevelInv
<1>13. CASE OpenDefault
  <2>1. /\ phase = "starting" /\ source = Nothing /\ Quiet
        /\ Log(Adding(DefaultSpec)) /\ UNCHANGED <<file, at>>
    BY <1>13 DEF OpenDefault, Starting
  <2>2. at = 0 /\ DefaultSpec \in LinkSpec
    BY <2>1, ConfigurationAssumption DEF ConfigurationInv, SourceInv
  <2>3. QED
    BY <2>1, <2>2, OpenedSetsNoLevel DEF LevelInv
<1>14. CASE ReplayLine \/ ReplayRefused
  BY <1>3, <1>14 DEF ReplayLine, ReplayRefused, Reading, commandLine
<1>15. CASE WriteName \/ WriteArguments
  <2>1. UNCHANGED <<phase, at, options>> /\ pending # Nothing
    BY <1>15 DEF WriteName, WriteArguments, commandLine, Quiet
  <2>2. ChangesMade' = ChangesMade /\ file # Nothing
    BY <1>15, <2>1, WritingIsTelling DEF ConfigurationInv, FileInv
  <2>3. QED
    BY <1>2, <2>1, <2>2
<1>16. QED
  BY <1>4, <1>5, <1>6, <1>7, <1>8, <1>9, <1>10, <1>11, <1>12, <1>13, <1>14, <1>15 DEF ConfigurationNext

LEMMA StateInit == ConfigurationInit => StateInv
<1> SUFFICES ASSUME ConfigurationInit
             PROVE  StateInv
  OBVIOUS
<1>1. TellsInv /\ LevelInv
  BY DEF ConfigurationInit, TellsInv, LevelInv
<1>2. QED
  BY <1>1, TypesInit DEF StateInv

(* At any time a command has been carried out the lines of the state file, *)
(* made to what was configured without one, come to all of the             *)
(* configuration, and to nothing but it while no link broke: for every     *)
(* order of the options, links to gateways and levels from -d              *)
(* (athenaInterestControl_LogConfigurationChange, _parseCommandLine).      *)
THEOREM StateFileAlwaysTells ==
  ASSUME NamesStay
  PROVE  Configuration => []StateFileTellsConfiguration
<1>1. StateInv /\ [ConfigurationNext]_configurationVars => StateInv'
  BY TypesKept, TellsKept, LevelKept DEF StateInv
<1>2. StateInv => StateFileTellsConfiguration
  <2> SUFFICES ASSUME StateInv, phase = "running", file # Nothing, Quiet
               PROVE  LET told == Told(untold, file)
                      IN /\ config.links \subseteq told.links
                         /\ OverOwnLinks(config) \subseteq told.routes
                         /\ config.level = told.level /\ config.spawned = told.spawned
                         /\ "broken" \notin faults =>
                              config.links = told.links /\ OverOwnLinks(config) = told.routes
    BY DEF StateFileTellsConfiguration
  <2>1. ChangesMade = file
    BY DEF ChangesMade, Quiet
  <2>2. Tells(config, Told(untold, file), faults)
    BY <2>1 DEF StateInv, TellsInv
  <2>3. QED
    BY <2>2 DEF Tells
<1>3. QED
  BY <1>1, <1>2, StateInit, PTL DEF Configuration
=============================================================================
