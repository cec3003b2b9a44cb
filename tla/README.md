# A TLA+ model of the CCNx VPN forwarder

This directory models the forwarder of the repository (`src/gateway/ccnx/forwarder/athena`,
called *Athena*), which carries the VPN: a *gateway* forwarder encapsulates and encrypts
interests for a private prefix, a *private* forwarder at the other end decapsulates them,
and the content comes back encrypted under the outer name.

File and line references below are to `src/gateway/ccnx/forwarder/athena/` unless they
start with `src/`.

## 1. The system

| Component | State | Operations | Called by |
|---|---|---|---|
| Core (`athena.c`) | the five components below, the key pair of a private forwarder | `athena_ForwarderEngine`: receive a message, `athena_ProcessMessage` → `_processInterest`, `_processContentObject`, `_processManifest`, control messages | the main programs |
| FIB (`athena_FIB.c`) | `tableByName`: name → (links, output prefix, key); `listOfLinks`: link → names; default route | `Lookup`, `AddRoute`, `AddTranslationRoute`, `DeleteRoute`, `RemoveLink` | `_processInterest`, control, `_removeLink` |
| PIT (`athena_PIT.c`) | `entryTable`: compound key → entry; per link a clean-up map; `timeoutTable`: time → entries | `AddInterest`, `RemoveInterest`, `Match`, `RemoveLink` | `_processInterest`, `_processContentObject`, `_removeLink` |
| Content store (`athena_ContentStore.c`, `athena_LRUContentStore.c`) | doubly linked LRU list, three hash indexes, two sorted lists, byte count | `PutContentObject`, `GetMatch`, `RemoveMatch`, `SetCapacity` | `_processInterest`, `_processContentObject`, the main programs |
| Transport link adapter (`athena_TransportLinkAdapter.c`, `athena_TransportLink.c`) | link slots (the index is the link id), poll list, listeners, receive/send events | `Open`, `Poll`, `Receive`, `Send`, `Close`, `CloseByName`, `RemoveLink` (calls back `_removeLink` of the core) | the engine, control |
| Link modules (`athena_TransportLinkModule{TCP,UDP,ETH,TEMPLATE}.c`, `platform/`) | sockets, buffered partial messages | open, send, receive, close | the adapter |
| Fragmenter (`athena_Fragmenter.c`, `athena_TransportLinkModuleFragmenter_BEFS.c`) | receive and send sequence numbers, collected fragments | `ReceiveAndReassemble`, `CreateFragment` | Ethernet and UDP links |
| Control (`athena_Control.c`, `athena_InterestControl.c`) | the state file | commands that change the FIB, links, PIT, content store | the core, for messages under the control name |
| Command line (`athenactl*.c`, `command-line/`, `athena_About.c`) | none | builds control messages; starts forwarders | users |
| End hosts (`src/consumer`, `src/producer`, `src/ccnxVPN_Common.c`, `src/ccnxVPN_Stats.c`) | statistics | send interests, answer them | users |

An Athena is single threaded: one loop receives a message, handles it to the end and
receives the next. The hard behaviour is therefore not preemption but

* **several structures that say the same thing**: the FIB's table and its reverse index,
  the PIT's table, clean-up maps and timeout buckets, the content store's list and indexes.
  Every operation updates them one by one; a long sequence of legal calls can bring them
  out of step;
* **link ids that are reused**: `_removeLink` (`athena.c:149`) must leave no trace of a link
  in FIB or PIT, because the adapter gives the slot to the next link;
* **time**: lifetimes, expiry and purge compare with `<`, `<=` and `>` in different places,
  against a clock read once per operation;
* **limits**: the PIT's capacity, the content store's byte count;
* **the network between forwarders**: loss, duplication, reordering, retransmission, links
  that close while interests are pending; and, over the tunnel, the outer name and key
  kept with the *first* requester of a name.

What makes each component correct:

* FIB: the table and the lists agree; a lookup takes the longest prefix that has a link
  other than the ingress; a removed link is gone, and the removal returns. (That a delete changes
  only the entry it names does not hold, section 3.)
* PIT: content goes to exactly the links that wait for it; a request is dropped only when
  it has expired or its link is gone; an entry that is not due yet can be found by a purge; the
  limit holds but for one. (That every expired entry makes room does not hold, section 3.)
* Content store: never serves expired, removed or replaced content; the byte count is that
  of the list; the index names listed entries. (That content which was put can be found, and that
  an answer fits more of the interest than its name, does not hold, section 3.)
* Tunnel: an interest for a private prefix leaves the gateway only encapsulated; content
  for it comes back to the links that asked; two requesters of the same name are both answered.
* Adapter: events and closes reach the link they are about; a closed link leaves no references.
* Fragmenter: what is reassembled was sent, in order and once; what was sent and marked as ended
  arrives.
* Links: a peer's messages come over the peer's link; what is acquired is released; a link has what
  its URI asks for.
* Configuration: the state file tells what a start with the same command line would need.

`PROJECT.json` lists the hazards at their lines, with the properties that are about them.

## 2. The modules

| Module | What it is |
|---|---|
| `RouteSet` | abstract FIB: a set of routes, default links and the translation of each name |
| `AthenaFIB` | `athena_FIB.c`; implements `RouteSet` |
| `AthenaFIBProofs` | theorems about `AthenaFIB`, machine checked |
| `PendingInterests` | abstract PIT: who waits for what and until when |
| `AthenaPIT` | `athena_PIT.c`; implements `PendingInterests` for interests without a hash restriction |
| `AthenaPITProofs` | theorems about `AthenaPIT` |
| `ContentCache` | abstract content store: a cache in the order of last use that may forget |
| `AthenaLRUContentStore` | `athena_LRUContentStore.c`; implements `ContentCache` |
| `AthenaLRUContentStoreProofs` | theorems about the content store |
| `AthenaTunnel` | several forwarders (`athena.c`), consumers, producers and the links between them |
| `AthenaTunnelProofs` | theorems about `AthenaTunnel`, for every network |
| `LinkTable` | abstract link adapter: links with names, and what holds on to each |
| `AthenaTransportLinkAdapter` | the adapter, its links and their module under the engine's loop; implements `LinkTable` |
| `AthenaTransportLinkAdapterProofs` | theorems about the adapter |
| `MessageLink` | abstract link for messages: whole, in order, at most once |
| `AthenaFragmenterBEFS` | the fragmenter at both ends of a faulty network; implements `MessageLink` |
| `AthenaFragmenterBEFSProofs` | theorems about the fragmenter |
| `AthenaStreamLink` | both ends of a TCP link; implements `MessageLink` in each direction |
| `PeerChannels` | abstract datagram listener: each peer's messages over its own link |
| `AthenaDatagramLinks` | a UDP or Ethernet listener and the links of its peers; implements `PeerChannels` |
| `OpenLinks` | abstract opening of links: what the URI asks for, or nothing |
| `AthenaLinkOpening` | opening, cloning and closing of links with failing system calls; implements `OpenLinks` |
| `AthenaTransportLinkModuleProofs` | theorems about the stream and the datagram links |
| `AthenaConfiguration` | commands, the state file, crashes and starts |
| `AthenaLinkOpeningProofs` | theorems about the opening of links and about the configuration |
| `MC...` | small instances of the above for TLC |

`PROJECT.json` maps each definition to its lines. A definition named `Mutant...` stands
before the definition it alters, as a bug the code could have had would; for every
property of a passing run there is a mutant under which TLC finds the property violated.

Two proof modules extend two components each, because the arguments share lemmas (streams and
datagrams those on sequences, the opening of links and the configuration those on induction and
counting). `AthenaDatagramLinks` and `AthenaConfiguration` therefore have names of their own for
what every module has (`DatagramInit`, `DatagramTypeOK`, `ConfigurationInit`, `Nothing`, ...).

### AthenaFIB

`tableByName`, `listOfLinks` and `defaultRoute` are the fields of `struct athena_fib`. A
name is a sequence of segments; the empty name is the default route and is not in the
table. A list of names is a set, because `AddTranslationRoute` appends a name only once.
`rl` is the program counter of `athenaFIB_RemoveLink`: whether its `while` loop ends is in
question, so each iteration is a step (`RemoveLinkDelete`), between `RemoveLinkBegin` and
`RemoveLinkEnd`. All other operations wait for `rl = NoLink`, since the engine is single
threaded. `RemoveLink` is modelled for one link, the only way the adapter calls it
(`athena_TransportLinkAdapter.c:429`).

`DeleteRoute` has a disjunct for each thing the code can do: `DeleteMatched` (the longest
match has an entry), `DeleteUnmatched` (no prefix has one, and the lookup hands out the
default vector itself), `DeleteNothing`. `Lookup` is an operator, and
`LookupIsLongestUsable` compares it with its comment in the source for every name and
ingress of every reachable state.

`StrayDeletes` says whether control may ask to delete a prefix that has no entry of its
own. The code does not check it, and with `TRUE` the FIB does not keep its promises (see
section 3); what still holds then is proved. That a delete is exact is no property of a run: of an
existing entry it says little, and of any other it is false (`DeleteIsExact`).

### AthenaPIT

An entry is referred to by the table, by clean-up maps and by timeout buckets, and may be
in some and no longer in others. Entries therefore have identities, taken from the pool
`Entry`, and `Release` frees one when nothing refers to it any more, as the reference
count does. The compound key is the interest's name, content id and key id. The nameless
entry of an interest with a content id is under `Nameless(i)`.

`AddInterest` has an action per outcome: `AddNew`, `AddDuplicate` (same link), and
`AddAggregated` (another link) are single steps; `AddFull` begins a purge, `PurgeRecord`
takes one timeout record per step, and `AddAfterPurge` or `AddRefused` ends the call.
`Match`, `RemoveInterest`, `RemoveLink` are single steps. The records in one bucket are
taken in any order: the code's order depends on when they were put there. Where the code
takes the first record with a given key, `FirstRecord` prefers records of earlier entries
with that key, which are in front.

### AthenaLRUContentStore

`lru` holds `lruHead`, `lruTail` and the `next` and `prev` pointers; `Unlink`, `AddHead`
and `MoveToHead` are the three functions that edit them. Only the index by name is a
variable: no entry is ever given a key id or hash (`TODO`s of
`_athenaLRUContentStoreEntry_Create`), so the other two indexes stay empty, and the list
by expiry time is the set of entries that have one. A put that has to make room evicts
one entry per step (`putting`); everything else is one step. Interests have a name and may have a
content hash. The look-up for one that has (`Found`) goes on to the index by name, as if it had none.

### AthenaTunnel

One step is one message processed to its end by one forwarder, which is what the engine's
loop does. `net` is a set of messages: links neither order nor number them, and sending a
message that is already under way adds nothing. `pit` and `store` are what `athena.c` sees of
these components, abstracted from the modules above: an entry leaves when its content
comes, and the store may lose anything (`ReturnContent` keeps any subset, `Evict`).
Routes are constants.

An encapsulated interest's name is the public name of the gateway and the hash of the
payload; the payload has a fresh key, so the name is `[to, id]` with the key for an `id`.
A key to which no message and no pending interest refers any more (`FreeKeys`) stands for a
fresh one, and what a store still has under it is dropped when it is used again (`Forgotten`).
The actions follow the order of the code: answer from the store (`AnswerFromStore`),
decapsulate and look up (`NoRoute`), encapsulate, add to the PIT, send (`Forward`,
`Aggregate`); for content: match (`DropUnasked`), encrypt or decrypt, store, send
(`ReturnContent`). `Lose`, `ResendEarly` and `Evict` are the faults, `MaxFaults` of them.

What the forwarders promise depends on how they are put together, and the module says which
networks are meant. `RoutesToGateways`: no route leads to a consumer, and those that encapsulate or are
for a public name lead to forwarders. `TunnelsEnd`: the gateway at the end of a tunnel routes what comes
out of it in the clear. `PrivateNames`: a name behind a gateway is asked for through the tunnel
or not at all. `NoCycle`: what is sealed for a gateway comes closer to it with every hop.
`PrivateNetworks` is all four. They are statements about `Routes`, `Home` and `Wanted`, that is
about configuration; the run assumes `PrivateNetworks` of its instance and TLC checks that.

### AthenaTransportLinkAdapter

`slot` is the instance list, whose index is the link id; `listeners`, `polled` and `owned`
are the adapter's list of listeners, its poll list and the module's list of links. They are
sequences with holes, edited as the code edits them: the first vacant place is used again
(`Placed`), a closed link leaves a hole in two of the lists (`Blanked`) and shortens the
other two (`Without`). `routes` and `pending` are what matters here of the FIB and the PIT,
the link ids they hold.

`phase`, `at`, `next` and `read` are the program counter of the thread: the search from
`nextLinkToRead` to the end, the listeners, `poll()`, the listeners again, the search from
the beginning, the processing of the message found. Each step is one link or listener
visited, so that arrivals and hang-ups of the other ends (`Environment`) interleave with the
round. A close happens within the step that finds the reason for it, with all it calls back:
`CloseLinks` edits the four lists and clears the id from FIB and PIT. `Destroy` closes every
second listener (the loop runs over the list it shortens), then the instances, then whatever
the module still has.

### AthenaFragmenterBEFS

The sender cuts a message step by step (`CreateFragment`), the receiver's state is the list
of fragments it holds and the sequence number it expects. A packet is a fragment, known by
its message and its place, with the number on it; `Compare` is the signed 20-bit difference
of the code with `SeqSize` numbers. A frame below `MinPacket` is padded on Ethernet, and
`Padded` has the last fragments this happens to: the receiver compares their length with their
header and drops them. `harmed` is a history variable: the messages of which a
packet was lost, cut or refused. The network keeps packets in order unless `Faults` has
`"reorder"`.

What still may come (`Coming`) is the network with the fragment to be made behind it. To
`MessageLink`, the messages of which something is coming are in flight (`Flight`), but for
harmed ones and the one delivered last, in the order of their packets (`Order`).
`MessageLink` is a set with an order, not a sequence, because a message leaves it in the middle when
one of its fragments is lost.

### AthenaStreamLink

Each end is a thread that writes until all of a message is in the socket and reads until all
of it is there. The stream is a sequence of units that know their message, place and size; a
write or read takes as many as there is room or there are (`Write`, `ReadHeader`,
`ReadBody`), which is every way TCP can cut it. `Stated` is the size the reader sees in
what it takes for a header. `NonBlocking` has the ends whose socket inherited the
listener's flag (BSD), where a write without room drops the rest and a read of the body adds
`-1` to its count (`athena_TransportLinkModuleTCP.c:409`).

### AthenaDatagramLinks

One listener with its socket (`socket`), the frames of a BPF buffer (`buffer`), the table of
links by peer and a queue per link. Links are memory: `owner` says whose link is in it, and
the table keeps the address when the link is closed (`Stale`). What the use of freed
memory does is a choice between nothing (`FreedLink`), a crash (`Crash`), and, with `Reuse`,
the delivery over whatever link is there now. A new link whose name another one has is refused and
released, which clears the pointer the code uses next: the process stops (`CloneCrashes`; `Stop` is
what both crashes do). What waits for a peer (`WaitingFor`) is the queue of
its link, then its messages among the frames of the buffer and of the socket (`Mine`).

### AthenaLinkOpening

A URI's options are folded into parameters (`Parsed`). An open or a clone is then a list of
steps still to do (`work.todo`), one system call each; any call in `Faults` may fail, and
what the code undoes for that call is undone (`CallFails`, `FragmenterFails`, `OpenRefused`,
`CloneRefused`). `refs` counts the references to a link, `shares` those to a descriptor.
`lost` has the descriptors an open forgot: after a failed `connect` or `getsockname`
(`athena_TransportLinkModuleTCP.c:682`, `:700`). A link for a peer whose fragmenter cannot be made
goes without (`CloneGoesWithout`, `athena_TransportLinkModuleUDP.c:405`). One whose name is taken
is closed and released for TCP (`CloneRefused`); for UDP and Ethernet the released pointer is used
(`:448`, `:461`), the process stops, and the next one starts with nothing (`CloneCrashes`).

### AthenaConfiguration

A command is a record of what it does and its argument; `Accepts` and `Effect` are the
handlers. A change is made first and logged after (`pending`), in two steps, because the line
is written in several calls: a line may be `Torn`. `Crash` is possible at any point; the next
start has the last state file as configuration file and a new state file. `Payload` is the
parser of the file with its missing reset: a line that ends in its name has the arguments of
the line before. The commands that only report are left out.

A start (`Start`) first opens links to other gateways with their routes (`Gateways`, `athena_gateway.c:332`),
then takes the options of its command line in their order (`Option`): `-o` (`OpenStateFile`), `-d`
(`SetDebug`) and `-c` (`OpenLink`); then the default links if it had none (`interfaceConfigured`);
then the configuration file. Three of these changes have no line: a gateway link, a level set with
`-d`, and a link that comes before `-o`, where the usage line has it. The history variable `untold`
is what was configured in these ways; `StateFileTellsConfiguration` says that the lines of the file,
made to `untold`, come to the configuration.

## 3. The runs

Passing:

| Run | Instance | States | What it shows |
|---|---|---|---|
| `fib` | a name, its child and its grandchild, two links, a plain and a VPN translation | 4,116 | table and lists agree, lookups are right, `RemoveLink` returns and leaves nothing, and the FIB implements `RouteSet` |
| `pit` | two interests (with and without key id), two links, lifetimes 1 and 2, one entry of room, time to 3 | 22,936 | the three structures stay in step, every entry is waited for and has a record until it is due, a removed link is gone, and the PIT implements `PendingInterests` |
| `pit_hashed` | the same with a hash restriction, time to 2 | 29,128 | the limit is exceeded by one at most |
| `lru` | four objects with three names, sizes 1 and 2, three expiry times, interests by name and one by name and hash, a store of 3 or 0 bytes, time to 3 | 57,166 | pointers, index and byte count agree, a put ends, and the store implements `ContentCache` |
| `tunnel` | two gateways with a consumer each, a private gateway, one producer; a routed and an unrouted name; three keys, one fault | 63,230 | what crosses the tunnel is sealed, keys agree, content is delivered in the clear, and every routed request is answered |
| `links` | two links, two names, one message in a socket | 387,981 | the four lists agree, an id stands for one link at a time and nothing outlives it, every link with input is read |
| `fragments` | messages of one packet, of two full ones, and of three with the last padded or not; four sequence numbers, one packet on the way, faults up to two numbers ahead | 273,325 | what is handed up is whole, in order, at most once; a message whose last fragment is marked and long enough arrives if it was not harmed |
| `datagrams` | two peers, memory for two links, frames read in threes, three frames anywhere, names that may be taken | 403,294 | each peer's messages over its own link, in order; each peer gets its turn unless `poll()` waits over frames that were read |
| `streams` | header of 2, messages of 3 and 4, room for 2 units one way and 8 the other, two messages on the way | 47,277 | framing holds in both directions, what was begun arrives |
| `opening` | eight URIs of three schemes, three links, three descriptors, five calls that fail | 118,439 | references and descriptors are counted while the process runs, an open makes what its URI asks for or nothing |
| `configuration` | a link, two listeners, a peer, one prefix, a start with or without a gateway link, two command lines, state files of four lines | 1,317,313 | the state file tells the configuration, but for what has no line |

The bounds make the interesting cases happen. Three nested names let a lookup trim
twice and fall back twice, and two links let one be the ingress and one remain. Room for
one entry makes every second interest meet a full table; two lifetimes let a later request
prolong an entry or not; time 3 lets an entry expire, be purged, come back and expire again.
A store of 3 bytes is full with two or three objects, so an eviction is needed in the middle,
and the object of size 2 hits both the exact fit and the miss by one. Two gateways let requests
for one name meet in the entry of the third; a key per request in flight and one for the
retransmission are three. Two links let one take the id of the other while it is closed in the
middle of a round, be a listener and the connection it accepts, and let `Destroy` miss one of
two listeners. Three fragments have a begin, a middle and an end, and four sequence numbers
wrap within two messages; faults pause at half of the numbers, because beyond that an old
number is a new one. One packet on the way is enough for the receiver, because the network keeps
the order and what becomes of a packet is settled when it is the first; that messages come whole
and in order is proved for any number of packets. Three frames in one read are what it takes
for one to be in the buffer when the thread waits.
Room for 2 of 4 units cuts both header and body. Three links are a listener with a peer's link
and another link; three descriptors run out when an open forgot one. Four lines are what the
commands on a link, a route over it and their removal make. One command line sets the level when the
file is open and asks for no link, the other has a link on either side of `-o`.

| Violation | Property | What happens |
|---|---|---|
| `fragments_exact` | `EveryIntactMessageArrives` | a message that fills its last fragment is sent without the end flag (`athena_TransportLinkModuleFragmenter_BEFS.c:403`) and never handed up, although nothing was lost |

`CHECK_DEADLOCK FALSE` is set where the system may come to rest: the content store, whose
clock stops at `MaxTime`; the tunnel, when everything was answered; the adapter, when it was
destroyed or `poll()` has nothing to wait for; datagrams after a crash; streams and openings
when links are closed or nothing can be opened.

### What the code does not keep

Comments, headers and tests of the repository promise more than the code does. Where the promise can be
stated, it is a definition of the module, and TLC finds it violated by what the code does. Only the
first is a run of this project; for the others, the third column says what to change in the
configuration of the run named. They are properties of no passing run, and no theorem is about them.

| Promise | Where it is made | To see it fail | What happens |
|---|---|---|---|
| `EveryIntactMessageArrives` | `athena_TransportLinkModuleUDP.c:650` | `fragments_exact` | a message that fills its last fragment has no end mark (`_BEFS.c:403`) and never ends |
| the same for Ethernet | `athena_TransportLinkModuleETH.c:544` | `fragments_exact` with `Size = {7}`, `MinPacket = 3` | a last fragment that is padded (`platform/linux/athena_Ethernet.c:249`) is dropped for its length (`_BEFS.c:333`) |
| `DeleteIsExact` | `athena_FIB.h:220` | `fib` with `StrayDeletes = TRUE` | a delete of a name without an entry works on the route of a parent (`athena_FIB.c:355`) |
| `KeptOnlyIfProlonged` | `athena_PIT.c:562` | `pit` | a purge at the moment an entry is due takes its record (`:558`) and keeps the entry (`:563`), which no purge finds again |
| `RemovedLinkIsGone` | `athena_TransportLinkAdapter.c:432` | `pit_hashed` | the nameless entry of an interest with a content hash (`athena_PIT.c:638`) keeps the link (`:829`) |
| `AnswersAsRestricted` | `athena_ContentStore.h:124` | `lru` | an interest with a content hash gets whatever has the name (`athena_LRUContentStore.c:849`) |
| `PutIsFound` | `test/test_athena_LRUContentStore.c:272` | `lru` | a second put of a name removes its own entry from the index (`athena_LRUContentStore.c:772`, `:349`) |
| `NoEventStands` | `athena_TransportLinkAdapter.c:673` | `datagrams` | of three frames read at once the second is dropped: the third stays in the buffer (`platform/darwin/athena_Ethernet.c:332`) while `poll()` waits (`athena_TransportLinkModuleETH.c:1011`) |
| `UnlinkedIsDropped` | `athena_TransportLinkModuleUDP.c:505` | `datagrams` | the name of a new peer's link is taken: the process stops (`:448`, `:461`; ETH `:443`, `:455`) |
| `ImplementsPeerChannels` | `athena_TransportLinkModuleUDP.c:825` | `datagrams` with `Reuse = TRUE` | the table has the address of a closed link (`:490`), where another peer's link is now |
| `PeersFragmentAsTheirListener` | `athena_TransportLinkModuleUDP.c:403` | `opening` | the fragmenter of a peer's link cannot be made: the link goes without (`:405`; ETH `:397`) |
| `ChangesAreInStateFile` | `athena_gateway.c:100` | `configuration` | `-d` sets the level and logs nothing (`:228`) |
| `StartRestores` | `athena_gateway.c:101` | `configuration` with `Dispatched = FALSE` and no deadlock check | the call that carries out commands is commented out (`athena.c:268`): as built, a start with `-i` restores nothing |

### What holds only under a condition

Several constants choose between what a run assumes and what the code can do besides:

* `AthenaFIB`, `StrayDeletes = TRUE`: a delete of a prefix without an entry empties its parent's
  vector (`athena_FIB.c:355`), and `RemoveLink` of that link never returns: `TableAndListsAgree`,
  `LookupIsLongestUsable` and `RemoveLinkReturns` fail. A VPN route with two
  links, asked from one of them, yields the key without the prefix (`:210`), and the interest
  leaves in the clear (`athena.c:569`).
* `AthenaPIT` with content hashes: `IngressListed` and the refinement fail with `RemovedLinkIsGone`,
  so they are checked without them. A match that finds several entries takes the name and key of
  the last (`athena_PIT.c:743`).
* `AthenaLRUContentStore`: `ContentCache` is a cache of names that may forget. It says nothing of
  what is lost by a second put or of restrictions, which the store does not keep. Look-ups by key id
  and hash find nothing of their own, because those indexes are never filled.
* `AthenaTunnel`: two consumers of one gateway wait under different outer names and the far
  gateway answers only the first (`athena.c:617`, `athena_PIT.c:656`); retransmission repairs it,
  which is why `Answered` holds. A consumer inside the private network that asks first makes
  the content of the encapsulated request that joins it cross the tunnel in the clear
  (`athena_PIT.c:665`); `PrivateNetworks` excludes it. Where a tunnel leads into another one
  (`TunnelsEnd` does not hold), one pending interest stands for requests with different keys
  although it has room for one, and `KeysAgree` fails.
* `AthenaTransportLinkAdapter`, `StrayRoutes = TRUE`: a control message may route to a number no
  link has, and the next link opened inherits the route.
* `AthenaFragmenterBEFS` with `"reorder"`: the first message after a gap can be swallowed. And a
  message has so few fragments that numbers which run ahead of the receiver do not come round
  to the expected one within it (`ShortMessages`: `MaxGap + Parts(size) <= SeqSize + 1`): with
  four fragments (`Size = {11}` in the configuration of `fragments`), half a message is taken
  for the rest of another. The code is far from it: the length field of a CCNx message has 16
  bits and sequence numbers have 20, so a message never has half as many bytes, let alone
  fragments, as there are numbers.
* `AthenaDatagramLinks`: `EveryPeerGetsItsTurn` excepts a thread that waits in `poll()` over frames
  of the buffer, which takes a read of three. `Reuse = TRUE` as above.
* `AthenaLinkOpening`: a process that stops (`CloneCrashes`) starts again with nothing, so
  `ResourcesCounted` and `ImplementsOpenLinks` speak of each run of it.
* `AthenaStreamLink`: with too little room at both ends, two forwarders that write wait for each
  other for ever; a `NonBlocking` end gives up messages half read or half written.
* `AthenaConfiguration`, `Dispatched = TRUE`: the forwarder with the call of `athena.c:268`, as the
  tests make it; as built no command reaches a handler. With a name that two links may have,
  `StateFileTellsConfiguration` fails: a link breaks, which is not logged, another link gets its
  name, and the lines, made again, refuse it to the second. Three more facts are in the model
  without a property: `quit` is logged like any change, so a start from that file ends again; `-o`
  truncates its file before `-i` reads it, so they must not name the same one; and the key a route
  command brings is built and dropped (a second `keyBuffer` is declared inside the `if`,
  `athena_InterestControl.c:577`), so no route made by a command has one.

### Fairness

* `AthenaFIB`: weak fairness of the loop of `RemoveLink` and its end. They are consecutive
  statements of one thread. Nothing is assumed of the callers.
* `AthenaLRUContentStore`: weak fairness of the steps of a put that makes room, for the
  same reason.
* `AthenaTunnel`: weak fairness of processing a message that has arrived (the engine's
  loop), strong fairness of `Resend`: a client whose request stays unanswered asks again
  for ever. That is an assumption about clients that the code makes in its comments ("client
  will resend interest", `athena.c:426`, `:631`); the consumer in `src/consumer` does not
  do it. It is strong because the timer finds the network quiet again and again rather
  than continuously. A `Resend` happens only when the network is quiet, that is, the
  client waits longer than an answer takes; `ResendEarly` is the other case and is one of
  the bounded faults.
* `AthenaTransportLinkAdapter`: weak fairness of the thread as a whole
  (`Caller \/ Receive \/ Destroy`). It may choose to stop the engine; nothing is assumed of the
  other ends.
* `AthenaFragmenterBEFS`: weak fairness of making the next fragment (a loop) and of receiving
  a packet that is there.
* `AthenaDatagramLinks`: weak fairness of the engine's steps, except the one by which
  something else ends the wait in `poll()`: a queued message must be read without it.
* `AthenaStreamLink`: weak fairness of the loops that write and read, strong fairness of
  beginning to read. The thread is busy with other things in between, and comes back: that
  is `EveryLinkIsRead` of the adapter.

## 4. What is proved

`AthenaFIBProofs` holds for every set of segments, names, links and translations. It
assumes what `AthenaFIB` assumes of its constants: names are non-empty and closed under
trimming, the plain route is a possible translation, and NULL is not a value.

| Theorem | States | Deletes |
|---|---|---|
| `TypeCorrect` | `[]TypeOK` | any |
| `ListsCoverRoutes` | `[]RoutesListed` | any |
| `RemovedLinkUnused` | `RemovedLinkIsGone`: if `RemoveLink` returns, no route has the link | any |
| `ListsOnlyRoutes` | `[]ListsRouted` | of existing entries |
| `NoEmptyVector` | `[]NoDeadEntry` | of existing entries |
| `TableAndListsKept` | `[]TableAndListsAgree`, the three facts together | of existing entries |
| `LookupFindsLongestUsable` | `[]LookupIsLongestUsable` | of existing entries |
| `RefinesRouteSet` | the FIB implements `RouteSet` | of existing entries |

`RoutesListed` is inductive together with the types alone: `DeleteEffect` shows that a
delete takes a name off a list only when the name has no route over that link any more,
whichever entry the delete worked on. `ListsRouted` and `NoDeadEntry` are not inductive by
themselves, nor is either of them true with stray deletes. They need each other and
`RoutesListed`: `DualInv` is their conjunction, and `DeleteOwn` is the reason it is kept,
a delete of a name that has an entry works on that very entry. In the loop of `RemoveLink`
it is `ListsRouted` that gives the entry. The refinement follows from `DualInv`, because
without empty vectors a name has an entry exactly when it has a route (`RoutedIffEntry`).
The lemmas on the longest match use that a non-empty set of positions has a greatest
element (`GreatestPosition`). For `LookupFindsLongestUsable` the two trims of the code (to the
longest entry, then on while the entry has no other link than the ingress) are shown to stop at
the same prefix as a search for a usable one (`StopsIfUsable`, `LookupLinks`), which an empty
vector would prevent: again `DualInv`.

`AthenaPITProofs` holds for every set of interests, links, entries, lifetimes and every
limit. It assumes what `AthenaPIT` assumes of its constants: lifetimes and entries are
natural numbers, there is a longest lifetime, the pool of entries is finite, an interest has
a name, and NULL is no entry.

| Theorem | States | Interests |
|---|---|---|
| `TypeCorrect` | `[]TypeOK`: table, maps and buckets refer only to entries that exist | any |
| `LimitHolds` | `[]AtMostOneOver` | any |
| `IngressIsListed` | `[]IngressListed` | without a content hash |
| `RemovedLinksAreGone` | `RemovedLinkIsGone`: after `athenaPIT_RemoveLink` no entry has the link | without a content hash |
| `LaterAlwaysScheduled` | `[]LaterIsScheduled`: an entry that is due later than now is in the bucket of its time | any |
| `AlwaysWaitedForAndScheduled` | `[]WaitedForAndScheduled`: and a link waits for every entry | without a content hash |
| `PITKeepsPendingInterests` | the PIT implements `PendingInterests` | without a content hash |

An entry lives as long as one of the three structures holds it, so the types rest on
`NothingNew` and `ReleaseTyped`: a step whose structures hold nothing that was not held
before, or that was made in this step, leaves nothing dangling. `TypeInv` adds that a call
that purges still has the entries it will need, which purging can only increase. For
`LimitHolds` one insertion adds at most two keys to a table that was below its limit
(`LimitInsert`) and nothing else adds any (`OnlyInsertAdds`).

`IngressListed` is not inductive by itself: the maps are kept by the interest of an entry
and the table by its key. `ListedInv` adds `InterestIsKey`, that the two agree, which is
what a nameless entry breaks. Every step that makes no entry is shown to be `Shrunk` (what
stays in the table keeps its interest and gets no link) and `Matching` (a map forgets an
interest only when its link has left the entry), and `ListedShrunk` concludes from these
two; `ListedJoined` is the step that puts a link in. `RemovedLinksAreGone` follows: the map
of the link names every entry that has it (`RemoveLinkFinds`). With content hashes both fail.

`LaterIsScheduled` is inductive by itself, because of the order in which records are dropped: a
purge takes only buckets that are due (`PurgeTakesDue`), a match only records of the keys it
found (`MatchTakesFound`), and an extension moves the record of the entry it prolongs
(`ScheduledExtend`), also when older records have the same key. It ends where the entry is due: a purge at that very
moment takes the record and leaves the entry. `WaitedForAndScheduled` and the
refinement need more, `PendingInv`: the maps name only entries under the key they are filed
under (`MapsByKey`), of the entries that were ever made under a key only the one in the table
has links (`OwnersOnly`), so a stale entry in a map or bucket is harmless, and no entry of the
table is without links (`NoIdleEntry`). Under it every step does one of three things: it changes
no entry of the table, or some links leave entries and the empty ones leave the table
(`Leave`), or one entry is filed (`Files`). Each of these is one step of `PendingInterests`, or
none (`LeaveRefines`, `FilesRefines` and the lemmas after them).

`AthenaLRUContentStoreProofs` holds for every set of content objects, names and sizes of the
store. It assumes what `AthenaLRUContentStore` assumes: content has a name and at least one byte,
times are natural numbers, and there is a largest size.

| Theorem | States |
|---|---|
| `StoreInvariant` | `[]StoreInv`, the invariant of the others |
| `TypeCorrect` | `[]TypeOK` |
| `StoreAlwaysAgrees` | `[]ListIndexAndSizeAgree` |
| `StoreImplementsContentCache` | the store implements `ContentCache` |

`StoreInv` says that there is a sequence of entries, each once, through which the pointers of the
list lead in both directions (`Linked`), that its members are the entries in use, that the index
finds only those, and that the byte count is their sum. The pointer operations are shown to be
operations on such a sequence, with the neighbours, the first and the last entry as the cases:
`AddHeadLinked` (`Fronted`), `UnlinkLinked` (`Dropped`) and `MoveLinked` (`Moved`). The byte count
also tells that the code finds memory for one more entry wherever content fits (`FreeEntry`):
every entry has a byte at least. A put under a name that is in the store drops the older
entry behind the new one, which is the same as dropping it first (`DroppedFronted`); the name
then finds neither. For the refinement, `Order` is that sequence (`OrderIs`), `Without` is
`Dropped` (`WithoutAt`), what the index finds under a name is what the cache finds
(`FindableNamed`), and the least used entry is evicted only when none has expired, because one of
the expired entries would be the earliest to expire (`NoneExpired`).

`AthenaTunnelProofs` holds for every set of forwarders, hosts, names, routes, keys and every
number of faults, that is for every network that satisfies what a theorem names.

| Theorem | States | Networks |
|---|---|---|
| `TypeCorrect` | `[]TypeOK` | any |
| `KeysAlwaysAgree` | `[]KeysAgree`: an honest response decrypts | `RoutesToGateways`, `TunnelsEnd` |
| `TunnelAlwaysSealed` | `[]TunnelCarriesSealed` | `PrivateNetworks` |
| `ConsumersReadWhatTheyAsked` | `[]DeliveredInClear` | `PrivateNetworks` |

`TypeInv` adds to the types that a packet with a key has something in it. `FormInv` says what
forms there are: a packet under a public name has the key of that name and carries a name that
is tunnelled to that gateway (`WellSealed`), and a pending interest is of a plain name, of a
name that came out of a tunnel, of a public name on its way to the gateway, or of a name that
went into a tunnel (`WellFormed`), each with the key this implies. A request that joins a
pending one changes neither its name nor its key, so the forms are kept, and `KeysAgree`
follows. `TunnelInv` adds who waits for what: a consumer only for what it asked, a link of a
tunnel only for sealed content (`LinksFit`), and for each interest that went into a tunnel, that
whatever is under its name, at any forwarder, carries what was asked for, and that no interest
under that name is where it could come back to where it was sealed (`Tied`). The last is where
`NoCycle` is needed: an interest comes closer to the gateway with every hop. That a key which is
used again is as good as a fresh one (nothing refers to it) is part of this proof.

`AthenaTransportLinkAdapterProofs` holds for every finite set of links, every set of names and
any input.

| Theorem | States |
|---|---|
| `AdapterInvariant` | `[]AdapterInv`, the invariant of the others |
| `TypeCorrect` | `[]TypeOK`; in particular ids stay below the number of links |
| `ListsAlwaysAgree` | `[]ListsAgree` |
| `AdapterImplementsLinkTable` | without stray routes, the adapter implements `LinkTable` |

Every one of the four lists has each link that belongs in it exactly once (`Exactly`), and the
operations that edit them keep that: putting a link into the first vacant place, leaving a hole,
taking a link out (`PlacedList`, `BlankedList`, `WithoutList`). A list grows only when it has no
vacant place, so it is never longer than there are links; this is what makes the ids finite. A
connection that waits to be accepted is nobody's link and waits once, and the ingress of the
message in hand is still a link when the message is processed, because nothing else runs between.
For the refinement, every id that a route or a pending interest holds is a slot with a link in it
(`HoldersInv`): a close clears the id before the slot can be given again.

`AthenaLinkOpeningProofs` holds for every set of URIs, names and system calls that may fail, and
any number of links and descriptors. `OpeningAssumption` says of them that a URI has one of the
three schemes, that a name is given as a name and "local" as true or false unless the option is
malformed, and that NULL is no value.

| Theorem | States |
|---|---|
| `OpeningInvariant` | `[]OpeningInv`, the invariant of the others |
| `AlwaysCounted` | `[]ResourcesCounted`, the types among it: the counts are right as long as the process runs |
| `LinksOpenAsPromised` | `ImplementsOpenLinks`: the opening of links implements `OpenLinks`, where a peer's link may lack the fragmenter of its listener, and all links may go at once |

That the counts are right is not inductive: the steps of an open assume what the steps before
them did. `WorkInv` says that what is left to do fits what there is: an open that has calls left
has a socket and no link (`Asked`), then a link that nobody lists and, perhaps, a fragmenter
(`Made`); a clone is welcome to its listener as long as it runs. `LinkInv` says who keeps a link,
itself or its listener, and that a listener is there while a link shares its socket; `SocketInv`
that only Ethernet links share one. What a call that fails undoes is then what was done, the count
of a link reaches zero only when it is closed (`CanGo`, `LinksGo`), and the links go together
with the listener whose socket they have. For the refinement, reading the options of a URI one
after the other gives what `OpenLinks` reads from them as a whole, where the last of each option
counts (`ParametersAsked`, `MeaningOfURI`), by induction on the options that were read; of the
steps of an open only "add" is visible in `OpenLinks`. A crash of a refused clone is a new beginning
(`OpeningBeginsAgain`): the invariant holds of it because nothing is left.

`AthenaFragmenterBEFSProofs` holds for every size of packets, headers and messages and any number
of sequence numbers. `FragmenterAssumption` says that a packet has room behind the header, that
faults pause when numbers are half of them ahead, and that there are more messages to tell apart
than fit on the way. The theorems are about packets that keep their order (`InOrder`) and messages
of few fragments (`ShortMessages`, section 3), both of which hold in both runs.

| Theorem | States |
|---|---|
| `FragmenterInvariant` | `[]FragmenterInv`, the invariant of the others |
| `FragmenterTypeCorrect` | `[]TypeOK`; in particular there is always a number for a new message |
| `MessagesWholeAndInOrder` | `ImplementsMessageLink`: the fragmenter implements `MessageLink` |

That what is handed up is whole does not follow from what the receiver holds: a fragment is
taken by its sequence number alone. `FragmenterInv` ties the two. What is coming is well made
(`Orderly`): fragments of one message are behind each other, and only those at the front can
be missing, because that is where packets are received and lost. What comes first (`HeadInv`) is
the beginning of a message; or it has the expected number and the receiver holds exactly the
fragments before it (`Wanted`); or it is delivered a second time, and its number is one behind
(`Taken`); or its message lost a fragment, and its number is ahead by more than zero and so little
that it does not come round before the message ends (`Lagging`, where `ShortMessages` is needed).
The last fragment of a harmed message is reached only through fragments that lag (`HarmInv`), so
it is never accepted, and nothing of the message delivered last is coming but the repetition of its
last fragment (`DeliveredInv`). For the refinement, a receipt that hands up the first message is
`Deliver`, and any other step that takes packets is `Lose`, with the order of what is left as it was
(`TailOrder`, `LongerOrder`).

`AthenaTransportLinkModuleProofs` is about TCP links first, for any sizes of header and messages
and any room in the sockets. `StreamAssumption` says that there are two ends, that a message is
longer than its header, that there is a largest one, and that there are more messages to tell apart
than are on the way. `Blocking` is the condition that no end is `NonBlocking`.

| Theorem | States | Sockets |
|---|---|---|
| `StreamTypeCorrect` | `[]TypeOK`; in particular the count of missing bytes is one a size allows | any |
| `StreamInvariant` | `[]StreamInv`, the invariant of the next | blocking |
| `StreamKeepsMessages` | `ImplementsMessageLinks`: the link implements `MessageLink` in each direction | blocking |

The bytes of a direction, from those already read over the stream to those not written yet, are one
`Line`. Numbers of messages come round, so the invariant speaks of ages (`Age`): how many messages
ago one was begun. A line has whole messages, older before younger (`Ordered`), each to its end
(`Complete`) and none left out in between (`Gapless`), and the reader has the beginning of the
first (`Beginning`), with the count of what the header said is missing (`ReadInv`). A writer that
was closed may leave the last message cut, a reader that was closed may leave anything. Each step
then does one of five things to a line (`Effect`): nothing, because bytes only move along it
(`Steady`); it ends with its reader (`Gone`); what the writer still had is lost (`Dropped`); the
first message is handed up (`Handed`); a message is begun at its end (`Begun`). The last two are
`Deliver` and `Send`, the others `Lose` or no step; the order of `MessageLink` is the order of
ages (`OrderByAge`).

The second part is about datagram links, for any peers, data, number of links and size of a read.
`DatagramAssumption` says that a read brings a frame at least, that there is memory for a link of
each peer, and that NULL is no value.

| Theorem | States | Condition |
|---|---|---|
| `DatagramTypeCorrect` | `[]DatagramTypeOK`; in particular what is handed up has come over a link that there is | none |
| `PeersKeptApart` | `ImplementsPeerChannels`: a listener implements `PeerChannels` | `[]NoAlias` |

`NoAlias` is a condition on behaviours: the table has for no peer a link that is another's. It is
broken in one way only, when a link is made in memory that was freed while the table still had its
address for another peer. Nothing in the code prevents that (`athena_TransportLinkModuleUDP.c:490`),
and then the statement is false; what the theorem says is that everything else a listener and its
peers can do, closes, refusals and reopenings included, keeps the peers apart.

The types need that a link without a peer has no messages (`QueueInv`): closing releases the
queue with the link. `PeersInv` adds what keeps peers apart: no two peers have the same link in
the table (`Alone`), a link that is there is in the table under its peer (`Entered`), and its
queue has messages of that peer only (`OfOwner`). The table still has links that were closed; that a
new one is never one of them (`NewIsUnknown`) is where `NoAlias` is needed. For the refinement, `Mine` is shown
to take sequences apart (`MineJoined`, `MineFirst`), by induction on their length, so a read that
takes a batch of frames from the socket and returns the first leaves the others waiting in
their order (`ReadOldest`). A step that hands nothing up and brings nothing in leaves an end of
what waited for each peer (`Behind`), which is `Lose` or no step: closing a link or listener, a
message for a link whose memory was freed, a crash, and the listener's reads,
where a message leaves the socket and enters the queue at the same place (`InboxOfSender`,
`InboxOfOther`). A proxy's read is `Give`, a frame in the socket `Arrive`.

`AthenaLinkOpeningProofs` is, in its second part, about the configuration, for any links, prefixes,
gateways, command lines and any number of lines in the state file. `NamesStay` says that no two
links that are ever asked for have the same name; without it the statement is false (section 3).

| Theorem | States | Condition |
|---|---|---|
| `ConfigurationTypeCorrect` | `[]ConfigurationTypeOK`; in particular names are unique, no route is over a link that is not there, and only the last line of a file is ever torn | none |
| `StateFileAlwaysTells` | `[]StateFileTellsConfiguration`: the lines, made to what was configured without one, come to the configuration | `NamesStay` |

The lines of a file come to a configuration (`Told`), one more line to one more command
(`ToldOneMore`). Between a change and its line the file is behind: `TellsInv` is about the lines
with the one that is being written (`ChangesMade`), made to `untold`, and each command, refused or
not, does to what they tell what it does to the configuration (`ChangeTold`). A broken link leaves
the configuration and not the file; for what the file tells beyond it, `NamesStay` keeps a later
command from meaning something else there. A change that has no line is made to `untold`, that is
before the lines, and to the configuration, that is behind them. Links without a line are made
before the file is opened, when there are no lines. The option `-d` may come behind them (`DebugTells`):
the lines that are in the file by then set no level (`LevelInv`, `OpenedSetsNoLevel`), and a level
passes through lines that set none (`ToldLevelApart`, `LevelKept`).

Every invariant and every refinement that a run checks is proved, for the conditions given. Model
checked only are the liveness properties (`RemoveLinkReturns`, `PutReturns`, `Answered`,
`EveryLinkIsRead`, `EveryEndedMessageArrives`, `EveryPeerGetsItsTurn`, `EveryMessageArrives`), which
the prover does not do, and the networks, sockets and memories outside the conditions. Nothing is
proved of the claims of section 3 that the code does not keep.

## 5. What is not modelled

* In the modelled components: the PIT's egress vectors (nothing reads them) and
  statistics; content without a name and the hit counters in the content store; hop
  limits, manifests, interest returns, control messages and the interest that stops the
  engine in `athena.c`. Encryption is taken to succeed and memory to suffice.
* Wire formats, cryptography and the containers of the PARC library. They are external:
  only what the code relies on (a hash map finds what was put under a key, decryption with
  the right key gives the message, with another it fails) is modelled.
* In the link modules: addresses, the MTU and which links are local; the set-up of darwin's BPF
  devices; loading of modules by `dlopen`; the TEMPLATE module, which does nothing. Fragments
  of several peers, which a listener puts together with one fragmenter
  (`athena_TransportLinkModuleUDP.c:652`), are in none of the modules.
* In the adapter: several modules, the encodings, and `Close` with a vector, which no part of the
  forwarder calls (it never returns when the vector has a closed link,
  `athena_TransportLinkAdapter.c:762`). Uses of a link's memory right after its close (`:688`)
  are not modelled: nothing of the forwarder's state follows from them.
* In the control plane: commands that only report, messages of the control type
  (`athena_Control.c`), wording, key files, and the size of the content store (`-s`).
* Statistics of the end hosts, generation of keys, examples, experiments and scripts are input
  and output without state that outlives a call.

## 6. Plan

Done: FIB, PIT, content store, tunnel, link adapter, the opening of links, the fragmenter, datagram
and stream links and the configuration, with their proofs. Next, in this order:

1. **A forwarder** (`AthenaForwarder`): the commands of `AthenaConfiguration` as the environment
   of `AthenaFIB`, `AthenaPIT` and the adapter, tied by `_removeLink`.
2. **Tunnel, extended**: manifests, hop limits in a tunnel with a cycle, a chain of
   gateways, hash-restricted interests.
3. **Fragments of several peers** on one listener: `AthenaFragmenterBEFS` under
   `AthenaDatagramLinks`.
