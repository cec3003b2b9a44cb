-------------------------- MODULE AthenaConfiguration --------------------------
(***************************************************************************)
(* The control plane of the forwarder: the commands athenactl sends, their *)
(* handlers (athena_InterestControl.c), the state file every change is     *)
(* written to, and the start of the forwarder from its command line and    *)
(* from a configuration file (command-line/athena/athena_gateway.c).       *)
(*                                                                         *)
(* One thread runs it all.  A line of the state file is written in several *)
(* calls, and the process may be killed at any point; it is started again  *)
(* with the state file of the last run that came up, if it had one, as its *)
(* configuration file, and its state file is a new one.                    *)
(*                                                                         *)
(* As it is built the forwarder does not execute commands: its call of     *)
(* athenaInterestControl is commented out (athena.c:268), tests make it.   *)
(* Dispatched = FALSE is the forwarder as built, TRUE has the call.        *)
(*                                                                         *)
(* Left out: the commands that only report, the parameters of URIs         *)
(* (AthenaLinkOpening), prefixes of each other (AthenaFIB), the keys of    *)
(* routes, which no command sets (athena_InterestControl.c:577).           *)
(***************************************************************************)
EXTENDS Naturals, Sequences, SequencesExt

CONSTANTS
  LinkSpec,     (* [name, listens]: links that can be asked for            *)
  Prefix,       (* prefixes of routes                                      *)
  Peer,         (* names of links that listeners accept                    *)
  Level,        (* levels of the log                                       *)
  Gateways,     (* of a start: sets of <<prefix, link>>, links that lead   *)
                (* to another gateway and the prefixes that are translated *)
  StateFile,    (* the option -o of the command line                       *)
  Debug,        (* its option -d, and the level it sets                    *)
  CommandLines, (* what may follow: sequences of these and, for -c, links  *)
  DefaultSpec,  (* what is opened when nothing is asked for ...            *)
  NodeSpec,     (* ... and then, if it can be                              *)
  Dispatched,   (* whether interests for the forwarder are commands        *)
  MaxLines,     (* bound: lines of a state file                            *)
  Nothing

ASSUME ConfigurationAssumption ==
  /\ \A s \in LinkSpec : s.name \notin Peer /\ s.listens \in BOOLEAN
  /\ {DefaultSpec, NodeSpec} \subseteq LinkSpec
  /\ Gateways \subseteq SUBSET (Prefix \X LinkSpec)
  /\ Debug \in Level
  /\ CommandLines \subseteq Seq(LinkSpec \cup {StateFile, Debug})
  /\ Dispatched \in BOOLEAN /\ MaxLines \in Nat

VARIABLES
  phase,    (* "down", "starting" or "running"                             *)
  config,   (* what the forwarder is configured to                         *)
  options,  (* what is left of the command line                            *)
  interfaceConfigured, (* whether it had a link                            *)
  source,   (* the configuration file, Nothing when there is no such file  *)
  at,       (* lines of it that have been read                             *)
  file,     (* the state file, Nothing when it is not open                 *)
  pending,  (* what has yet to be written to it, if anything               *)
  untold,   (* what was configured without a line of it (history)          *)
  faults    (* faults since the start: "broken" links, "refused" opens     *)

commandLine == <<options, interfaceConfigured>>

configurationVars ==
  <<phase, config, commandLine, source, at, file, pending, untold, faults>>

NewForwarder ==
  [links |-> {}, peers |-> {}, routes |-> {}, level |-> Nothing, spawned |-> {}, exit |-> FALSE]

ConfigurationInit ==
  /\ phase = "down"
  /\ config = NewForwarder
  /\ options = <<>> /\ interfaceConfigured = FALSE
  /\ source = Nothing /\ at = 0
  /\ file = Nothing /\ pending = Nothing
  /\ untold = NewForwarder
  /\ faults = {}

(***************************************************************************)
(* Commands                                                                *)
(***************************************************************************)
LinkArgument == {[kind |-> "spec", is |-> s] : s \in LinkSpec}
NameArgument == {[kind |-> "name", is |-> n] : n \in {s.name : s \in LinkSpec} \cup Peer}
RouteArgument ==
  {[kind |-> "route", is |-> <<p, n>>] : p \in Prefix, n \in {s.name : s \in LinkSpec} \cup Peer \cup {Nothing}}

(* A route without a link is over the link the command came from.          *)
Commands ==
  [do : {"link add", "spawn"}, with : LinkArgument] \cup
  [do : {"link remove"}, with : NameArgument] \cup
  [do : {"route add", "route remove"}, with : RouteArgument]

(* These have all they say in their name.                                  *)
BareCommands ==
  [do : {"set"}, with : {[kind |-> "level", is |-> l] : l \in Level}] \cup
  [do : {"quit"}, with : {[kind |-> "none", is |-> Nothing]}]

(* A line of the state file may end behind the name of the command.        *)
Lines ==
  Commands \cup BareCommands \cup
  [do : {"link add", "spawn", "link remove", "route add", "route remove"}, with : {Nothing}]

ASSUME NothingAssumption ==
  /\ Nothing \notin Commands \cup BareCommands \cup Seq(Lines)
  /\ \A m \in Commands \cup BareCommands : m.with # Nothing

Names(c) == {s.name : s \in c.links} \cup c.peers
Routable(c) == {s.name : s \in {t \in c.links : ~t.listens}} \cup c.peers

MutantWithout(c, n) ==
  [c EXCEPT !.links = {s \in @ : s.name # n}, !.peers = @ \ {n}]

Without(c, n) ==
  [c EXCEPT !.links = {s \in @ : s.name # n}, !.peers = @ \ {n},
            !.routes = {r \in @ : r[2] # n}]

(* What the handlers can do; an open can fail besides.                     *)
Accepts(c, m) ==
  /\ m.with # Nothing
  /\ CASE m.do = "link add"     -> m.with.kind = "spec" /\ m.with.is.name \notin Names(c)
       [] m.do = "spawn"        -> m.with.kind = "spec"
       [] m.do = "link remove"  -> m.with.kind = "name" /\ m.with.is \in Names(c)
       [] m.do = "route add"    -> m.with.kind = "route" /\ m.with.is[2] \in Routable(c)
       [] m.do = "route remove" -> m.with.kind = "route" /\ m.with.is \in c.routes
       [] OTHER -> TRUE

LinkCommand(c, m) ==
  IF m.do = "link add" THEN [c EXCEPT !.links = @ \cup {m.with.is}]
  ELSE Without(c, m.with.is)

RouteCommand(c, m) ==
  [c EXCEPT !.routes = IF m.do = "route add" THEN @ \cup {m.with.is} ELSE @ \ {m.with.is}]

ControlCommand(c, m) ==
  CASE m.do = "set"   -> [c EXCEPT !.level = m.with.is]
    [] m.do = "spawn" -> [c EXCEPT !.spawned = @ \cup {m.with.is}]
    [] m.do = "quit"  -> [c EXCEPT !.exit = TRUE]

Effect(c, m) ==
  CASE m.do \in {"link add", "link remove"}   -> LinkCommand(c, m)
    [] m.do \in {"route add", "route remove"} -> RouteCommand(c, m)
    [] OTHER                                  -> ControlCommand(c, m)

(***************************************************************************)
(* The state file                                                          *)
(***************************************************************************)

MutantLog(m) == pending' = IF file = Nothing \/ m.do = "link remove" THEN Nothing ELSE m

(* athenaInterestControl_LogConfigurationChange, called when the change    *)
(* has been made; nothing is done while there is no state file.            *)
Log(m) == pending' = IF file = Nothing THEN Nothing ELSE m

Quiet == pending = Nothing

Torn(m) == m.do \notin {"set", "quit"} /\ m.with = Nothing

HalfWritten(lines) == IF lines = <<>> THEN FALSE ELSE Torn(Last(lines))

HasRoom == IF file = Nothing THEN TRUE ELSE Len(file) < MaxLines

WriteName ==
  LET line == IF pending \in BareCommands THEN pending ELSE [pending EXCEPT !.with = Nothing]
  IN /\ phase # "down" /\ ~Quiet
     /\ ~HalfWritten(file)
     /\ file' = Append(file, line)
     /\ pending' = IF line = pending THEN Nothing ELSE pending
     /\ UNCHANGED <<phase, config, commandLine, source, at, untold, faults>>

WriteArguments ==
  /\ phase # "down" /\ ~Quiet
  /\ HalfWritten(file)
  /\ file' = Append(Front(file), pending)
  /\ pending' = Nothing
  /\ UNCHANGED <<phase, config, commandLine, source, at, untold, faults>>

(***************************************************************************)
(* A running forwarder                                                     *)
(***************************************************************************)
Resolved(m, ingress) ==
  IF m.with.kind = "route" /\ m.with.is[2] = Nothing
    THEN [do |-> m.do, with |-> [kind |-> "route", is |-> <<m.with.is[1], ingress>>]] ELSE m

Running == phase = "running" /\ Quiet /\ ~config.exit

(* An athenactl speaks to the forwarder over a link of its own.            *)
Handle(m, ingress) ==
  LET r == Resolved(m, ingress)
  IN /\ Running /\ Dispatched
     /\ HasRoom
     /\ Accepts(config, r)
     /\ config' = Effect(config, r)
     /\ Log(r)
     /\ UNCHANGED <<phase, commandLine, source, at, file, untold, faults>>

Accept(p) ==
  /\ Running
  /\ \E s \in config.links : s.listens
  /\ config' = [config EXCEPT !.peers = @ \cup {p}]
  /\ UNCHANGED <<phase, commandLine, source, at, file, pending, untold, faults>>

(* A link whose other end has gone is closed, which is not a command.      *)
Break(n) ==
  /\ Running
  /\ n \in Routable(config)
  /\ config' = Without(config, n)
  /\ faults' = IF n \in Peer THEN faults ELSE faults \cup {"broken"}
  /\ UNCHANGED <<phase, commandLine, source, at, file, pending, untold>>

Stop ==
  /\ phase' = "down"
  /\ source' = IF phase = "running" THEN file ELSE source
  /\ config' = NewForwarder /\ options' = <<>> /\ interfaceConfigured' = FALSE /\ at' = 0
  /\ file' = Nothing /\ pending' = Nothing /\ untold' = NewForwarder /\ faults' = {}

Exit == phase = "running" /\ Quiet /\ config.exit /\ Stop

Crash == phase # "down" /\ Stop

(***************************************************************************)
(* Starting                                                                *)
(***************************************************************************)
(* The links to other gateways come first, each with its route; one that   *)
(* cannot be opened, or is no link to send on, is the end of the start.    *)
Openable(G) ==
  \A g \in G : ~g[2].listens /\ \A h \in G : g[2].name = h[2].name => g = h

Start ==
  /\ phase = "down"
  /\ phase' = "starting"
  /\ \E G \in Gateways :
       /\ Openable(G)
       /\ config' = [NewForwarder EXCEPT !.links = {g[2] : g \in G},
                                         !.routes = {<<g[1], g[2].name>> : g \in G}]
  /\ untold' = config'
  /\ options' \in CommandLines
  /\ UNCHANGED <<interfaceConfigured, source, at, file, pending, faults>>

Starting == phase = "starting" /\ Quiet

Adding(s) == [do |-> "link add", with |-> [kind |-> "spec", is |-> s]]

Option(o) == Starting /\ options # <<>> /\ options[1] = o /\ options' = Tail(options)

(* O_TRUNC                                                                 *)
OpenStateFile ==
  /\ Option(StateFile)
  /\ file' = <<>>
  /\ untold' = config
  /\ UNCHANGED <<phase, config, interfaceConfigured, source, at, pending, faults>>

(* Not a change that is logged.                                            *)
SetDebug ==
  /\ Option(Debug)
  /\ config' = [config EXCEPT !.level = Debug]
  /\ untold' = [untold EXCEPT !.level = Debug]
  /\ UNCHANGED <<phase, interfaceConfigured, source, at, file, pending, faults>>

(* A link that cannot be opened is the end of the start (Crash).           *)
OpenLink ==
  \E s \in LinkSpec :
    /\ Option(s)
    /\ Accepts(config, Adding(s))
    /\ config' = Effect(config, Adding(s))
    /\ Log(Adding(s))
    /\ untold' = IF file = Nothing THEN config' ELSE untold
    /\ interfaceConfigured' = TRUE
    /\ UNCHANGED <<phase, source, at, file, faults>>

(* Without a link and without a configuration file; the second link is     *)
(* done without when it cannot be opened.                                  *)
OpenDefault ==
  LET c == Effect(config, Adding(DefaultSpec))
  IN /\ Starting /\ options = <<>> /\ source = Nothing
     /\ ~interfaceConfigured
     /\ Accepts(config, Adding(DefaultSpec))
     /\ config' = c
     /\ Log(Adding(DefaultSpec))
     /\ untold' = IF file = Nothing THEN config' ELSE untold
     /\ interfaceConfigured' = TRUE
     /\ \/ options' = <<>>
        \/ Accepts(c, Adding(NodeSpec)) /\ options' = <<NodeSpec>>
     /\ UNCHANGED <<phase, source, at, file, faults>>

Length(m) ==
  CASE m.do = "route add" -> 1
    [] m.do = "route remove" -> 2
    [] m.do = "spawn" -> 3
    [] m.do = "link add" -> 4
    [] m.do = "link remove" -> 5

(* interestPayload is not reset: a line that ends in its name has the      *)
(* arguments of the line before it, if its name does not reach over them.  *)
(* Behind a longer name, or a blank, it has none that any handler takes.   *)
Payload(i) ==
  LET m == source[i]
  IN IF ~Torn(m) THEN m
     ELSE IF i > 1 /\ source[i - 1] \notin BareCommands /\ Length(m) <= Length(source[i - 1])
       THEN [m EXCEPT !.with = source[i - 1].with]
     ELSE m

Reading == Starting /\ options = <<>> /\ source # Nothing /\ at < Len(source)

ReplayLine ==
  LET m == Payload(at + 1)
  IN /\ Reading
     /\ at' = at + 1
     /\ IF Dispatched /\ Accepts(config, m)
          THEN config' = Effect(config, m) /\ Log(m)
          ELSE UNCHANGED <<config, pending>>
     /\ UNCHANGED <<phase, commandLine, source, file, untold, faults>>

(* An address that can no longer be opened                                 *)
ReplayRefused ==
  /\ Reading
  /\ Dispatched /\ Payload(at + 1).do \in {"link add", "spawn"}
  /\ Accepts(config, Payload(at + 1))
  /\ at' = at + 1
  /\ faults' = faults \cup {"refused"}
  /\ UNCHANGED <<phase, config, commandLine, source, file, pending, untold>>

Run ==
  /\ Starting /\ options = <<>>
  /\ IF source = Nothing THEN interfaceConfigured ELSE at = Len(source)
  /\ phase' = "running"
  /\ source' = Nothing /\ at' = 0
  /\ UNCHANGED <<config, commandLine, file, pending, untold, faults>>

ConfigurationNext ==
  \/ \E m \in Commands \cup BareCommands, p \in Peer : p \in config.peers /\ Handle(m, p)
  \/ \E p \in Peer : Accept(p)
  \/ \E n \in Routable(config) : Break(n)
  \/ Exit \/ Crash
  \/ Start \/ OpenStateFile \/ SetDebug \/ OpenLink \/ OpenDefault
  \/ ReplayLine \/ ReplayRefused \/ Run
  \/ WriteName \/ WriteArguments

Configuration == ConfigurationInit /\ [][ConfigurationNext]_configurationVars

(***************************************************************************)
(* Properties                                                              *)
(***************************************************************************)

(* Names are unique, and no route is over a link that is not there.        *)
ConfigurationTypeOK ==
  /\ phase \in {"down", "starting", "running"}
  /\ config.links \subseteq LinkSpec /\ config.peers \subseteq Peer
  /\ \A s, t \in config.links : s.name = t.name => s = t
  /\ config.routes \subseteq Prefix \X Routable(config)
  /\ config.level \in Level \cup {Nothing} /\ config.spawned \subseteq LinkSpec
  /\ file # Nothing => \A i \in 1..Len(file) - 1 : ~Torn(file[i])
  /\ faults \subseteq {"broken", "refused"}

(* What the changes in a state file, made one after the other, come to.    *)
Carried(c, m) == IF Accepts(c, m) THEN Effect(c, m) ELSE c

Told(c, lines) ==
  LET told[n \in 0..Len(lines)] ==
        IF n = 0 THEN c ELSE Carried(told[n - 1], lines[n])
  IN told[Len(lines)]

OverOwnLinks(c) == {r \in c.routes : r[2] \notin c.peers}

(* The lines of the state file, made to what was configured without one,   *)
(* come to all of the configuration at any time a command has been carried *)
(* out, and, as long as no link broke, to nothing but it.  Without a line  *)
(* are the links to gateways, what the command line has before -o, and the *)
(* level that -d sets; what depends on links that were accepted is not     *)
(* meant to last (athenaInterestControl_LogConfigurationChange,            *)
(* _parseCommandLine).                                                     *)
StateFileTellsConfiguration ==
  phase = "running" /\ file # Nothing /\ Quiet =>
    LET told == Told(untold, file)
    IN /\ config.links \subseteq told.links
       /\ OverOwnLinks(config) \subseteq told.routes
       /\ config.level = told.level /\ config.spawned = told.spawned
       /\ "broken" \notin faults =>
            config.links = told.links /\ OverOwnLinks(config) = told.routes

(* "File to contain configuration state changes" (athena_gateway.c:100):   *)
(* the level of the log is the one the last line about it tells.  Not so   *)
(* when -d has changed it.                                                 *)
ChangesAreInStateFile ==
  phase = "running" /\ file # Nothing /\ Quiet => config.level = Told(NewForwarder, file).level

(* "File containing configuration commands" (athena_gateway.c:101): a      *)
(* start from a state file restores what it tells, when every address can  *)
(* be opened again (_parseConfigurationFile).  Not so as long as commands  *)
(* are not carried out (athena.c:268).                                     *)
StartRestores ==
  [][Run /\ source # Nothing /\ "refused" \notin faults =>
       LET told == Told(NewForwarder, source)
       IN /\ told.links \subseteq config.links /\ told.routes \subseteq config.routes
          /\ told.level = config.level /\ told.spawned \subseteq config.spawned]_configurationVars
=============================================================================
