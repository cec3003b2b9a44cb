------------------------- MODULE MCAthenaConfiguration -------------------------
(* A link, two listeners and a peer; the link may lead to a gateway.  A    *)
(* command line that asks for no link and sets the level when the state    *)
(* file is open, and one with links before and behind the state file.      *)
EXTENDS AthenaConfiguration

a == [name |-> "a", listens |-> FALSE]
b == [name |-> "b", listens |-> TRUE]
n == [name |-> "n", listens |-> TRUE]

MCLinkSpec == {a, b, n}
MCGateways == {{}, {<<"p", a>>}}
MCCommandLines == {<<StateFile, Debug>>, <<b, StateFile, a>>}
=============================================================================
