-------------------------- MODULE MCAthenaLinkOpening --------------------------
(* URIs of every scheme, well-formed or not; a URI may give a link the     *)
(* name another link or a peer has.                                        *)
EXTENDS AthenaLinkOpening

Flag(opt) == [opt |-> opt, is |-> "set"]
Given(opt, value) == [opt |-> opt, is |-> value]

MCUri == {
  [scheme |-> "TCP", at |-> "tcp", tokens |-> <<Given("name", "x"), Given("name", "peer")>>],
  [scheme |-> "TCP", at |-> "tcp", tokens |-> <<Flag("listener"), Given("local", "true")>>],
  [scheme |-> "TCP", at |-> "tcp", tokens |-> <<Flag("listener"), Flag("fragmenter")>>],
  [scheme |-> "UDP", at |-> "udp", tokens |-> <<Flag("fragmenter"), Flag("src")>>],
  [scheme |-> "UDP", at |-> "udp", tokens |-> <<Given("local", "false"), Flag("listener"), Given("local", "true")>>],
  [scheme |-> "UDP", at |-> "udp", tokens |-> <<Given("local", Malformed), Flag("listener")>>],
  [scheme |-> "ETH", at |-> "eth", tokens |-> <<Flag("fragmenter"), Flag("listener")>>],
  [scheme |-> "ETH", at |-> "eth", tokens |-> <<Flag("mtu"), Given("name", "x")>>] }

MCFaults == {"socket", "connect", "bind", "getsockname", "fragmenter"}
=============================================================================
