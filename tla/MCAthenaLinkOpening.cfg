SPECIFICATION Spec
CONSTANTS
  Uri <- MCUri
  Name = {"tcp", "udp", "eth", "x", "peer"}
  PeerName = {"peer", "x"}
  MaxLinks = 3
  MaxSockets = 3
  Faults <- MCFaults
  Malformed = Malformed
  None = None
INVARIANTS
  ResourcesCounted
PROPERTIES
  ImplementsOpenLinks
CHECK_DEADLOCK FALSE
