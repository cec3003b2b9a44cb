SPECIFICATION DatagramSpec
CONSTANTS
  Peer = {p, q}
  Data = {0, 1}
  Link = {a, b}
  Batch = 3
  MaxHeld = 3
  Reuse = FALSE
  NameTaken = TRUE
  Nothing = Nothing
INVARIANTS
  DatagramTypeOK
PROPERTIES
  ImplementsPeerChannels
  EveryPeerGetsItsTurn
CHECK_DEADLOCK FALSE
