SPECIFICATION Configuration
CONSTANTS
  LinkSpec <- MCLinkSpec
  Prefix = {"p"}
  Peer = {"peer"}
  Level = {Debug}
  Gateways <- MCGateways
  StateFile = StateFile
  Debug = Debug
  CommandLines <- MCCommandLines
  DefaultSpec <- b
  NodeSpec <- n
  Dispatched = TRUE
  MaxLines = 4
  Nothing = Nothing
INVARIANTS
  ConfigurationTypeOK
  
