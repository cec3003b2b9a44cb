SPECIFICATION FairSpec
CONSTANTS
  left = left
  right = right
  inside = inside
  host = host
  a = a
  c = c
  Data = Data
  Nowhere = Nowhere
  None = None
  Forwarder <- MCForwarder
  Consumer = {a, c}
  Producer = {host}
  Name <- MCName
  Wanted <- MCWanted
  Home <- MCHome
  Routes <- MCRoutes
  Key = {1, 2, 3}
  MaxFaults = 1
INVARIANTS TypeOK  KeysAgree DeliveredInClear
PROPERTY Answered
CHECK_DEADLOCK FALSE
