SPECIFICATION Spec
CONSTANTS
  a = a
  b = b
  End = {a, b}
  Header = 2
  Size = {3, 4}
  Room <- MCRoom
  Messages = 4
  Window = 2
  NonBlocking = {}
  None = None
INVARIANTS
  TypeOK
PROPERTIES
  ImplementsMessageLinks
  EveryMessageArrives
CHECK_DEADLOCK FALSE
