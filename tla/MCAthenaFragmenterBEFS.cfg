SPECIFICATION Spec
CONSTANTS
  MTU = 4
  Header = 1
  MinPacket = 3
  Size = {4, 6, 7, 8}
  SeqSize = 4
  Messages = 4
  NetSize = 1
  MaxGap = 2
  Faults = {"lose", "duplicate", "cut", "fail"}
  None = None
INVARIANTS
  TypeOK
PROPERTIES
  ImplementsMessageLink
  EveryEndedMessageArrives
