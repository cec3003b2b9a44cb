SPECIFICATION Spec
CONSTANTS
  MTU = 4
  Header = 1
  MinPacket = 0
  Size = {6}
  SeqSize = 4
  Messages = 5
  NetSize = 2
  MaxGap = 2
  Faults = {}
  None = None
PROPERTIES
  EveryIntactMessageArrives
