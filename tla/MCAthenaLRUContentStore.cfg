SPECIFICATION FairSpec
CONSTANTS
  a = a
  b = b
  None = None
  c = c
  Name = {a, b, c}
  Content <- MCContent
  Interest <- MCInterest
  Capacity = {0, 3}
  MaxTime = 3
INVARIANTS TypeOK ListIndexAndSizeAgree
PROPERTIES PutReturns ImplementsContentCache
CHECK_DEADLOCK FALSE
