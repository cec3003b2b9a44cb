CONSTANTS
  None = None
  a = a
  b = b
  k1 = k1
  h1 = h1
  o1 = o1
  key1 = key1
  Interest <- MCInterest
  Content <- MCContent
  Original <- MCOriginal
  Link = {l1, l2}
  Lifetime = {1, 2}
  Capacity = 1
  MaxTime = 3
  Entry = {1, 2}
SYMMETRY MCSymmetry
SPECIFICATION Spec
INVARIANTS
  TypeOK
  IngressListed
  WaitedForAndScheduled
PROPERTIES
  RemovedLinkIsGone
  ImplementsPendingInterests
