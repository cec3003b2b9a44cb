CONSTANTS
  None = None
  a = a
  b = b
  k1 = k1
  h1 = h1
  o1 = o1
  key1 = key1
  Interest <- MCHashedInterest
  Content <- MCHashedContent
  Original <- MCOriginal
  Link = {l1, l2}
  Lifetime = {1}
  Capacity = 1
  MaxTime = 2
  Entry = {1, 2, 3}
SYMMETRY MCSymmetry
SPECIFICATION Spec
INVARIANTS
  AtMostOneOver
