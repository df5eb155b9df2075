SPECIFICATION FairSpec
CONSTANTS
  e1 = e1
  e2 = e2
  e3 = e3
  e4 = e4
  x = x
  y = y
  z = z
  Elt = {e1, e2, e3, e4}
  Item = {x, y, z}
  Rank <- Ranks
  Null = Null
INVARIANTS
  IsRing
PROPERTIES
  ImplementsSequence
  TrieSorts
CHECK_DEADLOCK FALSE
