SPECIFICATION FairSpec
CONSTANTS
  Workers = {w1, w2}
  Swaps = {s1, s2}
  Unusable = {}
  Pairs = {p1}
  Limit = 1
  MaxBlocks = 2
  MaxStops = 1
INVARIANTS
  TypeOK
  MarkCovers
  DoubledOnlyInDoubt
PROPERTIES
  EventuallyStored
  KeepsPolling
CHECK_DEADLOCK FALSE
