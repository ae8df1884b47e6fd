SPECIFICATION Spec
SYMMETRY Symmetry
CONSTANTS
  Workers = {w1}
  Feeds = {f1, f2}
  NoFeed = NoFeed
  Amounts <- MCAmounts
  Funds = 2
  MaxHeld = 2
INVARIANTS
  TypeOK
  EstimateHolds
  DelegatedAsAsked
