SPECIFICATION Spec
SYMMETRY Symmetry
CONSTANTS
  Workers = {w1, w2}
  Markets = {m1, m2}
  NoMarket = NoMarket
  Wallets = {"0xA", "0xa", "0xb"}
  Person <- MCPerson
  MaxPosts = 2
INVARIANTS
  TypeOK
  CommentsKept
PROPERTY
  OneFileEach
CHECK_DEADLOCK FALSE
