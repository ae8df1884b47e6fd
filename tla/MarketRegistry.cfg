SPECIFICATION Spec
SYMMETRY Symmetry
CONSTANTS
  Workers = {w1, w2}
  NoRequest = NoRequest
  Addresses = {"0xAB", "0xab", "0xcd"}
  Contract <- MCContract
  Statuses = {"paused", "resolved"}
  MaxRequests = 4
  Outcomes = {"YES"}
INVARIANTS
  TypeOK
  RegisteredOnce
  SerialUnlessClash
PROPERTY
  UnreadableIsKept
CHECK_DEADLOCK FALSE
