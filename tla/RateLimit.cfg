SPECIFICATION CountSpec
CONSTANTS
  Ips = {ip1, ip2}
  Client = ip1
  Tiers <- MCTiers
  DefaultTier = "BASIC"
  NoToken = NoToken
  Rate <- MCRate
  Period = 2
  Cost = 2
  CleanupInterval = 2
  Slots = {s1}
  None = None
  MaxTime = 4
INVARIANTS
  TypeOK
  BucketMatchesTier
  HeadersAgree
  RequestsBounded
PROPERTY
  ImplementsTokenBucket
