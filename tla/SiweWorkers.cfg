SPECIFICATION Spec
CONSTANTS
  Workers = {w1, w2}
  Nonces = {n1, n2}
  Wallets = {a1, a2}
  Chains = {137}
  DefaultChain = 137
  NoSigner = NoSigner
  Never = Never
  Ttl = 1
  AccessLife = 1
  RefreshLife = 2
  MaxTime = 3
PROPERTY
  UnusedNonceAccepted
