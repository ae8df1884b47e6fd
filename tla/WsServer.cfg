SPECIFICATION Spec
CONSTANTS
  Clients = {c1, c2}
  Tasks = {t1, t2, t3}
  NoTask = NoTask
  MaxMarketScan = 2
  Subscriptions <- MCSubscriptions
SYMMETRY Symmetry
INVARIANTS
  TypeOK
  PollerCoversClients
  IdleMeansStopped
  RegistryIsServed
PROPERTIES
  QuietAfterUnsubscribe
