SPECIFICATION Spec
CONSTANTS
  Clients = {c1, c2}
  Tasks = {t1, t2}
  NoTask = NoTask
  MaxMarketScan = 0
  Subscriptions <- MCSubscriptionsLive
PROPERTIES
  HeartbeatsKeepComing
  PollersWindDown
  StopCompletes
