SPECIFICATION LiveSpec
CONSTANTS
  a1 = a1
  a2 = a2
  t1 = t1
  Accounts = {a1, a2}
  NoAccount = NoAccount
  Tickets = {t1}
  Holder <- OnFirst
  p1 = p1
  Pollers = {p1}
  MaxLots = 3
  Stops = {0, 1}
  MaxChanges = 4
  MaxDisturbances = 1
INVARIANT SeenOnce
INVARIANT OnlyWhatHappened
PROPERTY FollowersCatchUp
CHECK_DEADLOCK FALSE
