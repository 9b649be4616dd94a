SPECIFICATION DeskSpec
CONSTANTS
  Rows = {r1, r2}
  WebCalls = {w1, w2}
  WorkerCalls = {k1}
  NoRow = NoRow
  NoCall = NoCall
  MaxTerminals = 2
  MaxRequests = 2
  MaxThrows = 1
  Copies = {c1, c2}
  Venues <- MCVenues
  OrderVolume = 2
  Gains <- MCGains
  Commission = 1
  MaxTickets = 3
  MaxDeals = 4
  MaxChanges = 3
  MaxDrops = 1
  r1 = r1
  r2 = r2
  w1 = w1
  w2 = w2
  k1 = k1
  c1 = c1
  c2 = c2
INVARIANT ConnectionsHold
INVARIANT DisabledIsStoppedOrSaid
INVARIANT BookIsRight
INVARIANT PageCatchesUp
PROPERTY EnabledRuns
CHECK_DEADLOCK FALSE
