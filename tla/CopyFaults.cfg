CONSTANTS
  Kind <- RoundTripKind
  Ticket <- RoundTripTicket
  Events = {1, 2}
  Tickets = {1}
  Accounts = {a1}
  MT4 = {a1}
  Workers = {w1, w2}
  NoAccount = NoAccount
  NoWorker = NoWorker
  NoPosition = NoPosition
  Attempts = 3
  MaxStalled = 1
  MaxCrashes = 1
  MaxLostLocks = 1
  MaxThrows = 1
SPECIFICATION Spec
INVARIANT AtMostOneOrder
INVARIANT RowsAreTrue
 
PROPERTY PromiseKept
SYMMETRY WorkerSymmetry
