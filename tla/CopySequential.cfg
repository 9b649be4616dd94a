CONSTANTS
  Kind <- LongLifeKind
  Ticket <- LongLifeTicket
  Events = {1, 2, 3, 4}
  Tickets = {1}
  Accounts = {a1, a2}
  MT4 = {a1}
  Workers = {w1}
  NoAccount = NoAccount
  NoWorker = NoWorker
  NoPosition = NoPosition
  Attempts = 3
  MaxStalled = 1
  MaxCrashes = 0
  MaxLostLocks = 0
  MaxThrows = 0
SPECIFICATION Spec
INVARIANT BooksAgree
INVARIANT SkippedMeansNothingHeld
