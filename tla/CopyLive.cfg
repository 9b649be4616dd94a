CONSTANTS
  Kind <- RoundTripKind
  Ticket <- RoundTripTicket
  Events = {1, 2}
  Tickets = {1}
  Accounts = {a1}
  MT4 = {a1}
  Workers = {w1}
  NoAccount = NoAccount
  NoWorker = NoWorker
  NoPosition = NoPosition
  Attempts = 3
  MaxStalled = 1
  MaxCrashes = 2
  MaxLostLocks = 0
  MaxThrows = 1
SPECIFICATION FairSpec
PROPERTY JobsSettle
PROPERTY ProcessedIsFinal
