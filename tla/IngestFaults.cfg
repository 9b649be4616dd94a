CONSTANTS
  Kind <- PartsKind
  Ticket <- PartsTicket
  Volume <- PartsVolume
  Open <- PartsOpen
  Events = {1, 2, 3}
  Tickets = {1}
  Requests = {r1, r2}
  NoEvent = NoEvent
  MaxSends = 2
  MaxRedisErrors = 1
  MaxThrows = 1
  MaxCrashes = 1
  MaxFlips = 1
SPECIFICATION Spec
INVARIANT DeliveredOnce
INVARIANT NothingLost
INVARIANT VolumesAreRight
PROPERTY RecordStands
SYMMETRY RequestSymmetry
CHECK_DEADLOCK FALSE
