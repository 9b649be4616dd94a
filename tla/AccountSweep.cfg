CONSTANTS
  Copies = {c1}
  Requests = {r1, r2}
  NoCopy = NoCopy
  MaxRequests = 3
  MaxToggles = 1
  MaxTickets = 1
  MaxFailures = 1
SPECIFICATION Spec
INVARIANT ConnectedIsClean
INVARIANT ClosedUnlessRaced
INVARIANT DisabledStaysOff
SYMMETRY RequestSymmetry
CHECK_DEADLOCK FALSE
