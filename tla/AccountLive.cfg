CONSTANTS
  Copies = {c1}
  Requests = {r1}
  NoCopy = NoCopy
  MaxRequests = 1
  MaxToggles = 2
  MaxTickets = 2
  MaxFailures = 2
SPECIFICATION FairSpec
PROPERTY ErrorHeals
 
CHECK_DEADLOCK FALSE
