CONSTANTS
  Users = {u1, u2}
  Tabs = {t1, t2}
  Absent = Absent
  NoSession = NoSession
  MaxFailed = 2
  MaxLinks = 2
  MaxRequests = 3
  MaxCrashes = 1
  Directory <- MCDirectory
  MaxSearches = 2
  MaxAccounts = 1
  Editors = {t1, t2}
  Images = {"one", "two"}
  Unfit = {"script"}
  MaxClock = 3
  Polls = {p1, p2}
  MinGap = 1
  MinWindow = 2
  Listed = 1
  LowBalance = 1
  LowRunway = 3
  Deposited = 2
  MaxPaid = 1
  MaxUsed = 2
  MaxTime = 2
  MaxPolls = 3
  p1 = p1
  p2 = p2
SPECIFICATION ConsoleSpec
INVARIANT AdminRemains
INVARIANT CredentialsHold
INVARIANT SuspendedIsStill
INVARIANT PagesAreRight
SYMMETRY TabSymmetry
CHECK_DEADLOCK FALSE
