CONSTANTS
  Applicants = {p}
  Followers = {f}
  Admin = Admin
  Strategies = {1, 2}
  None = None
  Limit <- TwoPlans
  Outcomes = {"PAID", "PENDING"}
  Tabs = 2
  MaxRequests = 2
  MaxCrashes = 1
  Profits <- SomeProfits
  MaxTrades = 4
SPECIFICATION Spec
PROPERTY PublishedByApproved
INVARIANT PlansArePaid
PROPERTY FollowersHold
PROPERTY FiguresAreRight
CHECK_DEADLOCK FALSE
