CONSTANTS
  a1 = a1
  a2 = a2
  s1 = s1
  s2 = s2
  Accounts = {a1, a2}
  Strategies = {s1, s2}
  Subs <- ThreeSubs
  Requests = {r1, r2}
  Jobs = {j1}
  NoSub = NoSub
  PlanLimit = 2
  MaxRequests = 3
  LastDay = 1
SPECIFICATION Spec
INVARIANT MembersCounted
INVARIANT StatusIsHonest
INVARIANT WithinPlan
PROPERTY BreachHoldsToday
SYMMETRY RequestSymmetry
CHECK_DEADLOCK FALSE
