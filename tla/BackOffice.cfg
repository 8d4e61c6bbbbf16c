SPECIFICATION OneAtATime
CONSTANTS
  Settings = {rate, price}
  Seeded = {rate}
  Setters = {s1, s2, s3}
  owner = owner
  cashier = cashier
  o1 = o1
  o2 = o2
  a1 = a1
  a2 = a2
  d1 = d1
  d2 = d2
  Orders = {a1, a2}
  Days = {d1, d2}
  ReportEvents <- TwoOrders
  Loops = {y1, y2}
  Absent = Absent
  Asked <- FourContents
  Roles = {owner, cashier}
  GlobalRoles = {owner}
  Outlets = {o1, o2}
  Updates = {u1, u2}
  Untouched = Untouched
  Latest = 2
  Seeds = {2}
  Runs = {x1, x2, x3}
  SignIns = {i1}
  Limit = 2
  Calls = {k1, k2, k3, k4}
SYMMETRY Symmetry
CONSTRAINTS
  SignInBound
  FiveDelivered
INVARIANTS
  NeverUnset
  OneActive
  PeriodsAreApart
  MembersAreOfOneUpdate
  AppliedIsInEffect
  
  LimitIsOfAWindow
  ReportsAreExact
  ReportsAgree
  ServesBootstrapped
CHECK_DEADLOCK FALSE
