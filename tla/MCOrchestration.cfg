SPECIFICATION Spec
CONSTANTS
  Policies = {pol1}
  A1Calls = {c1, c2}
  PolicyData = {d1}
  EiTypes = {t1}
  EiJobs = {j1, j2}
  NoPolicy = NoPolicy
  Requests = {q1, q2}
  Capacity = 3
  Alarms = {a1}
  OSubs = {os1, os2}
  EventKinds = {k1}
  MaxHistory = 2
  MaxEvents = 4
  None = None
  Rates = {}
  Losses = {"r"}
  Totals <- MCTotals
  Slas <- MCSlas
  Window = 2
  RatePct = 25
  NotYet = NotYet
  MaxSubs = 3
  Rounds = {r1}
  Deleted = Deleted
  Nsis = {sl1, sl2}
  Nssis = {sn1, sn2}
  Throughputs = {10, 14, 20}
  Ratios = {0, 40}
  Seeds <- MCSeeds
  NoSlice = NoSlice
INVARIANTS
  PolicyAgreement
  ReportsAreTrue
  SubscriptionsInv
PROPERTIES
  OrchestrationProgresses
CHECK_DEADLOCK FALSE
