SPECIFICATION Spec
CONSTANTS
  n1 = n1
  n2 = n2
  A = A
  B = B
  Instances = {n1, n2}
  NfTypes = {A, B}
  TypesOf <- MCTypesOf
  Forwards = {f1, f2}
  MaxRetries = 1
  Threshold = 2
  MaxFailures = 2
  EventSubs = {es1, es2}
  Triggers = {tr1, tr2}
  MaxReports = 2
  NonTgppUes = {nu1, nu2}
  Tunnels = {tu1, tu2}
  MaxAddress = 3
  MaxNgapId = 3
  Nil = Nil
  Seids = {se1, se2}
  GtpTunnels = {gt1, gt2}
  QerIds = {qe1}
  PoolV4 = {1, 2}
  Rates = {5, 6}
  Malformed = Malformed
  Exchanges = {ex1, ex2, ex3}
  FirstSeq = 253
  MaxSeq = 256
  Conns = {co1, co2}
  MaxFrames = 2
  NoneHere = NoneHere
  MaxUes = 3
  PduIds = {p1}
  NoId = NoId
  SnSize = 4
  RlcWindow = 2
  PdcpSnSize = 2
  MaxSdus = 5
  Plmns <- MCPlmns
  Octets = {46, 47}
  Ksis = {7}
  SessionIds = {0, 5}
  Numbers = {1, 65793}
  FirstNumbers = {0, 255, 16777215}
  Missing = Missing
  Absent = Absent
  NotDecoded = NotDecoded
  Subscribers = {su1, su2}
  Networks = {nw1, nw2}
  MaxRand = 2
INVARIANTS
  InterworkingInv
  UserPlaneInv
  RanInv
  BothSidesAgree
CHECK_DEADLOCK FALSE
