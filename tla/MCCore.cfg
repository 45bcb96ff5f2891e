SPECIFICATION Spec
CONSTANTS
  UEs = {u1, u2}
  Calls = {c1, c2}
  MaxRestarts = 2
  NfIds = {n1, n2}
  NoProfile = NoProfile
  Supis = {s1, s2}
  Provisioned = {s1}
  AuthIds = {a1}
  NasSessions = {p1}
  MaxEvents = 1
  NoContext = NoContext
  Associations = {as1, as2}
  Bindings = {b1, b2, b3}
  Addresses = {ip1, ip2}
  ChargingIds = {ch1}
  MaxUsage = 3
  MaxReleases = 2
  Absent = Absent
  SliceSubscriptions = {sub1}
  NoSlices = NoSlices
  Imsis = {i1, i2}
  UeContexts = {1, 2, 3}
  MaxGuti = 4
  MaxPdns = 2
  GwSessions = {g1, g2}
  PoolSize = 3
  MaxEbi = 7
  MaxTeid = 3
  Msisdns = {m1, m2}
  MaxSqn = 2
  Nobody = Nobody
  Impus = {impu, tel}
  Impis = {impi}
  PoolUsers = {v1, v2}
  Procedures = {r1, r2, r3}
  Scscfs = {x1, x2}
  MaxContacts = 3
  MaxAssigned = 2
  Gone = Gone
  Over = Over
  Conferences = {k1}
  Members = {me1, me2}
  Transcodings = {t1}
  Ports = {0, 2, 4}
  MaxMembers = 2
  Unused = Unused
INVARIANTS
  SessionInv
  RegistrationInv
  PolicyInv
  
  ImsInv
  MediaInv
PROPERTIES
  CreateCallsEnd
  RegistersEnd
CHECK_DEADLOCK FALSE
