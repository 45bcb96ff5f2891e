SPECIFICATION FairSpec
CONSTANTS
  w1 = w1
  w2 = w2
  NoStub = NoStub
  NoFault = NoFault
  NoProposal = NoProposal
  Walks <- MCWalks
  Faults <- MCFaults
  RCA <- MCRCA
  Stub <- MCStub
  FirmwareScenarios <- MCFirmwareScenarios
INVARIANTS
  TypeOK
  AuditsPassedEveryGate
  GraphKeepsTheBoundary
  FirmwareFollowsAuditAndNotice
PROPERTIES
  WalksEnd
  KeepsGate
