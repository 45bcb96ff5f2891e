SPECIFICATION Spec
CONSTANTS
  w1 = w1
  w2 = w2
  NoStub = NoStub
  NoFault = NoFault
  NoProposal = NoProposal
  Walks <- MCWalks
  Faults <- MCFaults
  RCA <- MCRCA
  Stub <- MCStub
  FirmwareScenarios <- MCFirmwareScenarios
INVARIANT
  SandboxBeforeDispatch
