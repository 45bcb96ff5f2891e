SPECIFICATION CloudSpec
CONSTANTS
  Vnfs = {amf, smf}
  Ops = {op1, op2, op3}
  NoOp = NoOp
  wide = wide
  deep = deep
  Descriptors = {wide, deep}
  RequiredCpu <- MCRequiredCpu
  RequiredRam <- MCRequiredRam
  Deployments = {d1, d2, d3}
  NodeCount = 2
  NodeCpu = 4
  NodeRam = 4
  MaxReplicas = 2
  NoDeployment = NoDeployment
  Loops = {loop}
  Tasks = {t1, t2, t3}
  Actions = {a1, a2}
  MaxVersions = 2
  NoTask = NoTask
  NoAction = NoAction
INVARIANT
  AvailableWithinTotal
CHECK_DEADLOCK FALSE
