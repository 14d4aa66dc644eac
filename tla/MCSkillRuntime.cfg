SPECIFICATION MCSpec
CONSTANTS
  e1 = e1
  e2 = e2
  s1 = s1
  h1 = h1
  h2 = h2
  readOnly = readOnly
  controlled = controlled
  k1 = k1
  r1 = r1
  r2 = r2
  t1 = t1
  t2 = t2
  a1 = a1
  in1 = in1
  in2 = in2
  None = None
  NoPlan = NoPlan
  Executor <- MCExecutor
  Skill <- MCSkill
  Hash <- MCHash
  Manifest <- MCManifest
  Controlled <- MCControlled
  Key <- MCKey
  RunId <- MCRunId
  TraceId <- MCTraceId
  ApprovalId <- MCApprovalId
  Inputs <- MCInputs
  Plan <- MCPlan
  Invocation <- MCInvocation
  TrustedKey = k1
  OperatorTargets = {"VERIFYING"}
  Ttl = {0}
  MaxClock = 1
  MaxRejections = 0
SYMMETRY Symmetry
VIEW View
INVARIANTS
  RuntimeTypeOK
  AtMostOneCall
  CallWasAuthorized
  CallWasGoverned
  OneOwnerPerRun
  ResultMatchesStore
\* every process may rest, every run be decided
CHECK_DEADLOCK FALSE
