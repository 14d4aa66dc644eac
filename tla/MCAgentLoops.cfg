SPECIFICATION AgentsSpec
CONSTANTS
  a1 = a1
  a2 = a2
  d1 = d1
  r1 = r1
  r2 = r2
  t1 = t1
  t2 = t2
  NoPlan = NoPlan
  NoLoop = NoLoop
  RunId <- MCRunId
  TraceId <- MCTraceId
  Plan <- MCPlan
  ReadOnlyLoop <- MCReadOnlyLoop
  DiagnosisLoop <- MCDiagnosisLoop
  Server <- MCDiagnosisLoop
  MaxVersion = 2
SYMMETRY Symmetry
INVARIANTS
  AgentsTypeOK
  StepsAreEvidenced
  ResultNamesStoredState
  DiagnosisIsOneExperiment
  BundleSealsReport
PROPERTY RecoverySparesOwnKind
\* every process may have ended
CHECK_DEADLOCK FALSE
