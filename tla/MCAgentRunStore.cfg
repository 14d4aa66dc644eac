SPECIFICATION RunsSpec
CONSTANTS
  r1 = r1
  r2 = r2
  t1 = t1
  t2 = t2
  p1 = p1
  p2 = p2
  NoPlan = NoPlan
  RunId <- MCRunId
  TraceId <- MCTraceId
  Plan <- MCPlan
SYMMETRY Symmetry
INVARIANTS
  RunsTypeOK
  HistoryIsLegal
  PlanBeforeExecution
PROPERTY DecidedIsFinal
\* every run may have reached a terminal state
CHECK_DEADLOCK FALSE
