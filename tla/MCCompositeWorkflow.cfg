CONSTANTS
  Start = 2
  CollectionTimeout = 2
  MaxTfAge = 1
  MaxDiagnosticAge = 1
  MaxSensorAge = 1
  Sensor = {"/scan"}
  Path <- MCPath
  Reaches <- MCReaches
  Clear <- MCClear
  Near <- MCNear
  MaxMapVersion = 3
  PreviewAttempts = 3
SPECIFICATION FlowSpec
INVARIANTS
  FlowTypeOK
  MotionIsGrounded
  ResultAdmitsMotion
PROPERTY HealthyIsRecent
CHECK_DEADLOCK FALSE
