SPECIFICATION FairNavSpec
CONSTANT UseSimTime = TRUE
INVARIANTS
  AtMostOneGoal
  SuccessIsEarned
  VerdictLeavesNoGoal
PROPERTIES
  ImplementsOneNavigation
  InvokeReturns
  UnsafeStopsRobot
\* after the call has ended and the robot stands, nothing need happen
CHECK_DEADLOCK FALSE
