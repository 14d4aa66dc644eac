CONSTANTS
  PoseLog <- MCPoseLog
  CommandLog <- MCCommandLog
  Tolerance = 2
  CommandedSpeed = 1
  LowProgress = 1
  Oscillation = 1
  PoseJump = 5
  WindowGap = 1
SPECIFICATION AnalysisSpec
INVARIANTS
  MatchesAreNearest
  WindowsAreMaximalRuns
CHECK_DEADLOCK FALSE
