SPECIFICATION NavSpec
CONSTANT UseSimTime = FALSE
INVARIANT StopIsVerified
\* after the call has ended and the robot stands, nothing need happen
CHECK_DEADLOCK FALSE
