---------------------- MODULE ApprovedNavigationProofs ----------------------
(***************************************************************************)
(* One call of invoke() sends at most one goal, reports success only for a *)
(* motion that ended well, and leaves no goal running unasked behind a     *)
(* verdict, with a cold or a warm clock, however the callbacks, the        *)
(* deadline, Nav2, failures of ROS and the death of the child interleave.  *)
(***************************************************************************)
EXTENDS ApprovedNavigation, TLAPS

\* the adapter waits for every child that lives, and has its verdict from one that exited
AdapterAndChild ==
  /\ child.pc \in Alive => adapter.pc = "waiting"
  /\ child.pc # "exited" <=> child.result = "none"
  /\ adapter.pc = "done" <=> adapter.outcome # "none"
  /\ adapter.outcome \in ResultStates => child.result = adapter.outcome

\* until connecting is over no goal has been sent; these results and a retry come before that
SentOnce ==
  /\ sent \in {0, 1}
  /\ sent = 0 <=> goal = "none"
  /\ child.pc \in {"preflight", "connecting"} => sent = 0
  /\ child.result \in {"cold", "rejected"} => sent = 0
  /\ adapter.pc = "ready" => sent = 0
  /\ child.pc \in {"watching", "draining", "settling"} =>
       goal \notin {"none", "requested", "refused"}

\* what the node remembers of the messages it has seen, of Nav2's result and of its own cancel
NodeRemembers ==
  /\ seen.unsafe => ~ node.remainedOk
  /\ node.status # "none" => goal = node.status
  /\ node.cancelRequested <=> node.forced # "none"
  /\ child.pc \in {"preflight", "connecting", "sending", "watching"} => node.forced = "none"
  /\ node.forced # "none" =>
       /\ goal \notin {"none", "requested", "refused"}
       /\ goal = "executing" => cancel # "none"

\* how execute_goal came to its verdict
VerdictHasReason ==
  /\ child.result = "succeeded" =>
       node.status = "succeeded" /\ node.forced = "none" /\ node.remainedOk
  /\ child.result \in {"canceled", "safety_stopped"} => node.forced # "none"

CallFacts == AdapterAndChild /\ SentOnce /\ NodeRemembers /\ VerdictHasReason

NavInv == NavTypeOK /\ CallFacts

-----------------------------------------------------------------------------
LEMMA FreshNode ==
  /\ NewNode \in NodeState
  /\ NothingSeen \in [unsafe : BOOLEAN, odom : BOOLEAN]
<1>1. \A n : n = NewNode => n \in NodeState
  BY DEF NewNode, NodeState, Finished
<1>2. \A m : m = NothingSeen => m \in [unsafe : BOOLEAN, odom : BOOLEAN]
  BY DEF NothingSeen
<1> QED BY <1>1, <1>2

\* what finalize_navigation_result may say, and on what grounds
LEMMA VerdictGrounds ==
  ASSUME NavTypeOK, NEW geometry \in BOOLEAN
  PROVE  /\ Verdict(geometry) \in {"succeeded", "failed", "canceled", "safety_stopped"}
         /\ Verdict(geometry) = "succeeded" =>
              node.status = "succeeded" /\ node.forced = "none" /\ node.remainedOk
         /\ Verdict(geometry) \in {"canceled", "safety_stopped"} => node.forced # "none"
<1> DEFINE held == node.status = "succeeded" /\ geometry /\ Postcondition
<1>1. node.forced \in {"none", "canceled", "safety_stopped"}
  BY DEF NavTypeOK, NodeState
<1>2. CASE node.forced # "none"
  BY <1>1, <1>2 DEF Verdict
<1>3. CASE node.forced = "none" /\ held
  BY <1>3 DEF Verdict, Postcondition
<1>4. CASE node.forced = "none" /\ ~ held
  BY <1>4 DEF Verdict
<1> HIDE DEF held
<1> QED BY <1>2, <1>3, <1>4

LEMMA NavInitially == NavInit => NavInv
<1> SUFFICES ASSUME NavInit PROVE NavInv
  OBVIOUS
<1>1. adapter \in AdapterState /\ child \in ChildState
  BY DEF NavInit, AdapterState, ChildState
<1>2. NavTypeOK
  BY <1>1, FreshNode DEF NavInit, NavTypeOK
<1>3. AdapterAndChild /\ SentOnce
  BY DEF NavInit, AdapterAndChild, SentOnce, Alive, Spinning, ResultStates
<1>4. NodeRemembers /\ VerdictHasReason
  BY DEF NavInit, NodeRemembers, VerdictHasReason, NewNode, NothingSeen
<1> QED BY <1>2, <1>3, <1>4 DEF NavInv, CallFacts

-----------------------------------------------------------------------------
LEMMA AdapterKeepsInv == ASSUME NavInv, AdapterStep PROVE NavInv'
<1> USE DEF NavInv, NavTypeOK, CallFacts, Alive, Spinning, ResultStates, Finished, world
<1>1. CASE Launch
  <2>1. adapter' \in AdapterState
    BY <1>1 DEF Launch, AdapterState
  <2>2. child' \in ChildState
    BY <1>1 DEF Launch, ChildState
  <2>3. node' \in NodeState
    BY FreshNode, <1>1 DEF Launch
  <2>4. seen' \in [unsafe : BOOLEAN, odom : BOOLEAN]
    BY FreshNode, <1>1 DEF Launch
  <2>5. NavTypeOK'
    BY <2>1, <2>2, <2>3, <2>4, <1>1 DEF Launch
  <2>6. CallFacts'
    BY <1>1 DEF Launch, AdapterState, ChildState, NodeState, AdapterAndChild, SentOnce,
        NodeRemembers, VerdictHasReason, NewNode, NothingSeen
  <2> QED BY <2>5, <2>6
<1>2. CASE LaunchFails
  <2>1. adapter' \in AdapterState
    BY <1>2 DEF LaunchFails, Return, AdapterState
  <2>2. NavTypeOK'
    BY <2>1, <1>2 DEF LaunchFails
  <2>3. CallFacts'
    BY <1>2 DEF LaunchFails, Return, AdapterState, AdapterAndChild, SentOnce,
        NodeRemembers, VerdictHasReason
  <2> QED BY <2>2, <2>3
<1>3. CASE ChildReturns
  <2>1. adapter' \in AdapterState
    <3>1. CASE Retried(child.result)
      <4>1. adapter.attempt \in 1..3 /\ adapter.attempt < 3
        BY <3>1 DEF Retried, AdapterState
      <4>2. adapter.attempt + 1 \in 1..3
        BY <4>1
      <4> QED BY <1>3, <3>1, <4>2 DEF ChildReturns, AdapterState
    <3>2. CASE ~ Retried(child.result)
      BY <1>3, <3>2 DEF ChildReturns, Return, AdapterState
    <3> QED BY <3>1, <3>2
  <2>2. NavTypeOK'
    BY <2>1, <1>3 DEF ChildReturns
  <2>3. CallFacts'
    BY <1>3, ZenonT(30) DEF ChildReturns, Return, Retried, AdapterState, AdapterAndChild, SentOnce,
        NodeRemembers, VerdictHasReason
  <2> QED BY <2>2, <2>3
<1>4. CASE OuterTimeout
  <2>1. child' \in ChildState
    BY <1>4 DEF OuterTimeout, ChildState
  <2>2. adapter' \in AdapterState
    BY <1>4 DEF OuterTimeout, AdapterState
  <2>3. NavTypeOK'
    BY <2>1, <2>2, <1>4 DEF OuterTimeout
  <2>4. CallFacts'
    BY <1>4 DEF OuterTimeout, AdapterState, ChildState, AdapterAndChild, SentOnce,
        NodeRemembers, VerdictHasReason
  <2> QED BY <2>3, <2>4
<1>5. CASE HelperSends
  <2>1. adapter' \in AdapterState
    BY <1>5 DEF HelperSends, AdapterState
  <2>2. NavTypeOK'
    BY <2>1, <1>5 DEF HelperSends
  <2>3. CallFacts'
    BY <1>5 DEF HelperSends, AdapterState, AdapterAndChild, SentOnce,
        NodeRemembers, VerdictHasReason
  <2> QED BY <2>2, <2>3
<1>6. CASE HelperReturns
  <2>1. adapter' \in AdapterState
    BY <1>6 DEF HelperReturns, Return, AdapterState
  <2>2. NavTypeOK'
    BY <2>1, <1>6 DEF HelperReturns
  <2>3. CallFacts'
    BY <1>6 DEF HelperReturns, Return, AdapterState, AdapterAndChild, SentOnce,
        NodeRemembers, VerdictHasReason
  <2> QED BY <2>2, <2>3
<1>7. CASE HelperFails
  <2>1. adapter' \in AdapterState
    BY <1>7 DEF HelperFails, Return, AdapterState
  <2>2. NavTypeOK'
    BY <2>1, <1>7 DEF HelperFails
  <2>3. CallFacts'
    BY <1>7 DEF HelperFails, Return, AdapterState, AdapterAndChild, SentOnce,
        NodeRemembers, VerdictHasReason
  <2> QED BY <2>2, <2>3
<1> QED BY <1>1, <1>2, <1>3, <1>4, <1>5, <1>6, <1>7 DEF AdapterStep

LEMMA ChildKeepsInv == ASSUME NavInv, ChildStep PROVE NavInv'
<1> USE DEF NavInv, NavTypeOK, CallFacts, Alive, Spinning, ResultStates, Finished, world
<1>1. CASE ColdClock
  <2>1. child' \in ChildState
    BY <1>1 DEF ColdClock, Exit, ChildState
  <2>2. NavTypeOK'
    BY <2>1, <1>1 DEF ColdClock
  <2>3. CallFacts'
    BY <1>1 DEF ColdClock, Exit, ChildState, AdapterAndChild, SentOnce,
        NodeRemembers, VerdictHasReason
  <2> QED BY <2>2, <2>3
<1>2. CASE RosFails
  <2>1. child' \in ChildState
    BY <1>2 DEF RosFails, Exit, ChildState
  <2>2. NavTypeOK'
    BY <2>1, <1>2 DEF RosFails
  <2>3. CallFacts'
    BY <1>2 DEF RosFails, Exit, ChildState, AdapterAndChild, SentOnce,
        NodeRemembers, VerdictHasReason
  <2> QED BY <2>2, <2>3
<1>3. CASE PreflightPasses
  <2>1. child' \in ChildState
    BY <1>3 DEF PreflightPasses, GoOn, ChildState
  <2>2. NavTypeOK'
    BY <2>1, <1>3 DEF PreflightPasses
  <2>3. CallFacts'
    BY <1>3 DEF PreflightPasses, GoOn, ChildState, AdapterAndChild, SentOnce,
        NodeRemembers, VerdictHasReason
  <2> QED BY <2>2, <2>3
<1>4. CASE PreflightRejects
  <2>1. child' \in ChildState
    BY <1>4 DEF PreflightRejects, Exit, ChildState
  <2>2. NavTypeOK'
    BY <2>1, <1>4 DEF PreflightRejects
  <2>3. CallFacts'
    BY <1>4 DEF PreflightRejects, Exit, ChildState, AdapterAndChild, SentOnce,
        NodeRemembers, VerdictHasReason
  <2> QED BY <2>2, <2>3
<1>5. CASE ServerMissing
  <2>1. child' \in ChildState
    BY <1>5 DEF ServerMissing, Exit, ChildState
  <2>2. NavTypeOK'
    BY <2>1, <1>5 DEF ServerMissing
  <2>3. CallFacts'
    BY <1>5 DEF ServerMissing, Exit, ChildState, AdapterAndChild, SentOnce,
        NodeRemembers, VerdictHasReason
  <2> QED BY <2>2, <2>3
<1>6. CASE SendGoal
  <2>1. child' \in ChildState
    BY <1>6 DEF SendGoal, GoOn, ChildState
  <2>2. seen' \in [unsafe : BOOLEAN, odom : BOOLEAN]
    BY <1>6 DEF SendGoal, GoOn
  <2>3. NavTypeOK'
    BY <2>1, <2>2, <1>6 DEF SendGoal
  <2>4. CallFacts'
    BY <1>6 DEF SendGoal, GoOn, ChildState, AdapterAndChild, SentOnce,
        NodeRemembers, VerdictHasReason
  <2> QED BY <2>3, <2>4
<1>7. CASE GoalAccepted
  <2>1. child' \in ChildState
    BY <1>7 DEF GoalAccepted, GoOn, ChildState
  <2>2. NavTypeOK'
    BY <2>1, <1>7 DEF GoalAccepted
  <2>3. CallFacts'
    BY <1>7 DEF GoalAccepted, GoOn, ChildState, AdapterAndChild, SentOnce,
        NodeRemembers, VerdictHasReason
  <2> QED BY <2>2, <2>3
<1>8. CASE GoalNotAccepted
  <2>1. child' \in ChildState
    BY <1>8 DEF GoalNotAccepted, Exit, ChildState
  <2>2. NavTypeOK'
    BY <2>1, <1>8 DEF GoalNotAccepted
  <2>3. CallFacts'
    BY <1>8 DEF GoalNotAccepted, Exit, ChildState, AdapterAndChild, SentOnce,
        NodeRemembers, VerdictHasReason
  <2> QED BY <2>2, <2>3
<1>9. CASE HearSafety
  <2>1. child' \in ChildState
    BY <1>9 DEF HearSafety, Cancel, Hear, GoOn, ChildState
  <2>2. node' \in NodeState
    BY <1>9, ZenonT(30) DEF HearSafety, Cancel, Hear, GoOn, NodeState
  <2>3. seen' \in [unsafe : BOOLEAN, odom : BOOLEAN]
    BY <1>9 DEF HearSafety, Cancel, Hear, GoOn
  <2>4. NavTypeOK'
    BY <2>1, <2>2, <2>3, <1>9 DEF HearSafety, Cancel
  <2>5. AdapterAndChild' /\ SentOnce'
    BY <1>9 DEF HearSafety, Cancel, Hear, GoOn, ChildState, AdapterAndChild, SentOnce
  <2>6. CASE child.pc = "watching" /\ ~ safe
    <3>1. NodeRemembers'
      BY <1>9, <2>6, ZenonT(30) DEF HearSafety, Cancel, Hear, GoOn, ChildState, NodeState, SentOnce,
          NodeRemembers
    <3>2. VerdictHasReason'
      BY <1>9, <2>6 DEF HearSafety, Cancel, GoOn, ChildState, VerdictHasReason, AdapterAndChild
    <3> QED BY <2>4, <2>5, <3>1, <3>2
  <2>7. CASE ~ (child.pc = "watching" /\ ~ safe)
    <3>1. node' = Hear(safe) /\ UNCHANGED <<child, cancel>>
      BY <1>9, <2>7 DEF HearSafety
    <3>2. NodeRemembers'
      BY <1>9, <3>1 DEF HearSafety, Hear, NodeState, NodeRemembers
    <3>3. VerdictHasReason'
      BY <1>9, <3>1 DEF HearSafety, Hear, ChildState, NodeState, VerdictHasReason, AdapterAndChild
    <3> QED BY <2>4, <2>5, <3>2, <3>3
  <2> QED BY <2>6, <2>7
<1>10. CASE HearOdometry
  <2>1. node' \in NodeState
    BY <1>10 DEF HearOdometry, NodeState
  <2>2. seen' \in [unsafe : BOOLEAN, odom : BOOLEAN]
    BY <1>10 DEF HearOdometry
  <2>3. NavTypeOK'
    BY <2>1, <2>2, <1>10 DEF HearOdometry
  <2>4. CallFacts'
    BY <1>10 DEF HearOdometry, NodeState, AdapterAndChild, SentOnce,
        NodeRemembers, VerdictHasReason
  <2> QED BY <2>3, <2>4
<1>11. CASE WatchUnsafe
  <2>1. node' \in NodeState
    BY <1>11 DEF WatchUnsafe, Cancel, GoOn, NodeState
  <2>2. child' \in ChildState
    BY <1>11 DEF WatchUnsafe, Cancel, GoOn, ChildState
  <2>3. NavTypeOK'
    BY <2>1, <2>2, <1>11 DEF WatchUnsafe, Cancel
  <2>4. CallFacts'
    BY <1>11 DEF WatchUnsafe, Cancel, GoOn, ChildState, NodeState, AdapterAndChild, SentOnce,
        NodeRemembers, VerdictHasReason
  <2> QED BY <2>3, <2>4
<1>12. CASE WatchTimesOut
  <2>1. node' \in NodeState
    BY <1>12 DEF WatchTimesOut, Cancel, GoOn, NodeState
  <2>2. child' \in ChildState
    BY <1>12 DEF WatchTimesOut, Cancel, GoOn, ChildState
  <2>3. NavTypeOK'
    BY <2>1, <2>2, <1>12 DEF WatchTimesOut, Cancel
  <2>4. CallFacts'
    BY <1>12 DEF WatchTimesOut, Cancel, GoOn, ChildState, NodeState, AdapterAndChild, SentOnce,
        NodeRemembers, VerdictHasReason
  <2> QED BY <2>3, <2>4
<1>13. CASE WatchEnds
  <2>1. node' \in NodeState
    BY <1>13 DEF WatchEnds, GoOn, NodeState
  <2>2. child' \in ChildState
    BY <1>13 DEF WatchEnds, GoOn, ChildState
  <2>3. NavTypeOK'
    BY <2>1, <2>2, <1>13 DEF WatchEnds
  <2>4. CallFacts'
    BY <1>13 DEF WatchEnds, GoOn, ChildState, NodeState, AdapterAndChild, SentOnce,
        NodeRemembers, VerdictHasReason
  <2> QED BY <2>3, <2>4
<1>14. CASE Drained
  <2>1. node' \in NodeState
    BY <1>14 DEF Drained, GoOn, NodeState
  <2>2. child' \in ChildState
    BY <1>14 DEF Drained, GoOn, ChildState
  <2>3. NavTypeOK'
    BY <2>1, <2>2, <1>14 DEF Drained
  <2>4. CallFacts'
    BY <1>14 DEF Drained, GoOn, ChildState, NodeState, AdapterAndChild, SentOnce,
        NodeRemembers, VerdictHasReason
  <2> QED BY <2>3, <2>4
<1>15. CASE Settle
  <2>1. child' \in ChildState
    BY VerdictGrounds, <1>15 DEF Settle, Exit, ChildState
  <2>2. NavTypeOK'
    BY <2>1, <1>15 DEF Settle
  <2>3. CallFacts'
    BY VerdictGrounds, <1>15 DEF Settle, Exit, ChildState, AdapterAndChild, SentOnce,
        NodeRemembers, VerdictHasReason
  <2> QED BY <2>2, <2>3
<1>16. CASE ChildCrashes
  <2>1. child' \in ChildState
    BY <1>16 DEF ChildCrashes, Exit, ChildState
  <2>2. NavTypeOK'
    BY <2>1, <1>16 DEF ChildCrashes
  <2>3. CallFacts'
    BY <1>16 DEF ChildCrashes, Exit, ChildState, AdapterAndChild, SentOnce,
        NodeRemembers, VerdictHasReason
  <2> QED BY <2>2, <2>3
<1> QED BY <1>1, <1>2, <1>3, <1>4, <1>5, <1>6, <1>7, <1>8, <1>9, <1>10, <1>11,
       <1>12, <1>13, <1>14, <1>15, <1>16
    DEF ChildStep

LEMMA EnvironmentKeepsInv == ASSUME NavInv, Environment PROVE NavInv'
<1> USE DEF NavInv, NavTypeOK, CallFacts, Alive, Spinning, ResultStates, Finished, world
<1>1. CASE Answer
  <2>1. NavTypeOK'
    BY <1>1 DEF Answer
  <2>2. AdapterAndChild' /\ SentOnce'
    BY <1>1 DEF Answer, AdapterAndChild, SentOnce
  <2>3. NodeRemembers' /\ VerdictHasReason'
    BY <1>1 DEF Answer, NodeState, SentOnce, NodeRemembers, VerdictHasReason
  <2> QED BY <2>1, <2>2, <2>3
<1>2. CASE CancelArrives
  <2>1. NavTypeOK'
    BY <1>2 DEF CancelArrives
  <2>2. AdapterAndChild' /\ SentOnce'
    BY <1>2 DEF CancelArrives, AdapterAndChild, SentOnce
  <2>3. NodeRemembers' /\ VerdictHasReason'
    BY <1>2 DEF CancelArrives, NodeState, SentOnce, NodeRemembers, VerdictHasReason
  <2> QED BY <2>1, <2>2, <2>3
<1>3. CASE GoalEnds
  <2>1. NavTypeOK'
    BY <1>3 DEF GoalEnds
  <2>2. AdapterAndChild' /\ SentOnce'
    BY <1>3 DEF GoalEnds, AdapterAndChild, SentOnce
  <2>3. NodeRemembers' /\ VerdictHasReason'
    BY <1>3 DEF GoalEnds, NodeState, SentOnce, NodeRemembers, VerdictHasReason
  <2> QED BY <2>1, <2>2, <2>3
<1>4. CASE RobotMoves
  <2>1. NavTypeOK'
    BY <1>4 DEF RobotMoves
  <2>2. CallFacts'
    BY <1>4 DEF RobotMoves, AdapterAndChild, SentOnce,
        NodeRemembers, VerdictHasReason
  <2> QED BY <2>1, <2>2
<1>5. CASE RobotStops
  <2>1. NavTypeOK'
    BY <1>5 DEF RobotStops
  <2>2. CallFacts'
    BY <1>5 DEF RobotStops, AdapterAndChild, SentOnce,
        NodeRemembers, VerdictHasReason
  <2> QED BY <2>1, <2>2
<1>6. CASE SafetyChanges
  <2>1. NavTypeOK'
    BY <1>6 DEF SafetyChanges
  <2>2. CallFacts'
    BY <1>6 DEF SafetyChanges, AdapterAndChild, SentOnce,
        NodeRemembers, VerdictHasReason
  <2> QED BY <2>1, <2>2
<1>7. CASE DeadlinePasses
  <2>1. NavTypeOK'
    BY <1>7 DEF DeadlinePasses
  <2>2. CallFacts'
    BY <1>7 DEF DeadlinePasses, AdapterAndChild, SentOnce,
        NodeRemembers, VerdictHasReason
  <2> QED BY <2>1, <2>2
<1> QED BY <1>1, <1>2, <1>3, <1>4, <1>5, <1>6, <1>7 DEF Environment

LEMMA StepKeepsNavInv == NavInv /\ [NavNext]_navVars => NavInv'
<1> SUFFICES ASSUME NavInv, [NavNext]_navVars PROVE NavInv'
  OBVIOUS
<1>1. CASE UNCHANGED navVars
  BY <1>1 DEF navVars, NavInv, CallFacts, NavTypeOK, AdapterAndChild, SentOnce,
        NodeRemembers, VerdictHasReason
<1> QED BY <1>1, AdapterKeepsInv, ChildKeepsInv, EnvironmentKeepsInv DEF NavNext

(***************************************************************************)
(* The facts above hold in every state of a call: adapter, child, node and *)
(* goal agree however their steps interleave (adapters.py, invoke;         *)
(* navigation_ros.py, execute_goal).                                       *)
(***************************************************************************)
THEOREM NavInvariant == NavSpec => []NavInv
BY NavInitially, StepKeepsNavInv, PTL DEF NavSpec

-----------------------------------------------------------------------------
\* Every variable keeps its type; in particular no retry ever becomes a fourth attempt.
THEOREM NavTypes == NavSpec => []NavTypeOK
<1>1. NavInv => NavTypeOK
  BY DEF NavInv
<1> QED BY <1>1, NavInvariant, PTL

\* One call of invoke() sends at most one goal, and retries only before it sent one.
THEOREM GoalSentOnce == NavSpec => []AtMostOneGoal
<1>1. NavInv => AtMostOneGoal
  BY DEF NavInv, CallFacts, SentOnce, AtMostOneGoal
<1> QED BY <1>1, NavInvariant, PTL

(***************************************************************************)
(* A success stands for one goal that Nav2 finished, that nobody cancelled *)
(* and during which no unsafe message was delivered.                       *)
(***************************************************************************)
THEOREM SuccessAlwaysEarned == NavSpec => []SuccessIsEarned
<1>1. NavInv => SuccessIsEarned
  <2> SUFFICES ASSUME NavInv, adapter.outcome = "succeeded"
               PROVE  /\ sent = 1 /\ goal = "succeeded"
                      /\ ~ node.cancelRequested
                      /\ ~ seen.unsafe
    BY DEF SuccessIsEarned
  <2>1. child.result = "succeeded"
    BY DEF NavInv, CallFacts, AdapterAndChild, ResultStates
  <2>2. node.status = "succeeded" /\ node.forced = "none" /\ node.remainedOk
    BY <2>1 DEF NavInv, CallFacts, VerdictHasReason
  <2>3. goal = "succeeded" /\ ~ node.cancelRequested /\ ~ seen.unsafe
    BY <2>2 DEF NavInv, CallFacts, NodeRemembers
  <2>4. sent = 1
    BY <2>3 DEF NavInv, CallFacts, SentOnce
  <2> QED BY <2>3, <2>4
<1> QED BY <1>1, NavInvariant, PTL

\* A verdict leaves no goal that runs on unless Nav2 is about to hear a cancel or refused one.
THEOREM NoGoalBehindVerdict == NavSpec => []VerdictLeavesNoGoal
<1>1. NavInv => VerdictLeavesNoGoal
  <2> SUFFICES ASSUME NavInv,
                      adapter.outcome \in {"succeeded", "rejected", "canceled", "safety_stopped"}
               PROVE  goal \notin {"requested", "executing"} \/ cancel \in {"sent", "refused"}
    BY DEF VerdictLeavesNoGoal
  <2>1. child.result = adapter.outcome
    BY DEF NavInv, CallFacts, AdapterAndChild, ResultStates
  <2>2. CASE adapter.outcome = "succeeded"
    BY <2>1, <2>2 DEF NavInv, CallFacts, VerdictHasReason, NodeRemembers
  <2>3. CASE adapter.outcome = "rejected"
    BY <2>1, <2>3 DEF NavInv, CallFacts, SentOnce
  <2>4. CASE adapter.outcome \in {"canceled", "safety_stopped"}
    BY <2>1, <2>4 DEF NavInv, NavTypeOK, CallFacts, VerdictHasReason, NodeRemembers
  <2> QED BY <2>2, <2>3, <2>4
<1> QED BY <1>1, NavInvariant, PTL

-----------------------------------------------------------------------------
(***************************************************************************)
(* The call implements OneNavigation                                       *)
(***************************************************************************)
\* the promise says nothing of messages, of the child's place or of the robot
LEMMA SameGoal == ASSUME goal' = goal PROVE Motion' = Motion
BY DEF Motion

LEMMA SameOutcome == ASSUME adapter'.outcome = adapter.outcome PROVE CallAnswer' = CallAnswer
BY DEF CallAnswer

LEMMA SameCancel ==
  ASSUME adapter' = adapter, node'.cancelRequested = node.cancelRequested
  PROVE  CancelAttempted' = CancelAttempted
BY DEF CancelAttempted

LEMMA Unseen ==
  ASSUME adapter' = adapter, goal' = goal, node'.cancelRequested = node.cancelRequested
  PROVE  UNCHANGED Abstract!vars
BY SameGoal, SameOutcome, SameCancel DEF Abstract!vars

\* an answer is due while the adapter is at work, and no cancel was attempted while it waits or is ready
LEMMA CallIsOpen ==
  ASSUME NavInv
  PROVE  /\ adapter.pc # "done" => CallAnswer = "none"
         /\ adapter.pc \in {"ready", "waiting"} => (CancelAttempted <=> node.cancelRequested)
         /\ goal = "none" => Motion = "none" /\ ~ node.cancelRequested
<1>1. adapter.pc # "done" => adapter.outcome = "none"
  BY DEF NavInv, CallFacts, AdapterAndChild
<1>2. adapter.pc # "done" => CallAnswer = "none"
  BY <1>1 DEF CallAnswer
<1>3. adapter.pc \in {"ready", "waiting"} => (CancelAttempted <=> node.cancelRequested)
  BY <1>1 DEF CancelAttempted
<1>4. goal = "none" => Motion = "none"
  BY DEF Motion
<1>5. goal = "none" => ~ node.cancelRequested
  BY DEF NavInv, CallFacts, NodeRemembers
<1> QED BY <1>2, <1>3, <1>4, <1>5

\* what the child does by itself: at most it asks for the motion, or cancels it
LEMMA ChildMaps == ASSUME NavInv, ChildStep PROVE [Abstract!Next]_Abstract!vars
<1>1. adapter' = adapter /\ CallAnswer' = CallAnswer
  <2>1. adapter' = adapter
    BY DEF ChildStep, ColdClock, RosFails, PreflightPasses, PreflightRejects,
        ServerMissing, SendGoal, GoalAccepted, GoalNotAccepted, HearSafety, HearOdometry,
        WatchUnsafe, WatchTimesOut, WatchEnds, Drained, Settle, ChildCrashes
  <2> QED BY <2>1, SameOutcome
<1>2. child.pc \in Alive => adapter.pc = "waiting" /\ CallAnswer = "none"
  BY CallIsOpen DEF NavInv, CallFacts, AdapterAndChild
<1>3. CASE SendGoal
  <2>1. child.pc \in Alive /\ goal = "none" /\ goal' = "requested" /\ node' = node
    BY <1>3 DEF SendGoal, Alive, NavInv, CallFacts, SentOnce
  <2>2. Motion = "none" /\ ~ CancelAttempted /\ CallAnswer = "none"
    BY <1>2, <2>1, CallIsOpen
  <2>3. Motion' = "asked"
    BY <2>1 DEF Motion
  <2>4. CancelAttempted' = CancelAttempted
    BY <1>1, <2>1, SameCancel
  <2>5. Abstract!Ask
    BY <1>1, <2>2, <2>3, <2>4 DEF Abstract!Ask
  <2> QED BY <2>5 DEF Abstract!Next
<1>4. ASSUME child.pc = "watching", node'.cancelRequested, goal' = goal
      PROVE  Abstract!Cancel
  <2>1. child.pc \in Alive /\ ~ node.cancelRequested
    BY <1>4 DEF Alive, Spinning, NavInv, CallFacts, NodeRemembers
  <2>2. ~ CancelAttempted /\ CallAnswer = "none"
    BY <1>2, <2>1, CallIsOpen
  <2>3. CancelAttempted' = TRUE
    BY <1>4 DEF CancelAttempted
  <2>4. Motion' = Motion
    BY <1>4, SameGoal
  <2>5. adapter'.attempt = adapter.attempt
    BY <1>1
  <2> QED BY <1>1, <2>2, <2>3, <2>4, <2>5 DEF Abstract!Cancel
<1>5. ASSUME NEW forced, NEW heard \in NodeState, Cancel(forced, heard), child.pc = "watching", goal' = goal
      PROVE  Abstract!Next
  <2>1. node'.cancelRequested
    BY <1>5 DEF Cancel, NodeState
  <2>2. Abstract!Cancel
    BY <1>4, <1>5, <2>1
  <2> QED BY <2>2 DEF Abstract!Next
<1>6. node \in NodeState /\ safe \in BOOLEAN
  BY DEF NavInv, NavTypeOK
<1>7. Hear(safe) \in NodeState /\ Hear(safe).cancelRequested = node.cancelRequested
  BY <1>6 DEF Hear, NodeState
<1>8. CASE HearSafety
  <2>1. goal' = goal
    BY <1>8 DEF HearSafety
  <2>2. CASE child.pc = "watching" /\ ~ safe
    <3>1. Cancel("safety_stopped", Hear(safe))
      BY <1>8, <2>2 DEF HearSafety
    <3> QED BY <1>5, <1>7, <2>1, <2>2, <3>1
  <2>3. CASE ~ (child.pc = "watching" /\ ~ safe)
    <3>1. node' = Hear(safe)
      BY <1>8, <2>3 DEF HearSafety
    <3>2. node'.cancelRequested = node.cancelRequested
      BY <1>7, <3>1
    <3> QED BY <1>1, <2>1, <3>2, Unseen
  <2> QED BY <2>2, <2>3
<1>9. CASE WatchUnsafe
  BY <1>5, <1>6, <1>9 DEF WatchUnsafe
<1>10. CASE WatchTimesOut
  BY <1>5, <1>6, <1>10 DEF WatchTimesOut
<1>11. CASE HearOdometry \/ WatchEnds \/ Drained
  <2>1. goal' = goal /\ node'.cancelRequested = node.cancelRequested
    BY <1>6, <1>11 DEF HearOdometry, WatchEnds, Drained, NodeState, world
  <2> QED BY <1>1, <2>1, Unseen
<1>12. CASE \/ ColdClock \/ RosFails \/ PreflightPasses \/ PreflightRejects
            \/ ServerMissing \/ GoalAccepted \/ GoalNotAccepted \/ Settle \/ ChildCrashes
  <2>1. goal' = goal /\ node' = node
    BY <1>12 DEF ColdClock, RosFails, PreflightPasses, PreflightRejects,
        ServerMissing, GoalAccepted, GoalNotAccepted, Settle, ChildCrashes, world
  <2> QED BY <1>1, <2>1, Unseen
<1> QED BY <1>3, <1>8, <1>9, <1>10, <1>11, <1>12 DEF ChildStep

\* Nav2 decides, moves and ends in its own time
LEMMA EnvironmentMaps == ASSUME NavInv, Environment PROVE [Abstract!Next]_Abstract!vars
<1>1. adapter' = adapter /\ node' = node /\ adapter'.attempt = adapter.attempt
      /\ CallAnswer' = CallAnswer /\ CancelAttempted' = CancelAttempted
  <2>1. adapter' = adapter /\ node' = node
    BY DEF Environment, Answer, CancelArrives, GoalEnds, RobotMoves, RobotStops, SafetyChanges,
        DeadlinePasses
  <2> QED BY <2>1, SameOutcome, SameCancel
<1>2. CASE Answer
  <2>1. Motion = "asked" /\ Motion' \in {"running", "refused"}
    BY <1>2 DEF Answer, Motion
  <2>2. Abstract!Decide
    BY <1>1, <2>1 DEF Abstract!Decide
  <2> QED BY <2>2 DEF Abstract!Next
<1>3. CASE CancelArrives
  <2>1. CASE goal = "executing" /\ goal' = "canceling"
    <3>1. Motion = "running" /\ Motion' = "running"
      BY <2>1 DEF Motion
    <3> QED BY <1>1, <3>1 DEF Abstract!vars
  <2>2. CASE goal' = goal
    BY <1>1, <2>2, Unseen
  <2> QED BY <1>3, <2>1, <2>2 DEF CancelArrives
<1>4. CASE GoalEnds
  <2>1. Motion = "running" /\ Motion' \in {"arrived", "ended"}
    BY <1>4 DEF GoalEnds, Motion, Finished
  <2>2. Abstract!End
    BY <1>1, <2>1 DEF Abstract!End
  <2> QED BY <2>2 DEF Abstract!Next
<1>5. CASE RobotMoves \/ RobotStops \/ SafetyChanges \/ DeadlinePasses
  <2>1. goal' = goal
    BY <1>5 DEF RobotMoves, RobotStops, SafetyChanges, DeadlinePasses, world
  <2> QED BY <1>1, <2>1, Unseen
<1> QED BY <1>2, <1>3, <1>4, <1>5 DEF Environment

\* the adapter retries, gives the child up, and answers
LEMMA AdapterMaps == ASSUME NavInv, AdapterStep PROVE [Abstract!Next]_Abstract!vars
<1> USE DEF NavInv, CallFacts
<1>1. goal' = goal /\ Motion' = Motion
  <2>1. goal' = goal
    BY DEF AdapterStep, Launch, LaunchFails, ChildReturns, OuterTimeout, HelperSends, HelperReturns,
        HelperFails, world
  <2> QED BY <2>1, SameGoal
<1>2. adapter \in AdapterState /\ node \in NodeState /\ child \in ChildState
  BY DEF NavTypeOK
\* a step that starts no goal and answers nothing, with or without a cancel
<1>3. ASSUME adapter'.attempt = adapter.attempt, adapter'.outcome = adapter.outcome,
             CancelAttempted => CancelAttempted', adapter.pc # "done"
      PROVE  [Abstract!Next]_Abstract!vars
  <2>1. CallAnswer' = CallAnswer /\ CallAnswer = "none"
    BY <1>3, SameOutcome, CallIsOpen
  <2>2. CASE CancelAttempted' /\ ~ CancelAttempted
    <3>1. Abstract!Cancel
      BY <1>1, <1>3, <2>1, <2>2 DEF Abstract!Cancel
    <3> QED BY <3>1 DEF Abstract!Next
  <2>3. CASE ~ (CancelAttempted' /\ ~ CancelAttempted)
    <3>1. CancelAttempted' = CancelAttempted
      BY <1>3, <2>3 DEF CancelAttempted
    <3> QED BY <1>1, <1>3, <2>1, <3>1 DEF Abstract!vars
  <2> QED BY <2>2, <2>3
<1>4. CASE Launch
  <2>1. adapter.pc = "ready" /\ goal = "none"
    BY <1>4 DEF Launch, SentOnce
  <2>2. ~ CancelAttempted
    BY <2>1, CallIsOpen
  <2>3. adapter'.attempt = adapter.attempt /\ adapter'.outcome = adapter.outcome
    BY <1>2, <1>4 DEF Launch, AdapterState
  <2> QED BY <1>3, <2>1, <2>2, <2>3
<1>5. CASE HelperSends
  <2>1. /\ adapter.pc = "canceling" /\ adapter'.pc = "helping"
        /\ adapter'.attempt = adapter.attempt /\ adapter'.outcome = adapter.outcome
    BY <1>2, <1>5 DEF HelperSends, AdapterState
  <2>2. CancelAttempted'
    BY <2>1 DEF CancelAttempted
  <2> QED BY <1>3, <2>1, <2>2
<1>6. CASE OuterTimeout
  <2>1. /\ adapter.pc = "waiting" /\ adapter'.pc = "canceling"
        /\ adapter'.attempt = adapter.attempt /\ adapter'.outcome = adapter.outcome
    BY <1>2, <1>6 DEF OuterTimeout, AdapterState
  <2>2. CancelAttempted'
    BY <2>1 DEF CancelAttempted
  <2> QED BY <1>3, <2>1, <2>2
\* an answer
<1>7. ASSUME NEW outcome, Return(outcome)
      PROVE  adapter'.outcome = outcome /\ adapter'.attempt = adapter.attempt /\ adapter'.pc = "done"
  BY <1>2, <1>7 DEF Return, AdapterState
<1>8. ASSUME NEW outcome \in ResultStates \cup {"error"}, Return(outcome), node' = node,
             adapter.pc \in {"ready", "waiting"}
      PROVE  /\ CallAnswer = "none" /\ CancelAttempted' = CancelAttempted
             /\ CancelAttempted <=> node.cancelRequested
  <2>1. adapter'.pc = "done" /\ adapter'.outcome = outcome
    BY <1>7, <1>8
  <2>2. CallAnswer = "none" /\ (CancelAttempted <=> node.cancelRequested)
    BY <1>8, CallIsOpen
  <2>3. CancelAttempted' <=> node.cancelRequested
    BY <1>8, <2>1 DEF CancelAttempted, ResultStates
  <2>4. CancelAttempted' = CancelAttempted
    BY <2>2, <2>3 DEF CancelAttempted
  <2> QED BY <2>2, <2>4
<1>9. ASSUME NEW outcome \in {"error", "failed", "unavailable"}, Return(outcome), node' = node,
             adapter.pc \in {"ready", "waiting"}
      PROVE  Abstract!Next
  <2>1. CallAnswer = "none" /\ CancelAttempted' = CancelAttempted
    BY <1>8, <1>9 DEF ResultStates
  <2>2. adapter'.outcome \in {"error", "failed", "unavailable"} /\ adapter'.attempt = adapter.attempt
    BY <1>7, <1>9
  <2>3. CallAnswer' = "unclear"
    BY <2>2 DEF CallAnswer
  <2>4. Abstract!Complain
    BY <1>1, <2>1, <2>2, <2>3 DEF Abstract!Complain, Abstract!Return
  <2> QED BY <2>4 DEF Abstract!Next
<1>10. CASE LaunchFails
  BY <1>9, <1>10 DEF LaunchFails
<1>11. CASE ChildReturns
  <2>1. adapter.pc = "waiting" /\ node' = node
    BY <1>11 DEF ChildReturns
  <2>2. CASE Retried(child.result)
    <3>1. /\ adapter.attempt < 3 /\ goal = "none"
          /\ adapter'.attempt = adapter.attempt + 1 /\ adapter'.pc = "ready"
          /\ adapter'.outcome = adapter.outcome
      BY <1>2, <1>11, <2>2 DEF ChildReturns, Retried, AdapterState, SentOnce
    <3>2. CallAnswer' = CallAnswer /\ CallAnswer = "none" /\ Motion = "none" /\ ~ CancelAttempted
      BY <2>1, <3>1, SameOutcome, CallIsOpen
    <3>3. CancelAttempted' = CancelAttempted
      BY <2>1, <3>1 DEF CancelAttempted
    <3>4. Abstract!Retry
      BY <1>1, <3>1, <3>2, <3>3 DEF Abstract!Retry
    <3> QED BY <3>4 DEF Abstract!Next
  <2>3. CASE Return("error")
    BY <1>9, <2>1, <2>3
  <2>4. CASE child.result \in ResultStates /\ Return(child.result)
    <3>1. /\ adapter'.outcome = child.result /\ adapter'.attempt = adapter.attempt
          /\ CallAnswer = "none" /\ CancelAttempted' = CancelAttempted
          /\ CancelAttempted <=> node.cancelRequested
      BY <1>7, <1>8, <2>1, <2>4
    <3>2. CASE child.result = "succeeded"
      <4>1. goal = "succeeded" /\ ~ node.cancelRequested
        BY <3>2 DEF VerdictHasReason, NodeRemembers
      <4>2. Motion = "arrived" /\ CallAnswer' = "arrived"
        BY <3>1, <3>2, <4>1 DEF Motion, CallAnswer
      <4>3. Abstract!Succeed
        BY <1>1, <3>1, <4>1, <4>2 DEF Abstract!Succeed, Abstract!Return
      <4> QED BY <4>3 DEF Abstract!Next
    <3>3. CASE child.result = "rejected"
      <4>1. goal = "none"
        BY <3>3 DEF SentOnce
      <4>2. Motion = "none" /\ CallAnswer' = "unmoved"
        BY <3>1, <3>3, <4>1 DEF Motion, CallAnswer
      <4>3. Abstract!Decline
        BY <1>1, <3>1, <4>2 DEF Abstract!Decline, Abstract!Return
      <4> QED BY <4>3 DEF Abstract!Next
    <3>4. CASE child.result \in {"canceled", "safety_stopped"}
      <4>1. node.cancelRequested /\ goal \notin {"none", "requested", "refused"}
        BY <3>4 DEF VerdictHasReason, NodeRemembers
      <4>2. goal \in {"executing", "canceling", "succeeded", "aborted", "canceled"}
        BY <4>1 DEF NavTypeOK, Finished
      <4>3. Motion \in {"running", "arrived", "ended"}
        BY <4>2 DEF Motion
      <4>4. CallAnswer' = "canceled"
        BY <3>1, <3>4 DEF CallAnswer
      <4>5. Abstract!Stop
        BY <1>1, <3>1, <4>1, <4>3, <4>4 DEF Abstract!Stop, Abstract!Return
      <4> QED BY <4>5 DEF Abstract!Next
    <3>5. CASE child.result \in {"failed", "unavailable"}
      BY <1>9, <2>1, <2>4, <3>5
    <3> QED BY <2>4, <3>2, <3>3, <3>4, <3>5 DEF ResultStates
  <2> QED BY <1>11, <2>2, <2>3, <2>4 DEF ChildReturns
<1>12. CASE HelperReturns \/ HelperFails
  <2>1. PICK outcome \in {"timeout", "uncanceled"} : Return(outcome)
    BY <1>12 DEF HelperReturns, HelperFails
  <2>2. adapter.pc \in {"canceling", "helping"}
    BY <1>12 DEF HelperReturns, HelperFails
  <2>3. adapter'.outcome \in {"timeout", "uncanceled"} /\ adapter'.attempt = adapter.attempt
    BY <1>7, <2>1
  <2>4. CallAnswer = "none" /\ CancelAttempted
    BY <2>2, CallIsOpen DEF CancelAttempted
  <2>5. CallAnswer' = "abandoned" /\ CancelAttempted'
    BY <2>3 DEF CallAnswer, CancelAttempted
  <2>6. CancelAttempted' = CancelAttempted
    BY <2>4, <2>5 DEF CancelAttempted
  <2>7. Abstract!Abandon
    BY <1>1, <2>3, <2>4, <2>5, <2>6 DEF Abstract!Abandon, Abstract!Return
  <2> QED BY <2>7 DEF Abstract!Next
<1> QED BY <1>4, <1>5, <1>6, <1>10, <1>11, <1>12 DEF AdapterStep

LEMMA CallStartsAbstract == ASSUME NavInit PROVE Abstract!Init
<1>1. adapter.attempt = 1 /\ Motion = "none" /\ CallAnswer = "none"
  BY DEF NavInit, Motion, CallAnswer
<1>2. CancelAttempted = FALSE
  BY DEF NavInit, CancelAttempted, NewNode
<1> QED BY <1>1, <1>2 DEF Abstract!Init

(***************************************************************************)
(* One call of invoke() implements OneNavigation: the robot is asked to    *)
(* move once at most and never after the call has answered or was given    *)
(* up, and the answer is about that motion (adapters.py, invoke;           *)
(* navigation_ros.py, execute_goal).                                       *)
(***************************************************************************)
THEOREM CallImplementsOneNavigation == NavSpec => ImplementsOneNavigation
<1>1. NavInit => Abstract!Init
  BY CallStartsAbstract
<1>2. NavInv /\ [NavNext]_navVars => [Abstract!Next]_Abstract!vars
  <2> SUFFICES ASSUME NavInv, [NavNext]_navVars PROVE [Abstract!Next]_Abstract!vars
    OBVIOUS
  <2>1. CASE UNCHANGED navVars
    <3>1. adapter' = adapter /\ goal' = goal /\ node' = node
      BY <2>1 DEF navVars
    <3> QED BY <3>1, Unseen
  <2> QED BY <2>1, AdapterMaps, ChildMaps, EnvironmentMaps DEF NavNext
<1> QED BY <1>1, <1>2, NavInvariant, PTL DEF NavSpec, ImplementsOneNavigation, Abstract!Spec

(***************************************************************************)
(* What the promise means for Nav2: a call that has answered, has given    *)
(* its child up or has cancelled never sends a goal again, whatever the    *)
(* killed child or the helper left behind (adapters.py:528-532,            *)
(* navigation_ros.py:227-239).                                             *)
(***************************************************************************)
THEOREM NoGoalAfterwards ==
  NavSpec => [][CallAnswer # "none" \/ CancelAttempted => sent' = sent]_navVars
<1>1. ASSUME NavInv, NavNext, sent' # sent
      PROVE  CallAnswer = "none" /\ ~ CancelAttempted
  <2>1. SendGoal
    BY <1>1 DEF NavNext, AdapterStep, Launch, LaunchFails, ChildReturns, OuterTimeout, HelperSends,
                HelperReturns, HelperFails, ChildStep, ColdClock, RosFails,
                PreflightPasses, PreflightRejects, ServerMissing, GoalAccepted, GoalNotAccepted,
                HearSafety, HearOdometry, WatchUnsafe, WatchTimesOut, WatchEnds, Drained, Settle,
                ChildCrashes, Environment, Answer, CancelArrives, GoalEnds, RobotMoves, RobotStops,
                SafetyChanges, DeadlinePasses, world
  <2>2. child.pc = "connecting"
    BY <2>1 DEF SendGoal
  <2>3. adapter.pc = "waiting" /\ goal = "none"
    BY <1>1, <2>2 DEF NavInv, CallFacts, AdapterAndChild, SentOnce, Alive
  <2> QED BY <1>1, <2>3, CallIsOpen
<1>2. NavInv /\ [NavNext]_navVars =>
        [CallAnswer # "none" \/ CancelAttempted => sent' = sent]_navVars
  BY <1>1
<1> QED BY <1>2, NavInvariant, PTL DEF NavSpec
=============================================================================
