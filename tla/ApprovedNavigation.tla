------------------------- MODULE ApprovedNavigation -------------------------
(***************************************************************************)
(* One call of ApprovedNavigationAdapter.invoke, the only Skill adapter    *)
(* that moves the robot by itself: the adapter in the executor's process,  *)
(* the child process navigation_ros it starts (at most three times), the   *)
(* emergency helper cancel_ros, and what they talk to: the Nav2 action     *)
(* server, the semantic safety topic, odometry and the robot.              *)
(*                                                                         *)
(* Time is abstract: a timer that may have run out may do so at any step.  *)
(* The goal, the hashes and the geometry of the path are the environment's *)
(* choice of whether the evidence holds.                                   *)
(***************************************************************************)
EXTENDS Naturals

CONSTANT UseSimTime \* the clock may still be cold when the child starts

ASSUME UseSimTimeAssumption == UseSimTime \in BOOLEAN

VARIABLES
  adapter,    \* where invoke() is: attempt, outcome
  expired,    \* the outer deadline, timeout_sec of the manifest, has passed
  child,      \* where navigation_ros is, and how it exited
  node,       \* the fields of ControlledNavigationNode and of execute_goal
  goal,       \* the goal at the Nav2 server
  sent,       \* how many goals have been sent
  cancel,     \* the last cancel request: on its way to Nav2, refused, or settled
  moving,     \* the robot is moving
  safe,       \* what the semantic safety monitor says
  seen        \* messages delivered to this node: an unsafe one, odometry since the send

navVars == <<adapter, expired, child, node, goal, sent, cancel, moving, safe, seen>>

\* EXIT_CODES that come with a result
ResultStates == {"succeeded", "rejected", "failed", "canceled", "safety_stopped", "unavailable"}

Finished == {"succeeded", "aborted", "canceled"}

\* the phases in which the navigation node exists and its callbacks are served
Spinning == {"preflight", "sending", "watching", "draining", "settling"}

Alive == Spinning \cup {"connecting"}

NewNode ==
  [received |-> FALSE, safetyOk |-> FALSE, remainedOk |-> TRUE, odom |-> "none",
   cancelRequested |-> FALSE, forced |-> "none", status |-> "none"]

NothingSeen == [unsafe |-> FALSE, odom |-> FALSE]

AdapterState ==
  [pc : {"ready", "waiting", "canceling", "helping", "done"}, attempt : 1..3,
   outcome : ResultStates \cup {"none", "error", "timeout", "uncanceled"}]

ChildState ==
  [pc : Alive \cup {"absent", "exited"}, result : ResultStates \cup {"none", "cold", "crashed"}]

NodeState ==
  [received : BOOLEAN, safetyOk : BOOLEAN, remainedOk : BOOLEAN,
   odom : {"none", "moving", "still"}, cancelRequested : BOOLEAN,
   forced : {"none", "canceled", "safety_stopped"}, status : Finished \cup {"none"}]

NavTypeOK ==
  /\ adapter \in AdapterState /\ child \in ChildState /\ node \in NodeState
  /\ goal \in {"none", "requested", "refused", "executing", "canceling"} \cup Finished
  /\ sent \in Nat
  /\ seen \in [unsafe : BOOLEAN, odom : BOOLEAN]
  /\ cancel \in {"none", "sent", "refused"}
  /\ expired \in BOOLEAN /\ moving \in BOOLEAN /\ safe \in BOOLEAN

NavInit ==
  /\ adapter = [pc |-> "ready", attempt |-> 1, outcome |-> "none"]
  /\ child = [pc |-> "absent", result |-> "none"]
  /\ node = NewNode
  /\ goal = "none" /\ sent = 0
  /\ expired = FALSE /\ cancel = "none" /\ moving = FALSE
  /\ safe \in BOOLEAN
  /\ seen = NothingSeen

world == <<goal, sent, cancel, moving, safe>>

-----------------------------------------------------------------------------
(* The adapter *)

Return(outcome) == adapter' = [adapter EXCEPT !.pc = "done", !.outcome = outcome]

\* one round of the attempt loop: start the child, unless no time remains
Launch ==
  /\ adapter.pc = "ready"
  /\ IF expired
       THEN /\ adapter' = [adapter EXCEPT !.pc = "canceling"]
            /\ UNCHANGED <<child, node, seen>>
       ELSE /\ adapter' = [adapter EXCEPT !.pc = "waiting"]
            /\ child' = [pc |-> "preflight", result |-> "none"]
            /\ node' = NewNode
            /\ seen' = NothingSeen
  /\ UNCHANGED <<expired, world>>

\* OSError from the runner
LaunchFails ==
  /\ adapter.pc = "ready" /\ ~ expired
  /\ Return("error")
  /\ UNCHANGED <<expired, child, node, seen, world>>

RetriesAnyFailure(result) == result \in {"cold", "crashed", "failed"} /\ adapter.attempt < 3

RetriesForever(result) == result = "cold"

\* cold_clock_before_motion, and an attempt is left
Retried(result) == result = "cold" /\ adapter.attempt < 3

(***************************************************************************)
(* The child has exited.  A cold clock is retried; otherwise its result is *)
(* returned, or an error when there is none, or when parsing, schema,      *)
(* identity or postcondition checks of the adapter reject it.              *)
(***************************************************************************)
ChildReturns ==
  /\ adapter.pc = "waiting" /\ child.pc = "exited"
  /\ IF Retried(child.result)
       THEN adapter' = [adapter EXCEPT !.pc = "ready", !.attempt = @ + 1]
       ELSE Return("error") \/ (child.result \in ResultStates /\ Return(child.result))
  /\ UNCHANGED <<expired, child, node, seen, world>>

DeadlineCheckedAfterExit ==
  /\ adapter.pc = "waiting" /\ expired /\ child.pc = "exited"
  /\ child' = [child EXCEPT !.pc = "absent"]
  /\ adapter' = [adapter EXCEPT !.pc = "canceling"]
  /\ UNCHANGED <<expired, node, seen, world>>

\* TimeoutExpired: the runner has killed the child
OuterTimeout ==
  /\ adapter.pc = "waiting" /\ expired /\ child.pc \in Alive
  /\ child' = [child EXCEPT !.pc = "absent"]
  /\ adapter' = [adapter EXCEPT !.pc = "canceling"]
  /\ UNCHANGED <<expired, node, seen, world>>

\* _cancel_all_navigation_goals: cancel_ros sends its request ...
HelperSends ==
  /\ adapter.pc = "canceling"
  /\ cancel' = "sent"
  /\ adapter' = [adapter EXCEPT !.pc = "helping"]
  /\ UNCHANGED <<expired, child, node, seen, goal, sent, moving, safe>>

\* ... and exits 0 once the server has answered, whatever the answer is
HelperReturns ==
  /\ adapter.pc = "helping" /\ cancel # "sent"
  /\ Return("timeout")
  /\ UNCHANGED <<expired, child, node, seen, world>>

\* no service, no answer in time, or the helper itself does not run
HelperFails ==
  /\ adapter.pc \in {"canceling", "helping"}
  /\ Return("uncanceled")
  /\ UNCHANGED <<expired, child, node, seen, world>>

AdapterStep ==
  Launch \/ LaunchFails \/ ChildReturns \/ OuterTimeout \/ HelperSends \/ HelperReturns
  \/ HelperFails

-----------------------------------------------------------------------------
(* The child *)

Exit(result) == child' = [pc |-> "exited", result |-> result]
GoOn(pc) == child' = [child EXCEPT !.pc = pc]

\* preview_safe_route refuses a zero clock: an uncaught exception before motion
ColdClock ==
  /\ child.pc = "preflight" /\ UseSimTime
  /\ Exit("cold")
  /\ UNCHANGED <<adapter, expired, node, seen, world>>

(***************************************************************************)
(* A RuntimeError, caught around the whole of _collect_result: evidence or *)
(* the planner is missing, or the middleware fails or is shut down, before *)
(* the goal is sent or after.  The result is an empty one, whatever became *)
(* of the goal, and nothing is cancelled.                                  *)
(***************************************************************************)
RosFails ==
  /\ child.pc \in Alive
  /\ Exit("unavailable")
  /\ UNCHANGED <<adapter, expired, node, seen, world>>

Monitored == node.received /\ node.odom # "none" /\ node.safetyOk /\ node.remainedOk

\* evaluate_preflight, wait_for_monitoring and the last look at safety, all in order
PreflightPasses ==
  /\ child.pc = "preflight" /\ Monitored
  /\ GoOn("connecting")
  /\ UNCHANGED <<adapter, expired, node, seen, world>>

\* one of them is not: no goal is sent
PreflightRejects ==
  /\ child.pc = "preflight"
  /\ Exit("rejected")
  /\ UNCHANGED <<adapter, expired, node, seen, world>>

ServerMissing ==
  /\ child.pc = "connecting"
  /\ Exit("unavailable")
  /\ UNCHANGED <<adapter, expired, node, seen, world>>

\* send_goal_async
SendGoal ==
  /\ child.pc = "connecting"
  /\ GoOn("sending")
  /\ goal' = "requested" /\ sent' = sent + 1
  /\ seen' = [seen EXCEPT !.odom = FALSE]
  /\ UNCHANGED <<adapter, expired, node, cancel, moving, safe>>

GoalAccepted ==
  /\ child.pc = "sending" /\ goal \notin {"none", "requested", "refused"}
  /\ GoOn("watching")
  /\ UNCHANGED <<adapter, expired, node, seen, world>>

\* the server refused, or its answer is not there within 3 s: nothing is cancelled
GoalNotAccepted ==
  /\ child.pc = "sending"
  /\ Exit("failed")
  /\ UNCHANGED <<adapter, expired, node, seen, world>>

NotesCancel(forced, heard) ==
  /\ node' = [heard EXCEPT !.cancelRequested = TRUE, !.forced = forced]
  /\ GoOn("draining")
  /\ UNCHANGED cancel

\* cancel_goal_async; the loop is left to wait up to 2 s for the result
Cancel(forced, heard) ==
  /\ node' = [heard EXCEPT !.cancelRequested = TRUE, !.forced = forced]
  /\ cancel' = "sent"
  /\ GoOn("draining")

ForgetsUnsafe(heard) == [node EXCEPT !.received = TRUE, !.safetyOk = heard]

\* _on_safety
Hear(verdict) ==
  [node EXCEPT !.received = TRUE, !.safetyOk = verdict, !.remainedOk = @ /\ verdict]

(***************************************************************************)
(* A message of the safety monitor reaches the node.  In the watch loop it *)
(* is looked at before the next one; elsewhere it is only recorded.        *)
(***************************************************************************)
HearSafety ==
  /\ child.pc \in Spinning
  /\ seen' = [seen EXCEPT !.unsafe = @ \/ ~ safe]
  /\ IF child.pc = "watching" /\ ~ safe
       THEN Cancel("safety_stopped", Hear(safe))
       ELSE node' = Hear(safe) /\ UNCHANGED <<child, cancel>>
  /\ UNCHANGED <<adapter, expired, goal, sent, moving, safe>>

\* _on_odom: the speeds are below the stop thresholds or not
HearOdometry ==
  /\ child.pc \in Spinning
  /\ node' = [node EXCEPT !.odom = IF moving THEN "moving" ELSE "still"]
  /\ seen' = [seen EXCEPT !.odom = TRUE]
  /\ UNCHANGED <<adapter, expired, child, world>>

\* the loop starts with an unsafe message that came while the goal was being sent
WatchUnsafe ==
  /\ child.pc = "watching" /\ ~ node.safetyOk
  /\ Cancel("safety_stopped", node)
  /\ UNCHANGED <<adapter, expired, seen, goal, sent, moving, safe>>

TimesOutWithoutCancel ==
  /\ child.pc = "watching" /\ node.safetyOk
  /\ node' = [node EXCEPT !.forced = "canceled"]
  /\ GoOn("draining")
  /\ UNCHANGED <<adapter, expired, seen, world>>

\* NAVIGATION_TIMEOUT_SEC; or the middleware is shut down and the request does not raise (RosFails)
WatchTimesOut ==
  /\ child.pc = "watching" /\ node.safetyOk
  /\ Cancel("canceled", node)
  /\ UNCHANGED <<adapter, expired, seen, goal, sent, moving, safe>>

\* the result of the goal has arrived
WatchEnds ==
  /\ child.pc = "watching" /\ goal \in Finished
  /\ node' = [node EXCEPT !.status = goal]
  /\ GoOn("settling")
  /\ UNCHANGED <<adapter, expired, seen, world>>

\* after a cancel the result may or may not arrive in time
Drained ==
  /\ child.pc = "draining"
  /\ \E status \in {"none"} \cup ({goal} \cap Finished) : node' = [node EXCEPT !.status = status]
  /\ GoOn("settling")
  /\ UNCHANGED <<adapter, expired, seen, world>>

\* the part of the postconditions that callbacks decide
Postcondition == node.received /\ node.remainedOk /\ node.safetyOk /\ node.odom = "still"

(***************************************************************************)
(* The end of execute_goal and finalize_navigation_result.  Pose, heading  *)
(* and the keepout test of the trajectory (geometry) may go either way.    *)
(***************************************************************************)
Verdict(geometry) ==
  CASE node.forced # "none" -> node.forced
    [] node.forced = "none" /\ node.status = "succeeded" /\ geometry /\ Postcondition -> "succeeded"
    [] OTHER -> "failed"

Settle ==
  /\ child.pc = "settling"
  /\ \E geometry \in BOOLEAN : Exit(Verdict(geometry))
  /\ UNCHANGED <<adapter, expired, node, seen, world>>

\* an exception nobody catches, an invalid request, or a signal
ChildCrashes ==
  /\ child.pc \in Alive
  /\ Exit("crashed")
  /\ UNCHANGED <<adapter, expired, node, seen, world>>

ChildStep ==
  \/ ColdClock \/ RosFails \/ PreflightPasses \/ PreflightRejects
  \/ ServerMissing \/ SendGoal \/ GoalAccepted \/ GoalNotAccepted
  \/ HearSafety \/ HearOdometry \/ WatchUnsafe \/ WatchTimesOut \/ WatchEnds
  \/ Drained \/ Settle \/ ChildCrashes

-----------------------------------------------------------------------------
(* Nav2, the robot and the clock *)

Answer ==
  /\ goal = "requested"
  /\ goal' \in {"executing", "refused"}
  /\ UNCHANGED <<adapter, expired, child, node, seen, sent, cancel, moving, safe>>

(***************************************************************************)
(* A cancel request finds the goals the server knows.  The server heeds it *)
(* or refuses it (or it was lost with the node that sent it); neither the  *)
(* node nor the helper looks at the answer.                                *)
(***************************************************************************)
CancelArrives ==
  /\ cancel = "sent"
  /\ \/ goal = "executing" /\ goal' = "canceling" /\ cancel' = "none"
     \/ goal = "executing" /\ goal' = goal /\ cancel' = "refused"
     \/ goal # "executing" /\ goal' = goal /\ cancel' = "none"
  /\ UNCHANGED <<adapter, expired, child, node, seen, sent, moving, safe>>

GoalEnds ==
  /\ \/ goal = "executing" /\ goal' \in {"succeeded", "aborted"}
     \/ goal = "canceling" /\ goal' \in Finished
  /\ UNCHANGED <<adapter, expired, child, node, seen, sent, cancel, moving, safe>>

RobotMoves ==
  /\ goal \in {"executing", "canceling"} /\ ~ moving
  /\ moving' = TRUE
  /\ UNCHANGED <<adapter, expired, child, node, seen, goal, sent, cancel, safe>>

RobotStops ==
  /\ moving
  /\ moving' = FALSE
  /\ UNCHANGED <<adapter, expired, child, node, seen, goal, sent, cancel, safe>>

SafetyChanges ==
  /\ safe' = ~ safe
  /\ UNCHANGED <<adapter, expired, child, node, seen, goal, sent, cancel, moving>>

DeadlinePasses ==
  /\ ~ expired
  /\ expired' = TRUE
  /\ UNCHANGED <<adapter, child, node, seen, world>>

Environment ==
  Answer \/ CancelArrives \/ GoalEnds \/ RobotMoves \/ RobotStops \/ SafetyChanges
  \/ DeadlinePasses

NavNext == AdapterStep \/ ChildStep \/ Environment

NavSpec == NavInit /\ [][NavNext]_navVars

(***************************************************************************)
(* The executor waits in the runner with a timeout.  For the robot to stop *)
(* the safety topic must get through, Nav2 must answer requests and end a  *)
(* goal it has begun to cancel, and the robot must brake once it has no    *)
(* goal.  Nothing is assumed of the rest of the child.                     *)
(***************************************************************************)
Fairness ==
  /\ WF_navVars(AdapterStep) /\ WF_navVars(DeadlinePasses)
  /\ WF_navVars(HearSafety) /\ WF_navVars(CancelArrives)
  /\ WF_navVars(goal = "canceling" /\ GoalEnds)
  /\ WF_navVars(goal \notin {"executing", "canceling"} /\ RobotStops)

FairNavSpec == NavSpec /\ Fairness

-----------------------------------------------------------------------------
(***************************************************************************)
(* Retrying never repeats a motion: whatever fails, one call of invoke()   *)
(* sends at most one goal, and a retry starts before any goal was sent     *)
(* (adapters.py:516-549; skills/navigate_to_approved_pose/SKILL.md).       *)
(***************************************************************************)
AtMostOneGoal ==
  /\ sent <= 1
  /\ adapter.pc = "ready" \/ child.pc = "preflight" => sent = 0

(***************************************************************************)
(* A success is a motion that ended well: Nav2 finished the one goal,      *)
(* nobody cancelled it, and no unsafe message was ever delivered to the    *)
(* node, not even one that was overtaken by a safe one before the watch    *)
(* loop began (navigation_ros.py:166; navigation.py:158).                  *)
(***************************************************************************)
SuccessIsEarned ==
  adapter.outcome = "succeeded" =>
    /\ sent = 1 /\ goal = "succeeded"
    /\ ~ node.cancelRequested
    /\ ~ seen.unsafe

(***************************************************************************)
(* A call that ends with any of these verdicts leaves no goal that runs    *)
(* unasked: either none was sent, or it has ended, or Nav2 is about to     *)
(* hear a request to cancel it or has refused one                          *)
(* (navigation_ros.py:256-281).  Nothing of the kind holds of "failed" and *)
(* "unavailable": the goal may be accepted after the child gave it up.     *)
(***************************************************************************)
VerdictLeavesNoGoal ==
  adapter.outcome \in {"succeeded", "rejected", "canceled", "safety_stopped"} =>
    goal \notin {"requested", "executing"} \/ cancel \in {"sent", "refused"}

(***************************************************************************)
(* How a call shows the one of OneNavigation.  The child cancels by itself *)
(* (cancelRequested); the adapter does when it has given the child up.     *)
(***************************************************************************)
Motion ==
  CASE goal = "requested" -> "asked"
    [] goal \in {"executing", "canceling"} -> "running"
    [] goal = "succeeded" -> "arrived"
    [] goal \in {"aborted", "canceled"} -> "ended"
    [] OTHER -> goal

CancelAttempted ==
  \/ node.cancelRequested
  \/ adapter.pc \in {"canceling", "helping"}
  \/ adapter.outcome \in {"timeout", "uncanceled"}

CallAnswer ==
  CASE adapter.outcome = "none" -> "none"
    [] adapter.outcome = "succeeded" -> "arrived"
    [] adapter.outcome = "rejected" -> "unmoved"
    [] adapter.outcome \in {"canceled", "safety_stopped"} -> "canceled"
    [] adapter.outcome \in {"timeout", "uncanceled"} -> "abandoned"
    [] OTHER -> "unclear"

Abstract == INSTANCE OneNavigation WITH
  Attempts <- 3,
  attempt <- adapter.attempt, motion <- Motion,
  canceled <- CancelAttempted, answer <- CallAnswer

(***************************************************************************)
(* One call of invoke(), its child, helper and Nav2 implement that promise *)
(* (adapters.py:516-549, navigation_ros.py:215-300): however timeouts,     *)
(* crashes and late answers interleave, no goal is sent once the call has  *)
(* answered or was given up, and an answer that speaks of the goal tells   *)
(* what became of it; "failed" and "unavailable" say nothing about it.     *)
(***************************************************************************)
ImplementsOneNavigation == Abstract!Spec

\* invoke() ends, even when the child hangs: the outer timeout kills it (adapters.py:527).
InvokeReturns == <>(adapter.pc = "done")

(***************************************************************************)
(* Unsafe evidence stops the robot.  If the monitor says unsafe while the  *)
(* goal is watched, and does not take it back, the goal ends and the robot *)
(* stands, however the child hangs or is killed, unless an exception ends  *)
(* the watch, Nav2 refuses the cancel, or the emergency cancel fails       *)
(* (navigation_ros.py:266-281, adapters.py:527-532).                       *)
(***************************************************************************)
UnsafeStopsRobot ==
  (child.pc = "watching" /\ ~ safe) ~>
    \/ safe
    \/ goal \in Finished /\ ~ moving
    \/ child.result \in {"crashed", "unavailable"}
    \/ cancel = "refused" \/ adapter.outcome = "uncanceled"

(***************************************************************************)
(* SKILL.md: during motion the Skill monitors safety, and unsafe evidence  *)
(* or timeout causes cancellation.  So while the robot moves towards the   *)
(* goal somebody watches it or has asked to cancel it, unless the child    *)
(* died of an exception or the call has reported that it could not.        *)
(***************************************************************************)
MotionIsAttended ==
  goal = "executing" /\ moving =>
    \/ child.pc \in Alive
    \/ cancel # "none" \/ adapter.pc \in {"canceling", "helping"}
    \/ child.result \in {"crashed", "unavailable"}
    \/ adapter.outcome \in {"error", "uncanceled"}

(***************************************************************************)
(* SKILL.md: success requires a verified stopped robot.  So a success      *)
(* rests on odometry that arrived after the goal was sent.                 *)
(***************************************************************************)
StopIsVerified == child.result = "succeeded" => seen.odom
=============================================================================
