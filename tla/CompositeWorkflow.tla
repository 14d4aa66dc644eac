-------------------------- MODULE CompositeWorkflow --------------------------
(***************************************************************************)
(* robot_composite_skills/workflows.py: one call of invoke() that takes    *)
(* its evidence stage by stage and ends in a navigation, with the child    *)
(* process of that navigation taking the evidence once more.  How a goal   *)
(* is watched is ApprovedNavigation's subject; here Nav2 decides on it in  *)
(* its own time, even after the call has ended.  Neither the health stage  *)
(* reads the map nor the other stages the node, so the environment moves   *)
(* in one of them only.                                                    *)
(***************************************************************************)
EXTENDS RobotHealth, RoutePreview, Sequences

VARIABLES
  flow, \* the call of invoke()
  nav   \* the navigation child, and its goal at Nav2

workflowVars == <<flow, nav, healthVars, previewVars>>

Observe == "observe_and_avoid_water_risk"
ReturnHome == "return_home_safely"

\* the fixed evidence order of each mode
StageOrder(mode) ==
  <<"check_robot_health">>
    \o (IF mode = Observe THEN <<"observe_water_risk">> ELSE <<>>)
    \o <<"query_semantic_target", "preview_safe_route", "navigate_to_approved_pose">>

NoApproval == [path |-> NoPath, map |-> 0]

Unstarted == [pc |-> "none", health |-> "none", goal |-> "unsent"]

Pending == [state |-> "none", reached |-> FALSE, motion |-> FALSE]

\* the child at work, and the ways it ends
Working == {"evidence", "goal", "watching"}
Ended == {"rejected", "refused", "unanswered", "watched", "unavailable", "raised"}

FlowTypeOK ==
  /\ HealthTypeOK /\ PreviewTypeOK
  /\ flow.mode \in {Observe, ReturnHome}
  /\ flow.observed \in 0..MaxMapVersion
  /\ flow.approved \in [path : Path \cup {NoPath}, map : 0..MaxMapVersion]
  /\ \E n \in 0..5 : flow.steps = SubSeq(StageOrder(flow.mode), 1, n)
  /\ flow.result \in [state : {"none", "succeeded", "failed", "aborted"},
                      reached : BOOLEAN, motion : BOOLEAN]
  /\ flow.stage = "returned" <=> flow.result.state # "none"
  /\ nav \in [pc : {"none"} \cup Working \cup Ended,
              health : {"none", "healthy", "degraded", "unsafe"},
              goal : {"unsent", "sent", "accepted", "rejected"}]

FlowInit ==
  /\ HealthInit /\ PreviewInit
  /\ nav = Unstarted
  /\ \E mode \in {Observe, ReturnHome} :
       flow = [mode |-> mode, stage |-> "start", steps |-> <<>>, observed |-> 0,
               approved |-> NoApproval, result |-> Pending]

At(stage) == flow.stage = stage

\* _step, and the name of the stage the next one takes its evidence in
Step(name, next) ==
  flow' = [flow EXCEPT !.steps = Append(@, name), !.stage = next]

\* _step with a status that is not "pass", and _result
Stop(name, reached, motion) ==
  flow' = [flow EXCEPT !.steps = Append(@, name), !.stage = "returned",
    !.result = [state |-> IF reached THEN "succeeded" ELSE "aborted",
                reached |-> reached, motion |-> motion]]

\* except RuntimeError: motion_sent is only known once navigation returned
Fail == flow' = [flow EXCEPT !.stage = "returned",
                             !.result = [Pending EXCEPT !.state = "failed"]]

-----------------------------------------------------------------------------
(***************************************************************************)
(* The stages of invoke()                                                  *)
(***************************************************************************)
InvokeHealth ==
  /\ At("start")
  /\ StartCollecting
  /\ flow' = [flow EXCEPT !.stage = "health"]
  /\ UNCHANGED <<nav, previewVars>>

HealthPassesUnobserved ==
  /\ At("health") /\ Evaluate("healthy")
  /\ Step("check_robot_health", "query")
  /\ UNCHANGED <<nav, previewVars>>

HealthPasses ==
  /\ At("health") /\ Evaluate("healthy")
  /\ Step("check_robot_health", IF flow.mode = Observe THEN "observe" ELSE "query")
  /\ UNCHANGED <<nav, previewVars>>

HealthBlocks ==
  /\ At("health") /\ (Evaluate("unsafe") \/ Evaluate("degraded"))
  /\ Stop("check_robot_health", FALSE, FALSE)
  /\ UNCHANGED <<nav, previewVars>>

\* the observer captures, reasons, projects and rewrites the map
ObservationUpdates ==
  /\ At("observe") /\ mapFile.version < MaxMapVersion
  /\ mapFile' = [state |-> "ok", version |-> mapFile.version + 1]
  /\ flow' = [flow EXCEPT !.steps = Append(@, "observe_water_risk"), !.stage = "query",
                          !.observed = mapFile.version + 1]
  /\ UNCHANGED <<nav, healthVars, costmap, child>>

Query ==
  /\ At("query")
  /\ IF QueryState = "found"
       THEN QueryReturns("found") /\ Step("query_semantic_target", "preview")
       ELSE Stop("query_semantic_target", FALSE, FALSE)
  /\ UNCHANGED <<nav, healthVars, previewVars>>

InvokePreview ==
  /\ At("preview") /\ StartPreview
  /\ UNCHANGED <<flow, nav, healthVars, mapFile, costmap>>

\* one step of the preview's process, or of the child's fresh preview
CollectPreview ==
  /\ \/ At("preview") /\ (ReadMap("clock") \/ ClockIsThere \/ ColdClock)
     \/ nav.pc = "evidence" /\ ReadMap("cost")
     \/ /\ At("preview") \/ nav.pc = "evidence"
        /\ QueryGlobalCost \/ \E p \in Path : RequestPath(p)
  /\ UNCHANGED <<flow, nav, healthVars, mapFile, costmap>>

\* the hashes of this very preview become the approved ones
PreviewPasses ==
  /\ At("preview") /\ SafeToExecute
  /\ flow' = [flow EXCEPT !.steps = Append(@, "preview_safe_route"), !.stage = "navigate",
                          !.approved = [path |-> child.path, map |-> child.map]]
  /\ child' = Idle
  /\ UNCHANGED <<nav, healthVars, mapFile, costmap>>

PreviewBlocks ==
  /\ At("preview") /\ PreviewRefuses /\ ~SafeToExecute
  /\ Stop("preview_safe_route", FALSE, FALSE)
  /\ child' = Idle
  /\ UNCHANGED <<nav, healthVars, mapFile, costmap>>

\* an adapter raises: no process, no JSON, a broken schema, or its time is up
StageRaises ==
  /\ \/ At("health") /\ CollectionDies
     \/ (At("observe") \/ At("query") \/ At("preview")) /\ UNCHANGED healthVars
  /\ Fail
  /\ child' = Idle
  /\ UNCHANGED <<nav, mapFile, costmap>>

-----------------------------------------------------------------------------
(***************************************************************************)
(* The navigation child: _collect_result                                   *)
(***************************************************************************)
\* its own health collection is the machine above and gives any verdict,
\* which evaluate_preflight looks at last
InvokeNavigation ==
  /\ At("navigate") /\ nav.pc = "none"
  /\ \E v \in {"healthy", "degraded", "unsafe"} :
       nav' = [nav EXCEPT !.pc = "evidence", !.health = v]
  /\ StartPreview
  /\ UNCHANGED <<flow, healthVars, mapFile, costmap>>

NavigationEnds(how) ==
  /\ nav' = [nav EXCEPT !.pc = how]
  /\ UNCHANGED <<healthVars, previewVars>>

\* the child's result, of which only these two fields are read
NavigationStops(how, reached, motion) ==
  /\ Stop("navigate_to_approved_pose", reached, motion)
  /\ NavigationEnds(how)

(***************************************************************************)
(* A RuntimeError anywhere in the child, or no Nav2 server: the result is  *)
(* "unavailable" and empty, though the goal may be sent, or accepted.      *)
(***************************************************************************)
RosFails == nav.pc \in Working /\ NavigationStops("unavailable", FALSE, FALSE)

PreflightIgnoresMap ==
  /\ nav.health = "healthy"
  /\ SafeToExecute
  /\ child.path = flow.approved.path

\* evaluate_preflight
PreflightAllows ==
  /\ nav.health = "healthy"
  /\ SafeToExecute
  /\ child.path = flow.approved.path
  /\ child.map = flow.approved.map

\* wait_for_monitoring: live evidence is there and safe, then the goal is sent
SendGoal ==
  /\ nav.pc = "evidence" /\ PreflightAllows
  /\ nav' = [nav EXCEPT !.pc = "goal", !.goal = "sent"]
  /\ UNCHANGED <<flow, healthVars, previewVars>>

\* refused by the preflight, or by the monitors it cannot see
RejectGoal == nav.pc = "evidence" /\ child.pc = "done" /\ NavigationStops("rejected", FALSE, FALSE)

\* Nav2 decides whenever it will, whoever still waits for it
Nav2Answers ==
  /\ nav.goal = "sent"
  /\ \E a \in {"accepted", "rejected"} : nav' = [nav EXCEPT !.goal = a]
  /\ UNCHANGED <<flow, healthVars, previewVars>>

\* goal_accepted
AnswerArrives ==
  /\ nav.pc = "goal" /\ nav.goal = "accepted"
  /\ nav' = [nav EXCEPT !.pc = "watching"]
  /\ UNCHANGED <<flow, healthVars, previewVars>>

\* the answer is a refusal, or none has arrived within 3 s; nothing is cancelled
GoalNotAccepted ==
  /\ nav.pc = "goal"
  /\ \/ nav.goal = "rejected" /\ NavigationStops("refused", FALSE, FALSE)
     \/ NavigationStops("unanswered", FALSE, FALSE)

NavigationReturnsMute ==
  nav.pc = "watching" /\ \E reached \in BOOLEAN : NavigationStops("watched", reached, reached)

\* the motion was watched to its end: motion_command_sent is goal_accepted
NavigationReturns ==
  nav.pc = "watching" /\ \E reached \in BOOLEAN : NavigationStops("watched", reached, TRUE)

\* the child dies or is out of time, whether it has sent the goal or not
NavigationRaises ==
  /\ nav.pc \in Working
  /\ Fail
  /\ NavigationEnds("raised")

-----------------------------------------------------------------------------
CollectHealth ==
  /\ Collect
  /\ UNCHANGED <<flow, nav, previewVars>>

Environment ==
  /\ node.pc = "off" /\ ~At("start") /\ ~At("returned") /\ nav.goal = "unsent"
  /\ MapIsRewritten \/ CostmapFollows
  /\ UNCHANGED <<flow, nav, healthVars>>

Invoke ==
  \/ InvokeHealth \/ HealthPasses \/ HealthBlocks \/ ObservationUpdates \/ Query
  \/ InvokePreview \/ PreviewPasses \/ PreviewBlocks \/ StageRaises

Navigate ==
  \/ InvokeNavigation \/ RosFails \/ SendGoal \/ RejectGoal \/ Nav2Answers
  \/ AnswerArrives \/ GoalNotAccepted \/ NavigationReturns \/ NavigationRaises

FlowNext == Invoke \/ Navigate \/ CollectHealth \/ CollectPreview \/ Environment

FlowSpec == FlowInit /\ [][FlowNext]_workflowVars

-----------------------------------------------------------------------------
(***************************************************************************)
(* Properties                                                              *)
(***************************************************************************)

(***************************************************************************)
(* A goal is sent only on evidence that agrees (workflows.py invoke and    *)
(* evaluate_preflight): every stage of the mode has passed in its order,   *)
(* the map the child read is the one the approved path was previewed       *)
(* against however often it was rewritten, that path keeps out of its zone *)
(* and the zone is in the cost map, and after an observation the map is no *)
(* older than what the observation wrote.                                  *)
(***************************************************************************)
MotionIsGrounded ==
  nav.goal # "unsent" =>
    /\ nav.health = "healthy"
    /\ \E n \in {Len(StageOrder(flow.mode)) - 1, Len(StageOrder(flow.mode))} :
         flow.steps = SubSeq(StageOrder(flow.mode), 1, n)
    /\ child.map = flow.approved.map
    /\ child.path = flow.approved.path
    /\ <<child.path, child.map>> \in Clear
    /\ child.lethal
    /\ flow.mode = Observe => flow.observed > 0 /\ child.map >= flow.observed

(***************************************************************************)
(* What a result lets its reader conclude about the motion, also when Nav2 *)
(* accepts the goal after the call has ended (workflows.py 275-301,        *)
(* navigation_ros.py 240-255 and 451-478).  A motion it claims was         *)
(* accepted, and success claims one.  A motion it denies can still happen  *)
(* only if navigation raised, and then the state is "failed" and no        *)
(* navigation step is listed, or if the child stopped waiting for Nav2 or  *)
(* ROS failed under it, and then the state is "aborted" with that step.    *)
(***************************************************************************)
MayMove == nav.goal \in {"sent", "accepted"}

ResultAdmitsMotion ==
  At("returned") =>
    /\ flow.result.reached => flow.result.motion
    /\ flow.result.motion => nav.goal = "accepted"
    /\ MayMove /\ ~flow.result.motion =>
         \/ /\ nav.pc = "raised" /\ flow.result.state = "failed"
            /\ Len(flow.steps) = Len(StageOrder(flow.mode)) - 1
         \/ /\ nav.pc \in {"unanswered", "unavailable"} /\ flow.result.state = "aborted"
            /\ Len(flow.steps) = Len(StageOrder(flow.mode))

(***************************************************************************)
(* A verdict "healthy" speaks of the recent robot: it was safe by the      *)
(* topic at a moment of this collection, and by the diagnostic at one no   *)
(* older than max_diagnostic_age_sec, in whatever order messages came and  *)
(* however long the rest took to collect (health.py 140-185).              *)
(***************************************************************************)
HealthyIsRecent ==
  [][Evaluate("healthy") =>
       /\ \E t \in (now - CollectionTimeout)..now : safe[t]
       /\ \E t \in (now - MaxDiagnosticAge)..now : safe[t]]_node
=============================================================================
