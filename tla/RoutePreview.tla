---------------------------- MODULE RoutePreview ----------------------------
(***************************************************************************)
(* The read-only evidence about a route: the semantic map file and its     *)
(* query (robot_semantic_skills/query.py), and the preview that reads the  *)
(* map, then the cost map, then a path (robot_navigation_skills).  Others  *)
(* rewrite the map meanwhile, and the cost map follows it late.  A hash is *)
(* the version it identifies; geometry is the constants Clear and Reaches. *)
(***************************************************************************)
EXTENDS Integers

CONSTANTS
  Path,          \* plans Nav2 may return
  Reaches,       \* those that end within 0.25 m of the goal
  Clear,         \* <<path, version>>: the path keeps out of that version's zone
  Near,          \* <<costmap, version>>: the drawn zone covers that version's centre
  MaxMapVersion,
  PreviewAttempts

ASSUME PreviewAssumption ==
  /\ Reaches \subseteq Path
  /\ MaxMapVersion \in Nat \ {0}
  /\ PreviewAttempts \in Nat \ {0}
  /\ Clear \subseteq Path \X (1..MaxMapVersion)
  /\ Near \subseteq (1..MaxMapVersion) \X (1..MaxMapVersion)

VARIABLES
  mapFile, \* the semantic map: what reading it gives, and its version
  costmap, \* the version drawn in the global cost map
  child    \* the preview being collected

previewVars == <<mapFile, costmap, child>>

NoPath == "no path"

Idle == [pc |-> "off", attempt |-> 0, map |-> 0, lethal |-> FALSE, path |-> NoPath]

PreviewTypeOK ==
  /\ mapFile \in [state : {"ok", "foreign_frame", "missing", "corrupt", "no_record", "bad_record"},
                  version : 1..MaxMapVersion]
  /\ costmap \in 1..MaxMapVersion
  /\ child \in [pc : {"off", "read", "clock", "cost", "plan", "done"},
                attempt : 0..PreviewAttempts, map : 0..MaxMapVersion,
                lethal : BOOLEAN, path : Path \cup {NoPath}]

PreviewInit ==
  /\ mapFile \in [state : {"ok", "missing"}, version : {1}]
  /\ costmap = 1
  /\ child = Idle

-----------------------------------------------------------------------------
(***************************************************************************)
(* The environment: another program rewrites, tears or removes the map,    *)
(* and the cost map takes over the zone of the map as it is                *)
(***************************************************************************)
MapIsRewritten ==
  /\ mapFile.version < MaxMapVersion
  /\ \E s \in {"ok", "foreign_frame", "missing", "corrupt", "no_record", "bad_record"} :
       mapFile' = [state |-> s, version |-> mapFile.version + 1]
  /\ UNCHANGED <<costmap, child>>

CostmapFollows ==
  /\ mapFile.state = "ok" /\ costmap # mapFile.version
  /\ costmap' = mapFile.version
  /\ UNCHANGED <<mapFile, child>>

-----------------------------------------------------------------------------
(***************************************************************************)
(* query_semantic_target: the state and the content hash, 0 for none       *)
(***************************************************************************)
ReadDocument ==
  IF mapFile.state = "missing" THEN "unavailable"
  ELSE IF mapFile.state = "corrupt" THEN "invalid" ELSE "parsed"

NormalizeLandmark ==
  IF mapFile.state = "no_record" THEN "not_found"
  ELSE IF mapFile.state = "bad_record" THEN "invalid" ELSE "found"

QueryState == IF ReadDocument = "parsed" THEN NormalizeLandmark ELSE ReadDocument

SourceHash == IF ReadDocument = "parsed" THEN mapFile.version ELSE 0

\* SemanticTargetQueryAdapter.invoke returns; it alone looks at the frame
QueryReturns(state) ==
  /\ QueryState = state
  /\ state = "found" => mapFile.state # "foreign_frame"

-----------------------------------------------------------------------------
(***************************************************************************)
(* Collecting a preview: preview_ros.main and, for the navigation child,   *)
(* _fresh_preview, which take the same steps                               *)
(***************************************************************************)
StartPreview == child.pc = "off" /\ child' = [Idle EXCEPT !.pc = "read", !.attempt = 1]

ReadMap(next) ==
  /\ child.pc = "read" /\ QueryState = "found"
  /\ child' = [child EXCEPT !.pc = next, !.map = SourceHash]

ClockIsThere == child.pc = "clock" /\ child' = [child EXCEPT !.pc = "cost"]

\* _query_global_cost and _cost_at: is the zone's centre lethal?
QueryGlobalCost ==
  /\ child.pc = "cost"
  /\ child' = [child EXCEPT !.pc = "plan",
       !.lethal = costmap = child.map \/ <<costmap, child.map>> \in Near]

\* _request_path: the planner returns a path
RequestPath(p) ==
  /\ child.pc = "plan"
  /\ child' = [child EXCEPT !.pc = "done", !.path = p]

\* SafeRoutePreviewAdapter: only a cold ROS clock is tried again
ColdClock ==
  /\ child.pc = "clock" /\ child.attempt < PreviewAttempts
  /\ child' = [Idle EXCEPT !.pc = "read", !.attempt = child.attempt + 1]

\* unavailable, invalid or unsafe for want of evidence
PreviewRefuses ==
  \/ child.pc = "read" /\ QueryState # "found"
  \/ child.pc = "clock" /\ child.attempt = PreviewAttempts
  \/ child.pc \in {"cost", "plan", "done"}

\* measure_path against the zone that was read
Intersects == <<child.path, child.map>> \notin Clear

\* preview_safe_route: the three reasons against a path
SafeToExecute ==
  /\ child.pc = "done"
  /\ child.lethal
  /\ ~Intersects
  /\ child.path \in Reaches
=============================================================================
