---------------------------- MODULE MCAgentLoops ----------------------------
(***************************************************************************)
(* Two read-only loops and a diagnosis loop on one database with two run   *)
(* identifiers, and an experiment that may be recorded anew.               *)
(***************************************************************************)
EXTENDS AgentLoops, TLC

CONSTANTS a1, a2, d1, r1, r2, t1, t2

MCReadOnlyLoop == {a1, a2}
MCDiagnosisLoop == {d1}
MCRunId == {r1, r2}
MCTraceId == {t1, t2}

\* a plan to execute: its steps, and whether the knowledge query has outer blanks
MCPlan ==
  { [steps |-> <<"check_robot_health", "other_read_only">>, padded |-> FALSE],
    [steps |-> <<"check_robot_health", "navigate_to_approved_pose">>, padded |-> FALSE],
    [steps |-> ToolOrder, padded |-> FALSE],
    [steps |-> ToolOrder, padded |-> TRUE] }

Symmetry == Permutations(MCReadOnlyLoop) \cup Permutations(MCRunId) \cup Permutations(MCTraceId)
=============================================================================
