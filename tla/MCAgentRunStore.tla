-------------------------- MODULE MCAgentRunStore --------------------------
(* Two runs competing for two trace ids, and two plans.                    *)
EXTENDS AgentRunStore, TLC

CONSTANTS r1, r2, t1, t2, p1, p2

MCRunId == {r1, r2}
MCTraceId == {t1, t2}
MCPlan == {p1, p2}

Symmetry == Permutations(MCRunId) \cup Permutations(MCTraceId) \cup Permutations(MCPlan)
=============================================================================
