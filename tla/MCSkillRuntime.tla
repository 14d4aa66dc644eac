--------------------------- MODULE MCSkillRuntime ---------------------------
(***************************************************************************)
(* Two executors and one released Skill, read-only or controlled.  The     *)
(* invocations collide on purpose: the same run with other inputs, the     *)
(* same approval under another run, a missing approval, a wrong hash.      *)
(***************************************************************************)
EXTENDS SkillRuntime, TLC

CONSTANTS e1, e2, s1, h1, h2, readOnly, controlled, k1, r1, r2, t1, t2, a1, in1, in2

MCExecutor == {e1, e2}
MCSkill == {s1}
MCHash == {h1, h2}
MCManifest == {readOnly, controlled}
MCControlled == {controlled}
MCKey == {k1}
MCRunId == {r1, r2}
MCTraceId == {t1, t2}
MCApprovalId == {a1}
MCInputs == {in1, in2}
MCPlan == [skill : MCSkill, hash : MCHash, inputs : MCInputs]

Invoke(r, t, h, i, a) ==
  [run |-> r, trace |-> t, skill |-> s1, hash |-> h, inputs |-> i, approval |-> a]

MCInvocation ==
  { Invoke(r1, t1, h1, in1, a1), Invoke(r1, t1, h1, in2, a1), Invoke(r2, t2, h1, in1, a1),
    Invoke(r2, t1, h2, in1, None) }

\* one controlled and one read-only invocation, enough for recovery and conflicts
FewInvocations == { Invoke(r1, t1, h1, in1, a1), Invoke(r2, t2, h1, in1, None) }

\* the registry once the version has been released
Released(m) ==
  /\ skill = [x \in Skill |-> [state |-> "ACTIVE", hash |-> h1, manifest |-> m,
                               signature |-> [skill |-> x, hash |-> h1, key |-> k1]]]
  /\ skillEvents = [x \in Skill |-> [i \in 1..9 |->
       [hash |-> h1, from |-> IF i = 1 THEN None ELSE Lifecycle[i - 1], to |-> Lifecycle[i]]]]
  /\ skillApprovals = [x \in Skill |-> << [hash |-> h1, decision |-> "APPROVED"] >>]

MCInit ==
  /\ \E m \in Manifest : Released(m)
  /\ RunsInit /\ ApprovalsInit /\ RuntimeVarsInit

MCSpec == MCInit /\ [][RuntimeNext]_allVars

MCFairSpec == MCSpec /\ ExecutorsProceed

Symmetry == Permutations(MCExecutor)

(***************************************************************************)
(* agent_events is a write-only log here: no guard reads it, and besides   *)
(* its type the invariants ask of it only which runs entered EXECUTING.    *)
(* States that agree on the rest have the same futures.                    *)
(***************************************************************************)
View ==
  <<registryVars, runs, [r \in RunId |-> Entered(r, "EXECUTING")], approvalVars, runtimeVars>>
=============================================================================
