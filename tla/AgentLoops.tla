----------------------------- MODULE AgentLoops -----------------------------
(***************************************************************************)
(* The two agent loops: robot_agent_orchestrator/loop.py (read-only        *)
(* Skills) and robot_diagnosis_agent/loop.py (diagnosis tools).  Every     *)
(* process is one call of run(): it takes the lease file of its kind,      *)
(* aborts whatever run is unfinished in the shared database, then drives a *)
(* run of its own through plan, steps, evidence gates and verification.    *)
(* The processes share AgentRunStore; the diagnosis loops share the tools. *)
(* A Skill is one call here: SkillRuntime models what is inside.           *)
(***************************************************************************)
EXTENDS AgentRunStore, DiagnosisTools

CONSTANTS
  ReadOnlyLoop,  \* processes running robot_agent_orchestrator
  DiagnosisLoop, \* processes running robot_diagnosis_agent
  NoLoop

ASSUME LoopAssumption ==
  /\ ReadOnlyLoop \cap DiagnosisLoop = {}
  /\ NoLoop \notin ReadOnlyLoop \cup DiagnosisLoop
  /\ Server = DiagnosisLoop

\* the plan schemas: decision "plan" has at least one step
ASSUME PlanAssumption ==
  Plan \subseteq [steps : Seq(STRING) \ {<<>>}, padded : BOOLEAN]

VARIABLES
  lease, \* holder of each lock file
  loop   \* the call of run() of each process

agentVars == <<lease, loop, runVars, toolVars>>

Loop == ReadOnlyLoop \cup DiagnosisLoop

\* with_suffix('.agent_loop.lock') and with_suffix('.diagnosis_agent.lock')
LeaseOf(p) == IF p \in ReadOnlyLoop THEN "agent_loop.lock" ELSE "diagnosis_agent.lock"

\* the prompt's catalog, and the Skills whose evidence the loop can interpret
ReadOnlySkills ==
  {"check_robot_health", "query_semantic_target", "preview_safe_route", "other_read_only"}

EvidenceSkills == {"check_robot_health", "query_semantic_target", "preview_safe_route"}

Outside == {"start", "returned", "raised", "dead"}

Fresh == [pc |-> "start", run |-> "none", current |-> "IDLE", plan |-> NoPlan,
          steps |-> <<>>, status |-> "none", safe |-> FALSE]

Statuses == {"succeeded", "failed", "blocked_by_evidence", "clarification_required", "refused"}

StepRecord == [tool : STRING, succeeded : BOOLEAN, gate : BOOLEAN,
               sources : 0..MaxVersion, content : 0..MaxVersion]

AgentsTypeOK ==
  /\ RunsTypeOK
  /\ ToolsTypeOK
  /\ lease \in [{"agent_loop.lock", "diagnosis_agent.lock"} -> Loop \cup {NoLoop}]
  /\ \A p \in Loop :
       /\ loop[p].run \in RunId \cup {"none"}
       /\ loop[p].current \in AgentStates
       /\ loop[p].plan \in Plan \cup {NoPlan}
       /\ loop[p].steps \in Seq(StepRecord)
       /\ loop[p].plan # NoPlan => Len(loop[p].steps) <= Len(loop[p].plan.steps)
       /\ loop[p].pc = "returned" <=> loop[p].status \in Statuses
       /\ loop[p].safe => loop[p].status = "succeeded"
       /\ lease[LeaseOf(p)] = p <=> loop[p].pc \notin Outside

AgentsInit ==
  /\ RunsInit
  /\ ToolsInit
  /\ lease = [f \in {"agent_loop.lock", "diagnosis_agent.lock"} |-> NoLoop]
  /\ loop = [p \in Loop |-> Fresh]

At(p, pc) == loop[p].pc = pc

Goto(p, pc) == loop' = [loop EXCEPT ![p].pc = pc]

Release(p) == lease' = [lease EXCEPT ![LeaseOf(p)] = NoLoop]

RaiseKeepingLease(p) ==
  /\ loop' = [loop EXCEPT ![p] = [Fresh EXCEPT !.pc = "raised"]]
  /\ UNCHANGED lease

\* an exception leaves run(): the finally clause releases the lease
Raise(p) ==
  /\ loop' = [loop EXCEPT ![p] = [Fresh EXCEPT !.pc = "raised"]]
  /\ Release(p)

\* _result, and the lease is released; safe is safe_to_continue
Return(p, status, state, safe) ==
  /\ loop' = [loop EXCEPT ![p].pc = "returned", ![p].status = status,
                          ![p].current = state, ![p].safe = safe]
  /\ Release(p)

-----------------------------------------------------------------------------
(***************************************************************************)
(* Entering run()                                                          *)
(***************************************************************************)
AcquireAnyLease(p) ==
  /\ At(p, "start")
  /\ lease' = [lease EXCEPT ![LeaseOf(p)] = p]
  /\ Goto(p, "recover")
  /\ UNCHANGED <<runVars, toolVars>>

\* _exclusive_lease: a lock held by another process raises at once
AcquireLease(p) ==
  /\ At(p, "start")
  /\ IF lease[LeaseOf(p)] = NoLoop
       THEN lease' = [lease EXCEPT ![LeaseOf(p)] = p] /\ Goto(p, "recover")
       ELSE UNCHANGED lease /\ Goto(p, "raised")
  /\ UNCHANGED <<runVars, toolVars>>

\* _recover_unfinished_runs: every active run of the database, whoever drives it
RecoverUnfinishedRuns(p) ==
  /\ At(p, "recover")
  /\ IF ActiveRuns = {} THEN UNCHANGED runVars ELSE FailClosedRecover
  /\ Goto(p, "create")
  /\ UNCHANGED <<lease, toolVars>>

(***************************************************************************)
(* TraceRecorder and create_run: an identifier in use raises, and so does  *)
(* a trace that cannot be written, which leaves an IDLE row behind.        *)
(***************************************************************************)
OpenRun(p, r, t) ==
  /\ At(p, "create")
  /\ \/ /\ CreateRun(r, t)
        /\ \/ loop' = [loop EXCEPT ![p].pc = "retrieve", ![p].run = r] /\ UNCHANGED lease
           \/ Raise(p)
     \/ /\ Exists(r) \/ \E other \in RunId : Exists(other) /\ runs[other].trace = t
        /\ Raise(p)
        /\ UNCHANGED runVars
  /\ UNCHANGED toolVars

-----------------------------------------------------------------------------
(***************************************************************************)
(* _transition: the store first, the trace second.  A refusal of the store *)
(* leads to the handler with nothing stored; a trace that cannot be        *)
(* written leads there too, but the row has moved on and `current' has     *)
(* not.                                                                    *)
(***************************************************************************)
StoreRefuses(p, target, plan) ==
  /\ ~ MayTransition(loop[p].run, target, loop[p].current, plan)
  /\ UNCHANGED runVars

Move(p, target, plan, pc) ==
  /\ \/ /\ Transition(loop[p].run, target, loop[p].current, plan)
        /\ \/ loop' = [loop EXCEPT ![p].pc = pc, ![p].current = target]
           \/ Goto(p, "handler")
     \/ StoreRefuses(p, target, plan) /\ Goto(p, "handler")
  /\ UNCHANGED <<lease, toolVars>>

\* a terminal transition inside the try block, and the result it returns
Conclude(p, target, status, safe) ==
  /\ \/ /\ Transition(loop[p].run, target, loop[p].current, NoPlan)
        /\ \/ Return(p, status, target, safe)
           \/ Goto(p, "handler") /\ UNCHANGED lease
     \/ StoreRefuses(p, target, NoPlan) /\ Goto(p, "handler") /\ UNCHANGED lease
  /\ UNCHANGED toolVars

EnterRetrieving(p) == At(p, "retrieve") /\ Move(p, "RETRIEVING", NoPlan, "resolve")

EnterPlanning(p) == At(p, "resolve") /\ Move(p, "PLANNING", NoPlan, "plan")

\* the tools of the prompt's catalog, which the gateway holds a plan to
CatalogOf(p) ==
  IF p \in ReadOnlyLoop THEN ReadOnlySkills \cup {"navigate_to_approved_pose"}
                        ELSE {ToolOrder[i] : i \in 1..Len(ToolOrder)}

\* gateway.plan answers with a plan to execute
Planned(p, plan) ==
  /\ At(p, "plan")
  /\ \A i \in 1..Len(plan.steps) : plan.steps[i] \in CatalogOf(p)
  /\ loop' = [loop EXCEPT ![p].pc = "validate", ![p].plan = plan]
  /\ UNCHANGED <<lease, runVars, toolVars>>

\* clarify and refuse end the run; so does a gateway that failed
NotPlanned(p) ==
  /\ At(p, "plan")
  /\ \/ Conclude(p, "ABORTED", "clarification_required", FALSE)
     \/ Conclude(p, "ABORTED", "refused", FALSE)
     \/ Conclude(p, "FAILED", "failed", FALSE)

EnterValidating(p) == At(p, "validate") /\ Move(p, "VALIDATING", loop[p].plan, "check")

\* _validate_read_only_plan (the catalog is read-only) and validate_cross_step_plan (the order)
PlanIsValid(p) ==
  LET steps == loop[p].plan.steps IN
  IF p \in ReadOnlyLoop THEN \A i \in 1..Len(steps) : steps[i] \in ReadOnlySkills
                        ELSE steps = ToolOrder

EnterExecuting(p) ==
  /\ At(p, "check")
  /\ \/ PlanIsValid(p) /\ Move(p, "EXECUTING", NoPlan, "step")
     \/ ~ PlanIsValid(p) /\ Goto(p, "handler") /\ UNCHANGED <<lease, runVars, toolVars>>

-----------------------------------------------------------------------------
(***************************************************************************)
(* Steps                                                                   *)
(***************************************************************************)
NextTool(p) == loop[p].plan.steps[Len(loop[p].steps) + 1]

\* a trace, tool, identity or deadline error raised between two transitions
StepRaises(p) ==
  /\ loop[p].pc \in {"plan", "step", "judge", "finish"}
  /\ Goto(p, "handler")
  /\ UNCHANGED <<lease, runVars, toolVars>>

StepDone(p, succeeded, gate, sources, content) ==
  loop' = [loop EXCEPT ![p].pc = "judge",
                       ![p].steps = Append(@, [tool |-> NextTool(p), succeeded |-> succeeded,
                                               gate |-> gate, sources |-> sources,
                                               content |-> content])]

(***************************************************************************)
(* One child invocation, and _normalize_step with its evidence gate: the   *)
(* Skill must have succeeded, its evidence be favourable, and its name one *)
(* the loop has a policy for.                                              *)
(***************************************************************************)
ExecuteSkill(p, succeeded, favourable) ==
  /\ p \in ReadOnlyLoop
  /\ At(p, "step")
  /\ favourable => succeeded
  /\ StepDone(p, succeeded, favourable /\ NextTool(p) \in EvidenceSkills, 0, 0)
  /\ UNCHANGED <<lease, runVars, toolVars>>

StepOf(p, tool) == loop[p].steps[CHOOSE i \in 1..Len(ToolOrder) : ToolOrder[i] = tool]

GateIgnoresAnalysis(p, tool, answer) ==
  /\ answer.bound
  /\ tool = "list_experiment_runs" => answer.found
  /\ tool = "analyze_experiment_run" =>
       answer.sources = StepOf(p, "inspect_experiment_run").sources

(***************************************************************************)
(* _evidence_gate of the diagnosis loop: the answer is bound to the        *)
(* planned inputs, the analysis to the inspected sources and the report to *)
(* the analysis.                                                           *)
(***************************************************************************)
EvidenceGate(p, tool, answer) ==
  /\ answer.bound
  /\ tool = "list_experiment_runs" => answer.found
  /\ tool = "analyze_experiment_run" =>
       answer.sources = StepOf(p, "inspect_experiment_run").sources
  /\ tool = "materialize_diagnosis_report" =>
       LET analyzed == StepOf(p, "analyze_experiment_run") IN
       answer.sources = analyzed.sources /\ answer.content = analyzed.content

CallTool(p, answer) ==
  /\ p \in DiagnosisLoop
  /\ At(p, "step")
  /\ Reads(NextTool(p), loop[p].plan.padded, answer)
  /\ StepDone(p, TRUE, EvidenceGate(p, NextTool(p), answer), answer.sources, answer.content)
  /\ UNCHANGED <<lease, runVars, toolVars>>

\* call_tool: the tools that take several steps work in a server of their own
CallServer(p) ==
  /\ p \in DiagnosisLoop
  /\ At(p, "step")
  /\ Verify(p, NextTool(p))
  /\ Goto(p, "serving")
  /\ UNCHANGED <<lease, runVars>>

ServerWorks(p) ==
  /\ ReadSamples(p) \/ Write(p)
  /\ UNCHANGED <<lease, loop, runVars>>

ServerAnswers(p) ==
  /\ At(p, "serving")
  /\ Finished(p)
  /\ LET answer == AnswerOf(p, loop[p].plan.padded) IN
     StepDone(p, TRUE, EvidenceGate(p, NextTool(p), answer), answer.sources, answer.content)
  /\ Exits(p)
  /\ UNCHANGED <<lease, runVars>>

\* the server raised, was killed, or answered nobody
ServerExits(p) ==
  /\ Exits(p)
  /\ IF At(p, "serving") THEN Goto(p, "handler") ELSE UNCHANGED loop
  /\ UNCHANGED <<lease, runVars>>

\* subprocess.run kills protocol_call after its timeout; the server lives on
CallTimesOut(p) ==
  /\ At(p, "serving")
  /\ Goto(p, "handler")
  /\ UNCHANGED <<lease, runVars, toolVars>>

-----------------------------------------------------------------------------
LastStep(p) == loop[p].steps[Len(loop[p].steps)]

HasLaterStep(p) == Len(loop[p].steps) < Len(loop[p].plan.steps)

BlockedByFailureOnly(p) == p \in DiagnosisLoop /\ ~ LastStep(p).gate

\* a gate that fails stops the read-only loop only before a later step
Blocked(p) == ~ LastStep(p).gate /\ (p \in ReadOnlyLoop => HasLaterStep(p))

Judge(p) ==
  /\ At(p, "judge")
  /\ \/ /\ ~ LastStep(p).succeeded
        /\ Conclude(p, "FAILED", "failed", FALSE)
     \/ /\ LastStep(p).succeeded /\ Blocked(p)
        /\ Conclude(p, "ABORTED", "blocked_by_evidence", FALSE)
     \/ /\ LastStep(p).succeeded /\ ~ Blocked(p) /\ HasLaterStep(p)
        /\ Goto(p, "step")
        /\ UNCHANGED <<lease, runVars, toolVars>>
     \/ /\ LastStep(p).succeeded /\ ~ Blocked(p) /\ ~ HasLaterStep(p)
        /\ Move(p, "VERIFYING", NoPlan, "finish")

\* safe_to_continue is the gate of the last step; the diagnosis result has no such field
Finish(p) == At(p, "finish") /\ Conclude(p, "SUCCEEDED", "succeeded", LastStep(p).gate)

ReportsFailureAnyway(p) ==
  /\ At(p, "handler")
  /\ IF MayTransition(loop[p].run, "FAILED", loop[p].current, NoPlan)
       THEN Transition(loop[p].run, "FAILED", loop[p].current, NoPlan)
       ELSE UNCHANGED runVars
  /\ Return(p, "failed", "FAILED", FALSE)
  /\ UNCHANGED toolVars

(***************************************************************************)
(* The except clause, _terminal_failure in the diagnosis loop: trace the   *)
(* error, store FAILED from the state the loop believes in, trace again.   *)
(* Each of the three may raise in turn, and then nothing is returned.      *)
(***************************************************************************)
HandleError(p) ==
  /\ At(p, "handler")
  /\ \/ /\ Transition(loop[p].run, "FAILED", loop[p].current, NoPlan)
        /\ Return(p, "failed", "FAILED", FALSE) \/ Raise(p)
     \/ Raise(p) /\ UNCHANGED runVars
  /\ UNCHANGED toolVars

\* the process is killed, or an exception the loop does not catch ends it
Crash(p) ==
  /\ loop[p].pc \notin Outside
  /\ loop' = [loop EXCEPT ![p] = [Fresh EXCEPT !.pc = "dead"]]
  /\ Release(p)
  /\ UNCHANGED <<runVars, toolVars>>

\* registry_cli transition-run EMERGENCY_STOP
OperatorStops(r) ==
  /\ Transition(r, "EMERGENCY_STOP", runs[r].state, NoPlan)
  /\ UNCHANGED <<lease, loop, toolVars>>

Rerecords == Rerecorded /\ UNCHANGED <<lease, loop, runVars>>

Tries(p) ==
  \/ EnterRetrieving(p) \/ EnterPlanning(p) \/ NotPlanned(p) \/ EnterValidating(p)
  \/ EnterExecuting(p) \/ Judge(p) \/ Finish(p)

AgentsNext ==
  \/ \E p \in Loop :
       \/ AcquireLease(p) \/ RecoverUnfinishedRuns(p)
       \/ \E r \in RunId, t \in TraceId : OpenRun(p, r, t)
       \/ \E plan \in Plan : Planned(p, plan)
       \/ Tries(p) \/ StepRaises(p) \/ HandleError(p) \/ Crash(p)
       \/ \E succeeded, favourable \in BOOLEAN : ExecuteSkill(p, succeeded, favourable)
  \/ \E p \in DiagnosisLoop :
       \/ \E found, bound \in BOOLEAN, sources \in 0..MaxVersion :
            CallTool(p, [found |-> found, bound |-> bound, sources |-> sources, content |-> 0])
       \/ CallServer(p) \/ ServerWorks(p) \/ ServerAnswers(p) \/ ServerExits(p) \/ CallTimesOut(p)
  \/ \E r \in RunId : OperatorStops(r)
  \/ Rerecords

AgentsSpec == AgentsInit /\ [][AgentsNext]_agentVars

-----------------------------------------------------------------------------
(***************************************************************************)
(* A starting loop never aborts the run of a live loop of its own kind:    *)
(* the lease is what separates a crash leftover from work in progress      *)
(* (loop.py:66-74 of both; docs/read_only_agent_loop.md, section 4).  It   *)
(* does abort the run of a live loop of the other kind, whose lock is      *)
(* another file.                                                           *)
(***************************************************************************)
RecoverySparesOwnKind ==
  [][\A p, q \in Loop :
       /\ p # q /\ LeaseOf(p) = LeaseOf(q)
       /\ At(p, "recover") /\ loop'[p].pc = "create"
       /\ ~ At(q, "start") /\ loop[q].pc \notin Outside /\ loop[q].run # "none"
       => runs'[loop[q].run] = runs[loop[q].run]]_agentVars

\* what a result of either loop says of the steps it took
Evidenced(p) ==
  LET steps == loop[p].steps IN
  /\ Len(steps) = Len(loop[p].plan.steps)
  /\ \A i \in 1..Len(steps) :
       /\ steps[i].tool = loop[p].plan.steps[i]
       /\ steps[i].succeeded
       /\ i < Len(steps) => steps[i].gate
  /\ loop[p].safe <=> steps[Len(steps)].gate
  /\ p \in ReadOnlyLoop => \A i \in 1..Len(steps) : steps[i].tool \in ReadOnlySkills
  /\ p \in DiagnosisLoop => loop[p].safe

(***************************************************************************)
(* No step is taken past evidence that forbids it, and a success is made   *)
(* of all the planned steps: each succeeded, each gate but the last of a   *)
(* read-only plan passed, and only a last gate that passed gives leave to  *)
(* continue (loop.py:233-323; diagnosis loop.py:211-268).                  *)
(***************************************************************************)
StepsAreEvidenced ==
  \A p \in Loop :
    /\ \A i \in 1..Len(loop[p].steps) :
         i < Len(loop[p].steps) => loop[p].steps[i].succeeded /\ loop[p].steps[i].gate
    /\ loop[p].status = "succeeded" => Evidenced(p)

(***************************************************************************)
(* A result names the state its run is in for good, whatever recovery by   *)
(* the other loop, an operator or an unwritable trace did to the run on    *)
(* the way: a loop that lost its run returns nothing (loop.py:358-397,     *)
(* diagnosis loop.py:470-488).                                             *)
(***************************************************************************)
ResultNamesStoredState ==
  \A p \in Loop :
    At(p, "returned") =>
      /\ runs[loop[p].run].state = loop[p].current
      /\ loop[p].current \in TerminalStates
      /\ loop[p].current = "SUCCEEDED" <=> loop[p].status = "succeeded"

(***************************************************************************)
(* A successful diagnosis is about one recording of the experiment: the    *)
(* hashes it inspected, the samples it analysed and the report it wrote    *)
(* are of the same version, though each tool reads the files anew, hashes  *)
(* first (diagnosis loop.py:351-385).  Its report is complete on disk.     *)
(***************************************************************************)
DiagnosisIsOneExperiment ==
  \A p \in DiagnosisLoop :
    loop[p].status = "succeeded" =>
      LET report == StepOf(p, "materialize_diagnosis_report")
          named == [sources |-> report.sources, content |-> report.content] IN
      /\ report.sources = report.content
      /\ report.sources = StepOf(p, "inspect_experiment_run").sources
      /\ StepOf(p, "analyze_experiment_run").content = report.content
      /\ BundleFile \in written[named]
=============================================================================
