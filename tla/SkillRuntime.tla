---------------------------- MODULE SkillRuntime ----------------------------
(***************************************************************************)
(* robot_skill_runtime/executor.py: processes that execute one invocation  *)
(* of a governed Skill each, against the shared database of                *)
(* SkillRegistry, AgentRunStore and ExecutionApprovals.  An executor       *)
(* yields between any two accesses to what it shares with others: the      *)
(* registry row, the run row, the approval, the clock, the trace directory *)
(* and the robot.  Beside the executors run the governance operations, the *)
(* recovery every agent loop performs when it starts, and the operator's   *)
(* `transition-run` command.  Any process may die between two steps.       *)
(***************************************************************************)
EXTENDS ExecutionApprovals

CONSTANTS
  Executor,       \* processes
  TrustedKey,     \* the release key the runtime trusts
  OperatorTargets \* the states `transition-run` is used to set by hand

PlanOf(inv) == [skill |-> inv.skill, hash |-> inv.hash, inputs |-> inv.inputs]

ASSUME TrustedKeyAssumption == TrustedKey \in Key
ASSUME PlanAssumption == \A inv \in Invocation : PlanOf(inv) \in Plan
ASSUME OperatorAssumption == OperatorTargets \subseteq AgentStates

VARIABLES
  exec,       \* the call of execute() each process is in
  traceFiles, \* runs whose trace file exists
  calls,      \* how often the adapter was invoked with each invocation
  reported    \* how execute() ended for the process that owned each run

runtimeVars == <<exec, traceFiles, calls, reported>>
allVars == <<registryVars, runVars, approvalVars, runtimeVars>>

\* pc names the next access; the ones in capitals are the states of the run
Pcs ==
  { "idle", "opened", "IDLE", "RETRIEVING", "resolved", "PLANNING", "VALIDATING",
    "WAITING_APPROVAL", "consuming", "granted", "EXECUTING", "calling", "VERIFYING", "failing" }

NoCall == [pc |-> "idle", inv |-> None, current |-> "IDLE", record |-> NoRow, now |-> 0]

Call ==
  [pc : Pcs \ {"idle"}, inv : Invocation, current : AgentStates, record : Row \cup {NoRow},
   now : Nat]

RuntimeTypeOK ==
  /\ RegistryTypeOK
  /\ RunsTypeOK
  /\ ApprovalsTypeOK
  /\ exec \in [Executor -> Call \cup {NoCall}]
  /\ traceFiles \subseteq RunId
  /\ calls \in [Invocation -> Nat]
  /\ reported \in [RunId -> {"none", "succeeded", "failed", "raised"}]

RuntimeVarsInit ==
  /\ exec = [e \in Executor |-> NoCall]
  /\ traceFiles = {}
  /\ calls = [inv \in Invocation |-> 0]
  /\ reported = [r \in RunId |-> "none"]

RuntimeInit == RegistryInit /\ RunsInit /\ ApprovalsInit /\ RuntimeVarsInit

Run(e) == exec[e].inv.run
Goto(e, pc) == exec' = [exec EXCEPT ![e].pc = pc]
LeaveKeepingCall(e) == exec' = [exec EXCEPT ![e].pc = "idle"]
Leave(e) == exec' = [exec EXCEPT ![e] = NoCall]
Report(r, status) == reported' = [reported EXCEPT ![r] = status]

\* the run is decided; then its trace may fail, or the process die before its caller hears of it
Answer(e, status) ==
  /\ Report(Run(e), status) \/ Report(Run(e), "raised") \/ UNCHANGED reported
  /\ Leave(e)

-----------------------------------------------------------------------------
\* execute() up to TraceRecorder: an existing trace file is refused
Start(e, inv) ==
  /\ exec[e].pc = "idle"
  /\ inv.run \notin traceFiles
  /\ exec' = [exec EXCEPT ![e] = [NoCall EXCEPT !.pc = "opened", !.inv = inv]]
  /\ UNCHANGED <<registryVars, runVars, approvalVars, traceFiles, calls, reported>>

AdoptsRun(e) ==
  /\ exec[e].pc = "opened"
  /\ IF Exists(Run(e)) THEN UNCHANGED runVars ELSE CreateRun(Run(e), exec[e].inv.trace)
  /\ Goto(e, "IDLE")
  /\ UNCHANGED <<registryVars, approvalVars, traceFiles, calls, reported>>

\* create_run succeeds for one process; it owns the run from here on
ClaimRun(e) ==
  /\ exec[e].pc = "opened"
  /\ CreateRun(Run(e), exec[e].inv.trace)
  /\ Goto(e, "IDLE")
  /\ UNCHANGED <<registryVars, approvalVars, traceFiles, calls, reported>>

\* create_run refuses a run or trace id in use: SkillRuntimeError leaves execute()
ClaimRefused(e) ==
  /\ exec[e].pc = "opened"
  /\ \/ Exists(Run(e))
     \/ \E r \in RunId : Exists(r) /\ runs[r].trace = exec[e].inv.trace
  /\ Leave(e)
  /\ UNCHANGED <<registryVars, runVars, approvalVars, traceFiles, calls, reported>>

(***************************************************************************)
(* _transition: the store moves the run if it is still where the executor  *)
(* left it, and raises otherwise; the handler in execute() takes over.     *)
(***************************************************************************)
MoveRun(e, target, plan, pc) ==
  \/ /\ Transition(Run(e), target, exec[e].current, plan)
     /\ exec' = [exec EXCEPT ![e].pc = pc, ![e].current = target]
  \/ /\ ~ MayTransition(Run(e), target, exec[e].current, plan)
     /\ Goto(e, "failing")
     /\ UNCHANGED runVars

\* the trace records the creation (and the file exists from now on) before RETRIEVING
EnterRetrieving(e) ==
  /\ exec[e].pc = "IDLE"
  /\ traceFiles' = traceFiles \cup {Run(e)}
  /\ MoveRun(e, "RETRIEVING", NoPlan, "RETRIEVING")
  /\ UNCHANGED <<registryVars, approvalVars, calls, reported>>

ResolvesAnyHash(inv) == skill[inv.skill].state = "ACTIVE"

\* _resolve_active_skill
Resolves(inv) ==
  /\ skill[inv.skill].state = "ACTIVE"
  /\ skill[inv.skill].hash = inv.hash

\* the row is read once; everything below works on this copy
Resolve(e) ==
  /\ exec[e].pc = "RETRIEVING"
  /\ IF Resolves(exec[e].inv)
       THEN exec' = [exec EXCEPT ![e].pc = "resolved", ![e].record = skill[exec[e].inv.skill]]
       ELSE Goto(e, "failing")
  /\ UNCHANGED <<registryVars, runVars, approvalVars, traceFiles, calls, reported>>

EnterPlanning(e) ==
  /\ exec[e].pc = "resolved"
  /\ MoveRun(e, "PLANNING", NoPlan, "PLANNING")
  /\ UNCHANGED <<registryVars, approvalVars, traceFiles, calls, reported>>

EnterValidating(e) ==
  /\ exec[e].pc = "PLANNING"
  /\ MoveRun(e, "VALIDATING", PlanOf(exec[e].inv), "VALIDATING")
  /\ UNCHANGED <<registryVars, approvalVars, traceFiles, calls, reported>>

\* _requires_execution_approval, on the copy of the row
NeedsApproval(e) == exec[e].record.manifest \in Controlled

\* verify_signature_envelope against the trusted key
SignatureVerifies(e) ==
  exec[e].record.signature =
    [skill |-> exec[e].inv.skill, hash |-> exec[e].record.hash, key |-> TrustedKey]

(***************************************************************************)
(* _validate_execution_policy and the two rules on approval_id.  Adapter,  *)
(* permissions, input schema and the artifact lock on disk are the         *)
(* environment's: they may refuse any invocation.                          *)
(***************************************************************************)
PolicyMayPass(e) ==
  /\ SignatureVerifies(e)
  /\ NeedsApproval(e) <=> exec[e].inv.approval # None

\* any of the checks fails
PolicyRefuses(e) ==
  /\ exec[e].pc = "VALIDATING"
  /\ Goto(e, "failing")
  /\ UNCHANGED <<registryVars, runVars, approvalVars, traceFiles, calls, reported>>

EnterWaiting(e) ==
  /\ exec[e].pc = "VALIDATING"
  /\ PolicyMayPass(e) /\ NeedsApproval(e)
  /\ MoveRun(e, "WAITING_APPROVAL", NoPlan, "WAITING_APPROVAL")
  /\ UNCHANGED <<registryVars, approvalVars, traceFiles, calls, reported>>

\* consume_execution_approval reads the clock, then waits for the write lock
SampleClock(e) ==
  /\ exec[e].pc = "WAITING_APPROVAL"
  /\ exec' = [exec EXCEPT ![e].pc = "consuming", ![e].now = clock]
  /\ UNCHANGED <<registryVars, runVars, approvalVars, traceFiles, calls, reported>>

ConsumeApproval(e) ==
  /\ exec[e].pc = "consuming"
  /\ ConsumeExecutionApproval(exec[e].inv, exec[e].now)
  /\ exec' = [exec EXCEPT ![e].pc = "granted", ![e].now = 0]
  /\ UNCHANGED <<registryVars, runVars, traceFiles, calls, reported>>

PollsForApproval(e) ==
  /\ exec[e].pc = "consuming"
  /\ ~ Usable(exec[e].inv, exec[e].now)
  /\ exec' = [exec EXCEPT ![e].pc = "WAITING_APPROVAL", ![e].now = 0]
  /\ UNCHANGED <<registryVars, runVars, approvalVars, traceFiles, calls, reported>>

ApprovalRefused(e) ==
  /\ exec[e].pc = "consuming"
  /\ ~ Usable(exec[e].inv, exec[e].now)
  /\ exec' = [exec EXCEPT ![e].pc = "failing", ![e].now = 0]
  /\ UNCHANGED <<registryVars, runVars, approvalVars, traceFiles, calls, reported>>

AtExecutionGate(e) ==
  \/ exec[e].pc = "VALIDATING" /\ PolicyMayPass(e) /\ ~ NeedsApproval(e)
  \/ exec[e].pc = "granted"

ExecutesRegardless(e) ==
  /\ AtExecutionGate(e)
  /\ IF MayTransition(Run(e), "EXECUTING", exec[e].current, NoPlan)
       THEN Transition(Run(e), "EXECUTING", exec[e].current, NoPlan) ELSE UNCHANGED runVars
  /\ exec' = [exec EXCEPT ![e].pc = "EXECUTING", ![e].current = "EXECUTING"]
  /\ UNCHANGED <<registryVars, approvalVars, traceFiles, calls, reported>>

EnterExecuting(e) ==
  /\ AtExecutionGate(e)
  /\ MoveRun(e, "EXECUTING", NoPlan, "EXECUTING")
  /\ UNCHANGED <<registryVars, approvalVars, traceFiles, calls, reported>>

\* adapter.invoke: from here on the robot may act
CallAdapter(e) ==
  /\ exec[e].pc = "EXECUTING"
  /\ calls' = [calls EXCEPT ![exec[e].inv] = @ + 1]
  /\ Goto(e, "calling")
  /\ UNCHANGED <<registryVars, runVars, approvalVars, traceFiles, reported>>

AdapterRetried(e) ==
  /\ exec[e].pc = "calling"
  /\ Goto(e, "EXECUTING")
  /\ UNCHANGED <<registryVars, runVars, approvalVars, traceFiles, calls, reported>>

\* the adapter raises SkillAdapterError
AdapterRaises(e) ==
  /\ exec[e].pc = "calling"
  /\ Goto(e, "failing")
  /\ UNCHANGED <<registryVars, runVars, approvalVars, traceFiles, calls, reported>>

\* the adapter returned an output
EnterVerifying(e) ==
  /\ exec[e].pc = "calling"
  /\ MoveRun(e, "VERIFYING", NoPlan, "VERIFYING")
  /\ UNCHANGED <<registryVars, approvalVars, traceFiles, calls, reported>>

\* validate_result or _validate_goal_completion rejects the output, or the store the success
OutputRejected(e) ==
  /\ exec[e].pc = "VERIFYING"
  /\ Goto(e, "failing")
  /\ UNCHANGED <<registryVars, runVars, approvalVars, traceFiles, calls, reported>>

Succeed(e) ==
  /\ exec[e].pc = "VERIFYING"
  /\ Transition(Run(e), "SUCCEEDED", exec[e].current, NoPlan)
  /\ Answer(e, "succeeded")
  /\ UNCHANGED <<registryVars, approvalVars, traceFiles, calls>>

SwallowsConflict(e) ==
  /\ exec[e].pc = "failing"
  /\ ~ MayTransition(Run(e), "FAILED", exec[e].current, NoPlan)
  /\ Report(Run(e), "failed")
  /\ Leave(e)
  /\ UNCHANGED <<registryVars, runVars, approvalVars, traceFiles, calls>>

\* the exception handler of execute(): FAILED is stored and a failed result returned
Fail(e) ==
  /\ exec[e].pc = "failing"
  /\ Transition(Run(e), "FAILED", exec[e].current, NoPlan)
  /\ Answer(e, "failed")
  /\ UNCHANGED <<registryVars, approvalVars, traceFiles, calls>>

\* the handler's own transition is refused: the exception leaves execute()
FailRaises(e) ==
  /\ exec[e].pc = "failing"
  /\ ~ MayTransition(Run(e), "FAILED", exec[e].current, NoPlan)
  /\ Report(Run(e), "raised")
  /\ Leave(e)
  /\ UNCHANGED <<registryVars, runVars, approvalVars, traceFiles, calls>>

(***************************************************************************)
(* trace.record raises OSError, also after a transition is stored and in   *)
(* the handler itself, before FAILED is: the exception leaves execute()    *)
(* with the run as it stands.  The file may be there by then, or not.      *)
(***************************************************************************)
TraceFails(e) ==
  /\ exec[e].pc \notin {"idle", "opened"}
  /\ traceFiles' \in {traceFiles, traceFiles \cup {Run(e)}}
  /\ Report(Run(e), "raised")
  /\ Leave(e)
  /\ UNCHANGED <<registryVars, runVars, approvalVars, calls>>

\* the process is killed, or another exception the handler does not name ends the call
Crash(e) ==
  /\ exec[e].pc # "idle"
  /\ Leave(e)
  /\ UNCHANGED <<registryVars, runVars, approvalVars, traceFiles, calls, reported>>

-----------------------------------------------------------------------------
\* the startup of an agent loop, or the command `recover-runs`
Recover ==
  /\ FailClosedRecover
  /\ UNCHANGED <<registryVars, approvalVars, runtimeVars>>

\* the command `transition-run`, with or without --plan-json
OperatorTransition(r, target, expected, plan) ==
  /\ Transition(r, target, expected, plan)
  /\ UNCHANGED <<registryVars, approvalVars, runtimeVars>>

\* the command `approve-execution`
OperatorDecides(inv, ttl, decision, now) ==
  /\ IssueExecutionApproval(inv, ttl, decision, now)
  /\ UNCHANGED <<registryVars, runVars, runtimeVars>>

Govern == RegistryNext /\ UNCHANGED <<runVars, approvalVars, runtimeVars>>

TimePasses == Tick /\ UNCHANGED <<registryVars, runVars, runtimeVars>>

\* what the program of an executor does next by itself
Proceed(e) ==
  \/ ClaimRun(e) \/ ClaimRefused(e)
  \/ EnterRetrieving(e) \/ Resolve(e) \/ EnterPlanning(e) \/ EnterValidating(e)
  \/ PolicyRefuses(e) \/ EnterWaiting(e) \/ SampleClock(e)
  \/ ConsumeApproval(e) \/ ApprovalRefused(e) \/ EnterExecuting(e)
  \/ CallAdapter(e) \/ AdapterRaises(e) \/ EnterVerifying(e) \/ OutputRejected(e)
  \/ Succeed(e) \/ Fail(e) \/ FailRaises(e)

RuntimeNext ==
  \/ \E e \in Executor : Proceed(e) \/ TraceFails(e) \/ Crash(e) \/ \E inv \in Invocation : Start(e, inv)
  \/ Recover
  \/ \E r \in RunId, target \in OperatorTargets, expected \in AgentStates,
         plan \in Plan \cup {NoPlan} :
       OperatorTransition(r, target, expected, plan)
  \/ \E inv \in Invocation, ttl \in Ttl, decision \in Decisions, now \in 0..clock :
       OperatorDecides(inv, ttl, decision, now)
  \/ Govern
  \/ TimePasses

RuntimeSpec == RuntimeInit /\ [][RuntimeNext]_allVars

\* a live process is scheduled again and again, and the adapters bound their own time
ExecutorsProceed == \A e \in Executor : WF_allVars(Proceed(e))

-----------------------------------------------------------------------------
\* the processes that believe they own run r
Owners(r) == {e \in Executor : exec[e].pc \notin {"idle", "opened"} /\ Run(e) = r}

(***************************************************************************)
(* The robot is asked to act at most once per invocation, per run and per  *)
(* approval, whatever crashes, recoveries, duplicate submissions and       *)
(* re-submissions under another run or with other inputs happen            *)
(* (executor.py:388; docs/registry_state_machine.md section 5).            *)
(***************************************************************************)
AtMostOneCall ==
  \A i, j \in Invocation :
    /\ calls[i] <= 1
    /\ (/\ calls[i] > 0 /\ calls[j] > 0
        /\ \/ i.run = j.run
           \/ i.approval = j.approval /\ i.approval # None) => i = j

(***************************************************************************)
(* Whatever was executed was authorized as executed: the run stored        *)
(* exactly this plan and went through EXECUTING; for a controlled Skill an *)
(* operator approved exactly this invocation, the approval is consumed,    *)
(* and the clock the consumer read was within its lifetime.                *)
(***************************************************************************)
CallWasAuthorized ==
  \A inv \in Invocation : calls[inv] > 0 =>
    /\ runs[inv.run].plan = PlanOf(inv)
    /\ Entered(inv.run, "EXECUTING")
    /\ skill[inv.skill].manifest \in Controlled =>
         LET row == execApprovals[inv.approval] IN
         /\ inv.approval # None
         /\ row.invocation = inv /\ row.decision = "APPROVED"
         /\ row.consumed \in Nat /\ row.consumed <= row.expires

(***************************************************************************)
(* Only governed code acts, although the row is read long before the call: *)
(* the Skill called is ACTIVE, or has been DEPRECATED meanwhile, under the *)
(* hash named by the invocation and a signature of the trusted key.        *)
(***************************************************************************)
CallWasGoverned ==
  \A inv \in Invocation : calls[inv] > 0 =>
    /\ skill[inv.skill].state \in {"ACTIVE", "DEPRECATED"}
    /\ skill[inv.skill].signature = [skill |-> inv.skill, hash |-> inv.hash, key |-> TrustedKey]
    /\ skill[inv.skill].hash = inv.hash

(***************************************************************************)
(* Two processes never execute, or write the trace of, the same run, even  *)
(* when both passed the trace-file check before either created the run     *)
(* (trace.py:18, executor.py:267).                                         *)
(***************************************************************************)
OneOwnerPerRun ==
  \A r \in RunId, e, f \in Executor : e \in Owners(r) /\ f \in Owners(r) => e = f

(***************************************************************************)
(* What execute() returns is what the store says, then and for ever,       *)
(* whatever recovery and operators do to the run meanwhile: a result       *)
(* `failed` names the stored state, and so does `succeeded`, which is      *)
(* moreover said only of a run whose one invocation acted                  *)
(* (executor.py:388-436).  An exception out of execute() tells nothing.    *)
(***************************************************************************)
ResultMatchesStore ==
  \A r \in RunId :
    /\ reported[r] = "failed" => runs[r].state = "FAILED"
    /\ reported[r] = "succeeded" =>
         /\ runs[r].state = "SUCCEEDED"
         /\ \E inv \in Invocation : inv.run = r /\ calls[inv] = 1

\* how the state of the runtime shows the abstract run of OneShotRun
Phase(r) ==
  IF ~ Exists(r) THEN "absent"
  ELSE IF \E inv \in Invocation : inv.run = r /\ calls[inv] > 0 THEN "performed"
  ELSE IF Entered(r, "EXECUTING") THEN "authorized" ELSE "preparing"

Verdict(r) ==
  IF runs[r].state = "SUCCEEDED" THEN "succeeded"
  ELSE IF runs[r].state \in TerminalStates THEN "unsuccessful" ELSE "open"

Abstract == INSTANCE OneShotRun WITH
  phase <- [r \in RunId |-> Phase(r)],
  verdict <- [r \in RunId |-> Verdict(r)]

\* The runtime implements one-shot runs (the promise stated in OneShotRun).
ImplementsOneShotRun == Abstract!Spec

(***************************************************************************)
(* A call of execute() that is not killed always ends: it never waits for  *)
(* an approval to appear, and no conflict with another writer blocks it    *)
(* (executor.py:253).                                                      *)
(***************************************************************************)
ExecuteReturns == \A e \in Executor : exec[e].pc # "idle" ~> exec[e].pc = "idle"

(***************************************************************************)
(* docs/read_only_agent_loop.md section 4: recovery may take an unfinished *)
(* run for a crash leftover only when no process that runs it is alive.    *)
(***************************************************************************)
RecoverySparesLiveRuns ==
  [][Recover => \A r \in ActiveRuns : Owners(r) = {}]_allVars
=============================================================================
