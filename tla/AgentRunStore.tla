--------------------------- MODULE AgentRunStore ---------------------------
(***************************************************************************)
(* The run half of robot_skill_registry/registry.py: the tables agent_runs *)
(* and agent_events.  The skill executor, the two agent loops and the      *)
(* registry command line all write them; each operation is one SQLite      *)
(* write transaction, and a call that raises changes nothing.              *)
(***************************************************************************)
EXTENDS Naturals, Sequences

CONSTANTS
  RunId,
  TraceId,
  Plan,    \* structured plans
  NoPlan   \* plan_json IS NULL, and plan=None in a call

ASSUME NoPlanAssumption == NoPlan \notin Plan

VARIABLES
  runs,       \* agent_runs
  agentEvents \* agent_events of each run, in sequence order

runVars == <<runs, agentEvents>>

AgentStates ==
  { "IDLE", "RETRIEVING", "PLANNING", "VALIDATING", "WAITING_APPROVAL", "EXECUTING",
    "VERIFYING", "SUCCEEDED", "FAILED", "ABORTED", "EMERGENCY_STOP" }

TerminalStates == {"SUCCEEDED", "FAILED", "ABORTED", "EMERGENCY_STOP"}

\* the states fail_closed_recover selects
ActiveStates == AgentStates \ (TerminalStates \cup {"IDLE"})

ForwardTransitions ==
  { <<"IDLE", "RETRIEVING">>, <<"RETRIEVING", "PLANNING">>, <<"PLANNING", "VALIDATING">>,
    <<"VALIDATING", "WAITING_APPROVAL">>, <<"VALIDATING", "EXECUTING">>,
    <<"WAITING_APPROVAL", "EXECUTING">>, <<"EXECUTING", "VERIFYING">>,
    <<"VERIFYING", "SUCCEEDED">> }

StoredRun == [state : AgentStates, trace : TraceId, plan : Plan \cup {NoPlan}]

NoRun == [state |-> "ABSENT", trace |-> "NULL", plan |-> NoPlan]

RunsTypeOK ==
  /\ runs \in [RunId -> StoredRun \cup {NoRun}]
  /\ agentEvents \in [RunId -> Seq([from : AgentStates \cup {"NONE"}, to : AgentStates])]

Exists(r) == runs[r].state # "ABSENT"

RunsInit ==
  /\ runs = [r \in RunId |-> NoRun]
  /\ agentEvents = [r \in RunId |-> <<>>]

-----------------------------------------------------------------------------
ForgetsTerminal(current, target) ==
  \/ target = "EMERGENCY_STOP"
  \/ target \in {"FAILED", "ABORTED"} /\ current # "IDLE"
  \/ <<current, target>> \in ForwardTransitions

\* _agent_transition_allowed
TransitionAllowed(current, target) ==
  /\ current \notin TerminalStates
  /\ \/ target = "EMERGENCY_STOP"
     \/ target \in {"FAILED", "ABORTED"} /\ current # "IDLE"
     \/ <<current, target>> \in ForwardTransitions

RecordRunEvent(r, from, to) ==
  agentEvents' = [agentEvents EXCEPT ![r] = Append(@, [from |-> from, to |-> to])]

CreateWithEmptyPlan(r, t) ==
  /\ ~ Exists(r)
  /\ \A other \in RunId : Exists(other) => runs[other].trace # t
  /\ runs' = [runs EXCEPT ![r] = [state |-> "IDLE", trace |-> t, plan |-> ""]]
  /\ RecordRunEvent(r, "NONE", "IDLE")

\* create_run: both identifiers are unique columns
CreateRun(r, t) ==
  /\ ~ Exists(r)
  /\ \A other \in RunId : Exists(other) => runs[other].trace # t
  /\ runs' = [runs EXCEPT ![r] = [state |-> "IDLE", trace |-> t, plan |-> NoPlan]]
  /\ RecordRunEvent(r, "NONE", "IDLE")

PlanIsOptional(r, target, plan) == plan # NoPlan => target = "VALIDATING"

\* the rules on plan inside transition: stored on entering VALIDATING and only then
PlanRules(r, target, plan) ==
  /\ target = "VALIDATING" <=> plan # NoPlan
  /\ target = "EXECUTING" => runs[r].plan # NoPlan

\* the guard of transition, in the transaction: the row is in the state the caller expects
MayTransition(r, target, expected, plan) ==
  /\ Exists(r)
  /\ runs[r].state = expected
  /\ TransitionAllowed(runs[r].state, target)
  /\ PlanRules(r, target, plan)

TransitionForgetsEvent(r, target, expected, plan) ==
  /\ MayTransition(r, target, expected, plan)
  /\ runs' = [runs EXCEPT ![r].state = target,
                          ![r].plan = IF plan = NoPlan THEN @ ELSE plan]
  /\ IF target = "EMERGENCY_STOP" THEN UNCHANGED agentEvents
                                  ELSE RecordRunEvent(r, runs[r].state, target)

\* transition
Transition(r, target, expected, plan) ==
  /\ MayTransition(r, target, expected, plan)
  /\ runs' = [runs EXCEPT ![r].state = target,
                          ![r].plan = IF plan = NoPlan THEN @ ELSE plan]
  /\ RecordRunEvent(r, runs[r].state, target)

ActiveRuns == {r \in RunId : runs[r].state \in ActiveStates}

(***************************************************************************)
(* fail_closed_recover: one transaction aborts every active run, whoever   *)
(* owns it, with one event each; an IDLE row is left alone.                *)
(***************************************************************************)
FailClosedRecover ==
  /\ ActiveRuns # {}
  /\ runs' = [r \in RunId |-> IF r \in ActiveRuns
                                THEN [runs[r] EXCEPT !.state = "ABORTED"] ELSE runs[r]]
  /\ agentEvents' = [r \in RunId |->
                       IF r \in ActiveRuns
                         THEN Append(agentEvents[r], [from |-> runs[r].state, to |-> "ABORTED"])
                         ELSE agentEvents[r]]

RunsNext ==
  \/ \E r \in RunId, t \in TraceId : CreateRun(r, t)
  \/ \E r \in RunId, target, expected \in AgentStates, plan \in Plan \cup {NoPlan} :
       Transition(r, target, expected, plan)
  \/ FailClosedRecover

RunsSpec == RunsInit /\ [][RunsNext]_runVars

-----------------------------------------------------------------------------
Entered(r, state) == \E i \in 1..Len(agentEvents[r]) : agentEvents[r][i].to = state

\* the edges a history may consist of, as the state machine is documented
Edge(from, to) ==
  \/ <<from, to>> \in ForwardTransitions
  \/ to \in {"FAILED", "ABORTED"} /\ from # "IDLE"
  \/ to = "EMERGENCY_STOP"

HistoryOf(r) ==
  LET trail == agentEvents[r] IN
  /\ trail = <<>> <=> ~ Exists(r)
  /\ trail # <<>> => /\ trail[1] = [from |-> "NONE", to |-> "IDLE"]
                     /\ runs[r].state = trail[Len(trail)].to
  /\ \A i \in 1..(Len(trail) - 1) :
       /\ trail[i + 1].from = trail[i].to
       /\ trail[i].to \notin TerminalStates
       /\ Edge(trail[i].to, trail[i + 1].to)

(***************************************************************************)
(* The events of a run are its whole life: they chain from IDLE to the     *)
(* stored state along documented edges, so none was lost, invented or      *)
(* written after a terminal one, even when recovery and a live process     *)
(* write the same run (registry.py:776, transition; registry.py:831,       *)
(* fail_closed_recover; docs/registry_state_machine.md).                   *)
(***************************************************************************)
HistoryIsLegal == \A r \in RunId : HistoryOf(r)

PlannedFirst(r) ==
  /\ Entered(r, "EXECUTING") => Entered(r, "VALIDATING") /\ runs[r].plan # NoPlan
  /\ runs[r].state = "SUCCEEDED" => Entered(r, "EXECUTING") /\ Entered(r, "VERIFYING")

(***************************************************************************)
(* A run that ever executed has a plan that was validated first, and a run *)
(* that succeeded executed and verified it (registry.py:800-810).          *)
(***************************************************************************)
PlanBeforeExecution == \A r \in RunId : PlannedFirst(r)

(***************************************************************************)
(* No step takes a run out of a terminal state, deletes it, or replaces a  *)
(* plan that has been stored (registry.py:886, _agent_transition_allowed). *)
(***************************************************************************)
DecidedIsFinal ==
  [][\A r \in RunId :
       /\ runs[r].state \in TerminalStates => runs'[r] = runs[r]
       /\ Exists(r) => runs'[r].state # "ABSENT" /\ runs'[r].trace = runs[r].trace
       /\ runs[r].plan # NoPlan => runs'[r].plan = runs[r].plan]_runVars
=============================================================================
