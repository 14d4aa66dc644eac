# Formal models of the ROS 2 Agent Skill platform

TLA+ specifications of the control logic in `src/src/*`: what is stored, who may
change it, in which order, and what happens when processes race, die, time out or
lose messages. TLC checks small instances; TLAPS proves every safety property, and
both refinements, for every instance.

Contents: 1 the system, 2 what is hard in it, 3 the modules and how they correspond
to the code, 4 the runs, 5 fairness, 6 bounds, 7 proofs, 8 findings, 9 what is not
modelled, 10 the plan.

## 1. The system

A language model (or an operator) asks for *Skills*; deterministic code decides
whether a Skill may run, runs it once, and records what happened. All processes are
separate command-line programs that share one SQLite file
(`~/.ros/robot_agent/registry.db`), a trace directory and the robot. Nothing else
synchronises them.

| Component (package) | State it keeps | Operations | Correct when |
|---|---|---|---|
| Skill registry (`robot_skill_registry/registry.py`) | `skill_versions`, `skill_events`, `skill_approvals` | `register_manifest`, `advance`, `approve`, `record_verified_signature` | a version walks the whole lifecycle, its audit trail is that walk, it is reviewed once, it becomes ACTIVE only when tested, approved and signed, and its content never changes |
| Agent run store (`registry.py`) | `agent_runs`, `agent_events` | `create_run`, `transition`, `fail_closed_recover` | histories are complete and legal, a decided run stays decided, a plan precedes execution |
| Execution approvals (`registry.py`) | `execution_approvals` | `issue_`, `consume_execution_approval` | one approval authorizes one exact invocation once, within its lifetime |
| Skill runtime (`robot_skill_runtime/executor.py`, `trace.py`) | the position in `execute()`, a copy of the Skill row, the trace file | `execute()` | the adapter is invoked at most once per invocation, run and approval, only for governed code; the result agrees with the store; the call returns |
| Skill adapters (`robot_skill_runtime/adapters.py`) | attempt counter, outer deadline, child process | `invoke()` | bounded retries, none after a motion; a late child is killed and its goals cancelled |
| Approved navigation (`robot_controlled_navigation_skills`) | node fields set by callbacks, Nav2 goal | preflight, send, watch, cancel, verify; emergency cancel helper | one goal; unsafe evidence stops the robot unless ROS, the child or the cancel fails; a success is earned; motion is attended |
| Registry and release CLIs | none | the operations above | the same |
| Release signing (`release_crypto.py`, `release_cli.py`) | key pair files, envelope files | `keygen`, `sign`, `verify` | only an envelope made with a key the trusted public file has held is recorded; no refused or failed keygen leaves half a pair |
| Composite workflows (`robot_composite_skills`) | the step list of one call | health, observation, query, preview, one navigation | no motion before every stage has passed on evidence that agrees; a result claims no motion that was not accepted, and the ways in which it may deny one are known |
| Read-only agent loop (`robot_agent_orchestrator`) | lease file, run rows | recover, plan, check, execute steps, verify | one live loop of its kind; no step past a gate that failed; the result names what is stored |
| Diagnosis agent and MCP tools (`robot_diagnosis_*`) | a second lease file, run rows, tool servers, report files | five tools in a fixed order, each bound to the ones before | a diagnosis is about one recording; a bundle seals a complete report |
| LLM gateway (`robot_llm_gateway`) | none | bounded schema retries | a validated reply or a typed failure |
| Skill author pipeline (`robot_skill_author`) | candidate directories, registry rows, result files | generate, repair (bounded), gate, sandbox, register in six transactions; approve | what is offered is what the registry holds, and approve_cli approves only what was offered |
| Robot health (`health_ros.py`, `health.py`) | what the collecting node has heard | callbacks, one verdict | a healthy verdict is about the recent robot |
| Route preview, semantic query | the map file, the cost map (both external) | read map, cost, path; judge | refuses missing, foreign or torn evidence |
| Experiment analytics (`experiment_analytics.py`) | the logs of one experiment | load, correlate, detect, infer | agrees with the definition of nearest command and maximal window |
| RAG, final evaluation, artifact locks, contracts | files | pure functions | deterministic |

How they interact: the executor calls the registry, the approvals and the run store
in turn, each in a transaction of its own, and then an adapter. The agent loops
recover unfinished runs when they start, plan with the gateway, and call executors.
An operator changes the same tables from the command line. The navigation adapter
starts a child process, and the child shares the robot with Nav2 and the safety
monitor through ROS topics and actions. The author pipeline writes registry rows.

## 2. What is hard in it

`PROJECT.json` lists every hazard at its line. The themes:

* **Many writers of one row.** Recovery, an operator and a live executor may all
  move a run; each acts on a state it read earlier. So do callers of `advance`.
* **Authority read early, used late.** The Skill row is read once, and the clock of
  an approval is read before the write lock is awaited.
* **Crashes around a physical effect.** After a crash nobody knows whether the
  adapter was called; the design never repeats, so a run must fail closed.
* **A child process that moves a robot.** Two timeouts race, messages of the safety
  monitor overtake the loop that reads them, Nav2 answers late, odometry is lost.
* **Several writes that belong together** (six registry transactions of a candidate,
  the two files of a key pair, the six files of a report), where a crash in between
  leaves a half-done job and the next attempt finds it.
* **Evidence taken one piece after the other** while the world goes on: a map that is
  rewritten between query, approval and motion, an experiment recorded anew between two
  tools, safety messages heard at the beginning of a collection and judged at its end.

## 3. Modules and their correspondence to the code

`PROJECT.json` maps every definition to the lines it models.

**SkillRegistry** - the three governance tables. `skill` is the table of rows
(state, hash, manifest, signature; `NoRow` when there is none), `skillEvents` and
`skillApprovals` the two audit tables, kept per version. One action per operation,
each a whole write transaction (`BEGIN IMMEDIATE` to `COMMIT`); a call that raises
rolls back and is therefore no step. `expected` is the caller's view of the row and
may be anything. `MaxRejections` bounds how often one version is rejected.

**AgentRunStore** - the run tables with `create_run`, `transition`
(`TransitionAllowed`, `PlanRules`) and `fail_closed_recover`, which aborts every
active run in one transaction and leaves IDLE rows alone.

**ExecutionApprovals** - extends both with the approvals and a clock. `now` is a
parameter of both operations, any instant up to the present: the code samples the
clock before it waits (up to 5 s) for the write lock. The hash of an invocation is
the invocation, that is, SHA-256 over canonical JSON is taken to be injective.

**SkillRuntime** - composes the three with executor processes. Each process has a
position `pc` in `execute()` (the names in capitals are the run's states), the
handler's `current`, its copy `record` of the Skill row and the clock sample `now`.
A process yields between any two accesses to shared state, so every transaction, the
read of the Skill row, the clock and the adapter call are steps of their own.
`TraceFails` is an `OSError` out of `trace.record`: it leaves `execute()` with the run as it
stands, also out of the handler itself (`executor.py:423`), before FAILED is stored. `Crash`
ends a call anywhere: a kill, or another exception `execute()` does not handle.
`Recover`, `OperatorTransition`, `OperatorDecides`, `Govern` and `TimePasses` are the
other writers. `create-run` by hand is left out: `execute()` meets such a run as one that
another process has claimed. `calls` counts adapter invocations, `reported` what callers heard;
both are observations and no guard reads them.

**OneShotRun** - what the runtime promises: an identifier is used once, a run is
authorized at most once and only while undecided, acts at most once and only when
authorized, is decided once, and succeeds only if it acted. It says nothing about
how. `SkillRuntime!Phase` and `Verdict` are the refinement mapping. The promise
allows a decision to overtake an action already authorized, because the code does:
an EMERGENCY_STOP stored between EXECUTING and `adapter.invoke` stops no call.

**ApprovedNavigation** - one `invoke()` of the navigation adapter with the child
process (`preflight`, `connecting`, `sending`, `watching`, `draining`, `settling`),
the helper `cancel_ros`, the Nav2 server, the safety topic, odometry and the robot.
Callbacks (`HearSafety`, `HearOdometry`) run only in phases in which the code spins
the node. `seen` records what was delivered to the node, for the properties. `RosFails`
is the `except (NavigationInputError, RuntimeError)` around the whole of `_collect_result`
(`navigation_ros.py:451`): rclpy's errors are `RuntimeError`s, so an empty "unavailable" may
be the answer at any point, after the goal was sent or accepted too, and nothing is
cancelled. Nav2 may refuse a cancel (`CancelArrives`), which neither the node nor the helper
notices. Time is abstract: every timer may fire at any step. Path geometry and the health and preview
verdicts are choices of the environment.

**OneNavigation** - what that call promises: it tries at most `Attempts` times, asks the
robot to move once at most, never after a cancel or an answer, and each answer is about
that one motion (it arrived; it was never asked for; a cancel was attempted; the call was
given up) or says nothing of it ("failed", "unavailable" and errors are unclear). The refinement mapping is `Motion` (what became of the goal at Nav2),
`CancelAttempted` (by the child, or by the adapter for a child it has killed) and
`CallAnswer` (the class of the outcome). Nav2 may decide and finish a goal after the answer:
the promise allows it because the code does (finding 2).

**DiagnosisTools** - the five MCP tools and the server process that runs a call of the
long ones. `data` is the version of the experiment on disk; `Rerecorded` replaces it at
any moment. A server verifies the manifest's hashes first (`sources`) and reads the
samples afterwards (`content`), so the two may differ, and `analysis_sha256` stands for
the pair. `Write` puts the report's files one by one into a directory named by the
analysis; `written` holds what is there.

**AgentLoops** - AgentRunStore, DiagnosisTools, and a process per call of `run()` of
either loop (`loop[p]`: position, run, the local `current`, plan, normalized steps,
result). `lease` is the holder of each of the two lock files. `Move` is `_transition`:
the store, then the trace, which may fail when the store has moved on; then `current`
is stale in the handler, as it is in the code. `Conclude` is a terminal transition with
the result it returns; `HandleError` is the `except` clause (`_terminal_failure` in the
diagnosis loop). `CallTimesOut` kills the caller's child, not the server, which may
finish and write its report with nobody waiting. A Skill is one step, `ExecuteSkill`:
its inside is SkillRuntime.

**RobotHealth** - the collecting node. Every callback that can run while
`collect()` spins is a step, in any order, with any stamp; `now` is one clock for the
stamps and for the deadline (in the code two clocks, which only differ by drift within
one collection). `safe` is the robot's history of safety, of which a message reports one
instant: the topic one of this collection (volatile QoS), the diagnostic any one.
`HealthState` is `evaluate_health_snapshot`.

**RoutePreview** - the semantic map (what reading it gives, and its version: the content
hash), the version drawn in the cost map, and a preview being collected: map, clock,
cost, path, one step each. `MapIsRewritten` and `CostmapFollows` are the environment.
Whether a path keeps out of a zone, whether an old zone covers a new centre, and whether
a path reaches the goal are constants.

**CompositeWorkflow** - one call of `invoke()` over the two, stage by stage, and the
navigation child that takes the evidence again and compares hashes (`PreflightAllows`).
The child's own health collection is the same machine as the first stage, so here it
gives any verdict. The map changes in the stages that read it, not during health
collection, which reads no map: such steps commute. `StageRaises` stands for all that an
adapter may raise; the outer timeout of the whole call is SkillRuntime's subject, and
the one repeated attempt before motion is ApprovedNavigation's. `nav.pc` is where the
child is or how it ended, `nav.goal` what Nav2 knows of its goal: Nav2 answers when it will
(`Nav2Answers`), also after the child has stopped waiting or `RosFails` has ended it.

**ReleaseSigning** - extends SkillRegistry with the two key files, the keygen processes
(a step per file operation: check and replace of the private, then of the public key;
`TakeBack` is the `except` clause), the repository's artifacts, the output of `sign`, and
one `verify` whose three checks are three steps before `RecordSignature` calls
`record_verified_signature`. A signature verifies under the key it was made with and no
other. `unsettled` remembers that keygens overlapped, that one was killed, or that a
forced one failed: in these cases the code leaves what it leaves.

**SkillAuthor** - extends ReleaseSigning with pipeline processes. `RegisterCandidate`
and each `AdvanceCandidate` are transactions of their own, a conflict is a `Repair`
(another attempt, or a failed result), a killed process leaves its directories and rows.
Any request may be run again, whatever came of it before, one process at a time.
`results` holds the results of a request that named a candidate: `cli` writes them over one
another or, with `--output`, side by side, so that any of them may be the one a reader
finds. `CheckCandidate` (on any such result) and `ApproveCandidate` are approve_cli's two
halves, and `RegistryCli` is registry_cli: register, advance and approve by hand, with any
arguments, at any moment; `approver` remembers which program approved. `approve_cli` does not catch `RegistryConflictError`; the outcome, nothing
approved, is the same. Publication and edits of candidates are external.

**ExperimentAnalytics** - `analyze_experiment` as a machine: load the logs, correlate one
pose per step, scan one sample per step, severities, mechanisms. Positions lie on a line;
a speed is compared as a distance over a time, so the rounding to six digits is left out.

**MCSkillRegistry, MCAgentRunStore, MCSkillRuntime, MCAgentLoops, MCCompositeWorkflow,
MCSkillAuthor, MCExperimentAnalytics** give the constants finite
values; **SkillRegistryProofs, AgentRunStoreProofs, SkillRuntimeProofs,
ApprovedNavigationProofs, CompositeWorkflowProofs, AgentLoopsProofs, SkillAuthorProofs,
ExperimentAnalyticsProofs** hold the proofs (section 7). Definitions named after a mistake
(`TransitionTrustsCaller`, `UsableByRun`, `SwallowsConflict`, ...) stand next to the
operator they distort: replacing it by one of them must break the property paired
with it in `PROJECT.json`, which shows that the property depends on the code.

## 4. Runs

| Run | Instance | Shows |
|---|---|---|
| `skill_registry` | 2 versions, 2 hashes, both manifest classes, 1 rejection | whatever callers with stale views do: `TrailIsLifecycle`, `ApprovalClosesReview`, `ActiveIsGoverned`, `VersionPinned` |
| `agent_run_store` | 2 runs, 2 traces, 2 plans, any writer | `HistoryIsLegal`, `PlanBeforeExecution`, `DecidedIsFinal` |
| `skill_runtime` | 2 executors, 4 colliding invocations, 1 approval id, a clock tick, failing traces, crashes, recovery, deprecation, runs declared VERIFYING by hand | `AtMostOneCall`, `CallWasAuthorized`, `CallWasGoverned`, `OneOwnerPerRun`, `ResultMatchesStore` |
| `skill_runtime_fair` | 2 executors, 2 invocations, emergency stops and successes stored by hand | the runtime implements `OneShotRun`; a call of `execute()` that is not killed returns |
| `recovery_hits_live_run` | as above | violation, finding 1 |
| `approved_navigation` | one call, simulated clock, up to 3 attempts | `AtMostOneGoal`, `SuccessIsEarned`, `VerdictLeavesNoGoal`; the call implements `OneNavigation`; `InvokeReturns`, `UnsafeStopsRobot` |
| `late_goal_runs_unattended` | one call, real clock | violation, finding 2 |
| `stop_seen_before_motion` | one call, real clock | violation, finding 3 |
| `agents` | 2 read-only loops and 1 diagnosis loop on 2 run identifiers, 4 plans, 2 recordings | `StepsAreEvidenced`, `ResultNamesStoredState`, `DiagnosisIsOneExperiment`, `BundleSealsReport`, `RecoverySparesOwnKind` |
| `composite` | 1 call of either mode, 3 map versions, 3 paths, 3 ticks, 3 preview attempts | `MotionIsGrounded`, `ResultAdmitsMotion`, `HealthyIsRecent` |
| `skill_author` | 2 requests for one version, 2 drafts and an edit, 1 repair, 3 runs in all, registry_cli by hand, 2 keygens | `OfferIsRegistered`, `ReleaseIsTraceable`, `PairIsWhole` |
| `experiment_analytics` | 2 to 4 poses within 6 instants, 4 motions, up to 2 commands, broken logs | `MatchesAreNearest`, `WindowsAreMaximalRuns` |

What the properties of the runtime say deserves a word. `AtMostOneCall` compares any
two invocations: the same run or the same approval never leads to two calls, not
even with a new process, other inputs or after recovery. `CallWasAuthorized` says
the consumer's *clock sample* lay within the approval's lifetime: the commit may come
later, and then the approval is used although it has expired by wall-clock time. We
state what the code guarantees. `CallWasGoverned` allows DEPRECATED: a version
deprecated between the read of its row and the call is still executed, but never one
whose hash or signature differs.

`RecoverySparesOwnKind` is what the lease does give; finding 1 is what it does not.
`ResultNamesStoredState` covers both: a loop whose run was aborted by the other kind, or
whose row moved on before its trace failed, raises instead of returning a result.
`StepsAreEvidenced` lets the *last* gate of a read-only plan fail: the code then
succeeds with `safe_to_continue` false. `DiagnosisIsOneExperiment` holds although every
tool reads the experiment anew, because the gates bind the sources of the analysis to
those inspected and the analysis of the report to the one made before; a recording
between hashes and samples is caught because the next tool sees other hashes.

`ResultMatchesStore` is about results. An exception out of `execute()` tells nothing: the
handler's own transition may be refused, or the trace may fail before FAILED is stored, and
then the run may be active still (section 8).

`ResultAdmitsMotion` says what a reader may conclude from `motion_command_sent`. When it is
true, the goal was accepted. When it is false, the robot may still move, or have moved, in
three cases: the navigation raised after its goal was sent (state "failed", no navigation
step); Nav2 had not answered within 3 s and may accept later (finding 2); or a
`RuntimeError` ended the child after it had sent the goal, and its empty "unavailable" result
was taken (both state "aborted", with the navigation step). In every other case false means
that Nav2 never had the goal or rejected it.

`HealthyIsRecent` bounds the age of both safety observations by the collection
and by `max_diagnostic_age_sec`; the topic has no age check of its own, and a safe
message at the start of a collection outlives an unsafe robot at its end if no further
message arrives.

`OfferIsRegistered` is an invariant over every result a run has left behind, replaced since
or not. `ReleaseIsTraceable` speaks of approve_cli: a version that somebody approves through
registry_cli, after registering and advancing it by hand or after a pipeline died on it,
reaches release without any offer, and the code allows it.

The price of the pinned rows is liveness: after a crash between the six transactions the retry of the same candidate
finds it registered and conflicts at its first `advance`, a different candidate conflicts
with the row, and the version stays where it is until somebody advances it by hand.
`PairIsWhole` speaks of keygens that neither overlap nor die, and of forced ones only
when they do not fail: with `--force` the private key is gone before the public one is
replaced, which the code accepts.

`UnsafeStopsRobot` excepts what the code leaves alone: the child dies of an exception (the
adapter then reports an error and cancels nothing), a `RuntimeError` out of the watch loop
ends in "unavailable" without a cancel, Nav2 refuses the cancel and nobody looks at its
answer, or the emergency cancel fails, which `invoke()` reports. `MotionIsAttended` excepts
these cases too; `VerdictLeavesNoGoal` is about the verdicts that speak of the goal, not
about "failed" and "unavailable", and excepts a refused cancel.

## 5. Fairness

* `ExecutorsProceed`: weak fairness of each live executor's own steps. Operating
  systems schedule processes, SQLite waits are bounded by its busy timeout, and every
  adapter bounds its own time (`ApprovedNavigation!InvokeReturns` for the longest
  one). Crashes, recovery, operators and clocks get no fairness, and a crash ends the
  call, so the property is about calls that are not killed too.
* `ApprovedNavigation!Fairness`: the adapter waits in `subprocess.run(timeout=...)`,
  so its steps and the passing of the deadline are fair. For the robot to stop, safety
  messages must eventually get through, Nav2 must answer cancel requests (it may refuse)
  and end a goal it has begun to cancel, and a robot without a goal must brake. Nothing else of the child is fair: it may
  hang at any point, and the outer timeout has to deal with it.

The invariants use no fairness. Each of the two refinements shares a run with liveness
properties and does not need the fairness of that run.

## 6. Bounds, and why they are enough

* Registry: an operation touches one version, so two versions show interference if
  there were any; two hashes give wrong-hash calls; one rejection before an approval
  gives every shape of review. The proofs in section 7 remove these bounds.
* Run store: two runs are needed for colliding traces and for recovery of several
  runs at once; histories are bounded by the state machine, not by us. Proved for
  any number of runs, too.
* Runtime: conflicts are between two processes over one run, or one process and
  recovery, or two runs over one approval; the four invocations contain the same run
  with other inputs, the same approval under another run, a trace of another run, a
  missing approval and a wrong hash. `Ttl = {0}` with `MaxClock = 1` lets an approval
  be consumed in time, at its last instant, too late, and late with an early sample.
  The version starts released (`MCInit`) with either manifest; how it got there is
  `skill_registry`'s question. An operator may declare any run VERIFYING, the edge that skips
  the adapter; the theorems allow any targets. `View` drops the order of `agent_events` from the
  state: no guard reads it and the invariants ask only whether a run has entered
  EXECUTING (and its type). Executors are interchangeable (`Symmetry`); the fair run
  uses neither view nor symmetry.
* Fair run: `MaxClock = 0` and two invocations, one with and one without approval.
  Emergency stops, and a success stored by hand, replace the clock as the source of
  refused transitions. That any other move by hand maps too is proved (section 7).
* Navigation: no bound but the code's own three attempts.
* Agents: two loops of one kind compete for a lease, one of the other kind for the runs;
  two identifiers are enough for a live run and one to abort or to collide with. Plans
  are the cases of the gates: a Skill without evidence policy last, one that is not
  read-only, the diagnosis order with and without inputs that the tool normalises. Two
  recordings distinguish hashes from samples. A process makes one call of `run()`.
* Composite: the second map version moves the zone a little (the old one in the cost map
  still covers its centre), the third moves it away; the observer writes one of them.
  Three ticks hold a stamp ahead of the clock, a fresh and a stale one.
* Skill author: two processes are a conflict, one repair is a second attempt, and three runs
  in all (`MaxRuns`) are two requests at once and one of them run again after a crash or a
  result. Two processes of different versions share no row. Pipelines, approve_cli and
  registry_cli up to the approval share no file with the release tools, and these touch only
  versions that are approved, with which those are done: both kinds commute, so the tools
  run last, when no process is at work (`MCNext`), and what authoring left behind is dropped
  from the state then (`View`). The theorems are about `AuthoringSpec`, without this order.
* Analytics: two commands give both neighbours of a pose, ties and both ends; four poses
  give two windows with a gap at, below and above `WindowGap`. Broken logs are empty,
  unordered, of one pose, or have a negative instant among good ones.

Deadlock is off everywhere for one reason: all work may be done (a version
DEPRECATED, every run decided, every call and process ended).

## 7. Proofs

TLAPS proves every state and action property of the runs and the implementation of
`OneShotRun` and `OneNavigation`: for any number of processes, runs, versions, recordings,
maps and samples, and for any bounds. Each theorem has the same shape: an inductive
invariant holds initially and is kept by every step (one lemma per action or per family
of actions), implies the property, and temporal logic does the rest. A property alone is
hardly ever inductive; what follows says what had to be added. TLC checked each
inductive invariant on its run's instance before it was proved.

| Module | Invariant | Theorem: property |
|---|---|---|
| `SkillRegistryProofs` | `RegistryInvariant`: `RegistryInv` | `RegistryTypes`: `RegistryTypeOK`; `TrailAlwaysLifecycle`: `TrailIsLifecycle`; `ApprovalAlwaysClosesReview`: `ApprovalClosesReview`; `ActiveAlwaysGoverned`: `ActiveIsGoverned`; `VersionsArePinned`: `VersionPinned` (action) |
| `AgentRunStoreProofs` | `RunsInvariant`: `RunsInv` | `RunsTypes`: `RunsTypeOK`; `HistoryAlwaysLegal`: `HistoryIsLegal`; `PlanAlwaysFirst`: `PlanBeforeExecution`; `DecisionsAreFinal`: `DecidedIsFinal` (action) |
| `SkillRuntimeProofs` | `RuntimeInvariant`: `RuntimeInv`; then `VerifyingActed` | `RuntimeTypes`: `RuntimeTypeOK`; `RunsHaveOneOwner`: `OneOwnerPerRun`; `AdapterCalledOnce`: `AtMostOneCall`; `CallsAreAuthorized`: `CallWasAuthorized`; `CallsAreGoverned`: `CallWasGoverned`; `RuntimeImplementsOneShotRun`: `ImplementsOneShotRun`; `ResultsAlwaysMatch`: `ResultMatchesStore`; `RuntimeImplementsStores`: `RegistrySpec /\ RunsSpec`; `ApprovalsAreSpentOnce` (action) |
| `ApprovedNavigationProofs` | `NavInvariant`: `NavInv` | `NavTypes`; `GoalSentOnce`: `AtMostOneGoal`; `SuccessAlwaysEarned`: `SuccessIsEarned`; `NoGoalBehindVerdict`: `VerdictLeavesNoGoal`; `CallImplementsOneNavigation`: `ImplementsOneNavigation`; `NoGoalAfterwards` (action) |
| `CompositeWorkflowProofs` | `FlowInvariant`: `FlowInv` | `FlowTypes`: `FlowTypeOK`; `MotionAlwaysGrounded`: `MotionIsGrounded`; `ResultAlwaysAdmitsMotion`: `ResultAdmitsMotion`; `HealthyAlwaysRecent`: `HealthyIsRecent` (action) |
| `AgentLoopsProofs` | `AgentsInvariant`: `AgentsInv` | `AgentsTypes`: `AgentsTypeOK`; `StepsAlwaysEvidenced`: `StepsAreEvidenced`; `ResultAlwaysStored`: `ResultNamesStoredState`; `DiagnosisAlwaysOneExperiment`: `DiagnosisIsOneExperiment`; `BundleAlwaysSeals`: `BundleSealsReport`; `RecoverySpares`: `RecoverySparesOwnKind` (action); `SealedReportStays` (action); `AgentsImplementStore`: `RunsSpec` |
| `SkillAuthorProofs` | `AuthorInvariant`: `AuthorInv` | `AuthorTypes`: `AuthorTypeOK`; `OfferAlwaysRegistered`: `OfferIsRegistered`; `ReleaseAlwaysTraceable`: `ReleaseIsTraceable`; `PairAlwaysWhole`: `PairIsWhole`; `AuthoringImplementsRegistry`: `RegistrySpec` |
| `ExperimentAnalyticsProofs` | `AnalysisInvariant`: `AnalysisInv` | `AnalysisTypes`; `MatchesAlwaysNearest`: `MatchesAreNearest`; `WindowsAlwaysMaximal`: `WindowsAreMaximalRuns` |

The theorems without a property are stated in the proof module alone: two type
invariants, and what a step may never do (`ApprovalsAreSpentOnce`, `NoGoalAfterwards`,
`SealedReportStays`), which follows from an invariant of the table.

**Registry.** `RegistryInv` is the type invariant and, for each version,
`TrailOf /\ ReviewOf /\ SignatureOf`. `ActiveIsGoverned` alone is not inductive: on
the step to ACTIVE one must know that a stored signature is the version's own, which
`advance` does not check (it only asks for some signature), and that review lies
behind. `SignatureOf` supplies the first (a signature is stored exactly from SIGNED
on, and names this version and hash); `TrailOf` and `ReviewOf` the second, because
the trail of a version in the k-th state has exactly k events (`ReachedByLength`).
The step is proved once for the common form `Moves` of the four operations that
change a state (one row, one event, one edge), once for registration and once for a
decision that moves nothing. `RegistryStep` says it for a step of any module that uses
the registry.

**Run store.** `RunsInv` is the type invariant and, for each run,
`HistoryOf /\ PlanBehind`. `HistoryOf` is inductive by itself; `PlanBeforeExecution` and
`DecidedIsFinal` are not: the step to EXECUTING looks at `plan_json`, so one must know
that a stored plan means VALIDATING was entered, and a transition that stores a plan
could replace one unless a run before VALIDATING has none. `PlanBehind` says both.
`RunMoves` is the common form of a transition and of what recovery does to each active
run. `RunsStep` and `FinalStep` are the two results for a step of any module.

**Runtime.** Row, run, approval and clock are read in separate steps, so no property is
inductive: a process that is about to call knows what it once read. `LiveInv` says what
each position of `execute()` has secured *and nobody can undo*: the row is released and
agrees with the copy (`SameVersion`), the plan is stored, the approval is used up by
exactly this invocation, EXECUTING is in the history, nothing has acted for this run.
That it cannot be undone are lemmas about the stores' steps, from `VersionPinned` and
`DecidedIsFinal`. `ActedInv` keeps the same facts for an invocation that acted after its
process is gone. `OneOwnerPerRun` has to be a part: a second owner could act for a run
on whose behalf the first one acted. `RuntimeImplementsStores` says that execution,
recovery, operators and governance change the two stores by the stores' operations only,
which carries all their theorems over. `ApprovalsAreSpentOnce` does the same for the third
table: `GrantMoves` lists all that may happen to an approval in one step.

**OneShotRun, and what callers hear.** `RuntimeImplementsOneShotRun` has a hypothesis about
`transition-run`, the command by which an operator moves a run by hand. The command checks
that the move is an edge of the state diagram, not what the edge stands for. The theorem
assumes `VerifiesByCode`: nobody declares a run VERIFYING by hand (the next edge is
SUCCEEDED, of a run that need never have acted), and without it the statement is false of
the code. Any other move by hand is allowed, for it ends the run, authorizes it, or is no
step of the promise. All other theorems of the runtime hold for any targets.
`VerifyingActed` (a run that is VERIFYING has acted) is what it adds to `RuntimeInv`.
`StepMaps` is the simulation, action by action: `EnterExecuting` authorizes, `CallAdapter`
acts, a transition to a terminal state decides, the rest stutters. `ResultsAlwaysMatch`
needs no hypothesis: a result is returned right after its own terminal transition was
stored, which nothing revises (`ReportHolds`), and `LiveInv` says that the process which
reports a success has acted.

**Navigation.** `AtMostOneGoal` needs that a retry, and every result that leads to one,
comes before a goal was sent (`SentOnce`); the other two need what the node remembers of
messages it has seen (`NodeRemembers`), because the verdict is computed from the node's
fields and the property speaks of Nav2's goal and of messages, and how the child came to
its result (`VerdictHasReason`). The reads of old odometry (finding 3) and the late goal
(finding 2) are in the model and contradict none of it. An "unavailable" result may come at any point, so nothing is said of
its goal, and it answers nothing in the promise. The refinement needs one thing
more: the node has cancelled exactly when its verdict is forced (`NodeRemembers`), so that
"canceled" and "safety_stopped" are answers about a goal that was accepted and a cancel
that was sent. `AdapterMaps`, `ChildMaps` and `EnvironmentMaps` are the simulation: a cold
clock retries, `SendGoal` asks, a cancel of the child and the end of its waiting adapter
cancel, the outcome answers, messages and timers stutter. `NoGoalAfterwards` is what the
promise means for Nav2.

**Composite workflow.** `StepsInOrder` counts the steps taken by stage; `MapIsCurrent`
orders the map versions (written by the observation, on disk, read by the preview);
`SentOnEvidence` freezes what the preflight saw, for the map goes on changing after the
goal was sent. `ResultTells` ties the result to the way the child ended, and `ChildInStage`
each such way to what may be true of the goal, then and when Nav2 answers later.
`HeardLive` is what a volatile topic gives and the recency of the verdict rests on.

**Agent loops.** `LeaseHeld` makes the lock file and the calls between acquiring and
leaving the same thing: that is `RecoverySparesOwnKind`, and without it nothing could be
said of a run between two steps of its loop. `Stands` says what a place of the program
has established about plan and steps. `VersionsFollow` orders the recordings that the
tools have seen (`sources` of an analysis are read before its `content`, the content of
one tool before the sources of the next), which is why equal hashes at the gates mean
one recording; `ServerFollows` does so for a server and counts the report files it has
written in `WriteOrder`. `SealedReportStays` combines `BundleSealsReport` with the fact that
servers only add files (`ReportsGrow`).

**Authoring and release.** `RegisteredSoFar` relates a pipeline's step among the six
transactions to the length of the version's trail: competing authors and an operator's
registry_cli stop it by a conflict or not at all, and what they add to the trail only
lengthens it. `OfferIsRegistered` follows because rows are pinned and trails only grow
(`OffersStand`). `ApprovedIsOffered` needs the reviewer's two halves (`ReviewerInv`): the
result that was checked is never lost, for `results` only grows, whatever the next run
writes over the file. `PairInv` describes the files between the steps of the single keygen
at work.

**Analytics.** Both properties rest on the order of the timestamps. The loaders compare
neighbours; that such a log is in order as a whole, and that the commands before an
instant are an initial segment of it, would be an induction over the log. It follows
instead from the cardinalities of intervals (`InitialSegment`, `Stepwise`), which gives
`IncreasingIsInOrder` and `Bisection`: `bisect_left` splits the log. `SearchFindsNearest`
then compares the two candidates with every other command. The windows are built sample by
sample, so `WindowsInv` states the property for the samples scanned so far (`MaximalRuns`)
and adds that the last window reaches to the last flagged sample; a step keeps, opens or
extends it (`WindowKept`, `WindowOpened`, `WindowExtended`). The severities and the
mechanisms come after, from the flags of the finished windows. The proof corrected the
property. `MatchesAreNearest` also says that an analysis with acceptable logs is refused
only for a pose without a command within the tolerance; its condition had counted a command
log with one negative and one good instant as acceptable, which the loader refuses. The run
has such logs now.

**Assumptions** are the named ones of the modules, and TLC evaluates them: NULL is no
hash, manifest, envelope, time, decision, plan or key; controlled manifests are
manifests; invocations, plans and key pairs name things of the model; bounds are
numbers; the two kinds of loops are disjoint and each diagnosis loop has a server; the
steps of a plan are not empty (`minItems` of the plan schema); what an operator sets by
hand are states of a run; thresholds are numbers, and logs are sequences of samples whose
fields have the types that the conversions of the loaders let through.

**Only model-checked**: the liveness properties `ExecuteReturns`, `InvokeReturns` and
`UnsafeStopsRobot`, since the prover treats neither fairness nor ENABLED; and the findings,
which are counterexamples.

## 8. Findings

1. **Recovery aborts live runs** (`registry.py:842`). Every agent loop calls
   `fail_closed_recover` when it starts, which aborts every active run. A standalone
   executor holds no lease, and the two loops lock different files
   (`.agent_loop.lock`, `.diagnosis_agent.lock`), so the run of a live process can be
   aborted. `docs/read_only_agent_loop.md:65` allows recovery only when the lock proves
   that no live Agent process exists. The damage is contained: the executor's next
   transition is refused, so the action is never repeated and no success is claimed
   (`AtMostOneCall`, `ResultMatchesStore`).
2. **A goal accepted late runs unattended** (`navigation_ros.py:241`). `execute_goal`
   waits 3 s for the answer to its goal request and then gives up without a cancel.
   A goal that Nav2 accepts later moves the robot with nobody watching, while
   `skills/navigate_to_approved_pose/SKILL.md:13` promises monitoring during motion
   and cancellation on timeout.
3. **A stop may be "verified" by old odometry** (`navigation_ros.py:331`). The
   postcondition reads the last speeds received, of any age; with odometry lost after
   the goal was sent, a message from before the motion satisfies it. `SKILL.md:14`
   requires a verified stopped robot.

Other behaviour worth knowing, without a document it contradicts:

* An IDLE run of a crashed process is never recovered, and only an EMERGENCY_STOP can end it.
* If the handler's own FAILED transition is refused, or its `trace.record` raises first
  (`executor.py:423`), the exception leaves `execute()` with no result and the run as it is,
  possibly active, for recovery or an operator to end.
* A `RuntimeError` while a goal is watched (`navigation_ros.py:451`; rclpy's errors when the
  middleware shuts down are such) ends in "unavailable" with an empty navigation and without a
  cancel, while the goal goes on.
* The cancel helper exits 0 whatever the server answered, and the node does not read the
  answer to its own cancel.
* registry_cli approves a version that no pipeline has offered.

## 9. Not modelled

Text, JSON and schema contents; the v1 to v2 database migration; actor and reason
fields; hash collisions and forged signatures; power loss inside a SQLite
transaction (taken as atomic), and a `chmod` that fails on a key file just replaced.

* **LLM gateway**: one sequential call without shared state. Its callers' models let it
  answer with anything a validated reply may be, or fail; its retries change nothing but
  their own counter.
* **Versioned RAG**: a deterministic floating-point ranking over an immutable index. The
  models let a retrieval succeed or fail.
* **Final evaluation**, and the evaluation and report command lines: batch counting of
  fixture outcomes.
* **Floating-point geometry** (path clearance, angle and goal errors, the drawings and
  the distance matrix of an analysis): its verdicts are constants or choices.
* **Observation process** of the composite workflow (camera, projection, fusion of the
  map): one step that writes a new map version or raises.
* **Two processes that run one request at the same time**: they would share the attempt
  directories; a request has one process at a time here, two requests for one version may
  be at work together.
* **JSON schema validation** of Skill contracts: stateless; it may refuse anywhere.

## 10. Plan

Done: SkillRegistry, AgentRunStore, ExecutionApprovals, SkillRuntime implementing
OneShotRun, ApprovedNavigation implementing OneNavigation, DiagnosisTools and AgentLoops,
RobotHealth, RoutePreview and CompositeWorkflow, ReleaseSigning and SkillAuthor,
ExperimentAnalytics, and the proofs of section 7. No safety property of a passing run is
left without a theorem.

Open, without a date: proofs of the three liveness properties, which need a prover for
fairness and ENABLED; and a clock in AgentLoops, without which the diagnosis loop's wall
clock limit is a step that may fail anywhere.
