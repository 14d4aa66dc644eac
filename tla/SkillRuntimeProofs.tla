------------------------- MODULE SkillRuntimeProofs -------------------------
(***************************************************************************)
(* What the runtime guarantees for any number of processes, runs, Skills   *)
(* and approvals: a run has one owner and acts at most once; what acted    *)
(* was planned, authorized and governed as it acted, although the registry *)
(* row, the run, the approval and the clock are read in separate steps.    *)
(*                                                                         *)
(* The inductive invariant says, for every process, what its program       *)
(* counter has secured (LiveInv), and for every invocation that acted,     *)
(* what remains true after the process is gone (ActedInv).  It rests on    *)
(* the invariants of the two stores and on what their steps never undo.    *)
(***************************************************************************)
EXTENDS SkillRuntime, SkillRegistryProofs, AgentRunStoreProofs

\* the sets of program counters behind the milestones of execute()
Acted == {"calling", "VERIFYING"}
Committed == Acted \cup {"EXECUTING"}
Waiting == {"WAITING_APPROVAL", "consuming", "granted"}
Cleared == Committed \cup Waiting
Planned == Cleared \cup {"VALIDATING"}
Resolved == Planned \cup {"resolved", "PLANNING"}
Owning == Resolved \cup {"IDLE", "RETRIEVING", "failing"}

Called(r) == \E inv \in Invocation : inv.run = r /\ calls[inv] > 0

\* the approval of exactly this invocation, used up in its lifetime
Granted(inv) ==
  LET row == execApprovals[inv.approval] IN
  /\ inv.approval \in ApprovalId /\ Issued(inv.approval)
  /\ row.invocation = inv /\ row.decision = "APPROVED"
  /\ row.consumed \in Nat /\ row.consumed <= row.expires

Released(s) == skill[s].state \in {"ACTIVE", "DEPRECATED"}

\* the stored version is, or was, in use and agrees with the copy of its row
SameVersion(s, row) ==
  /\ Released(s)
  /\ skill[s].hash = row.hash
  /\ skill[s].manifest = row.manifest
  /\ skill[s].signature = row.signature

\* what the program counter of e has secured
LiveInv(e) ==
  LET x == exec[e] IN
  /\ x.pc \in Owning => Exists(x.inv.run)
  /\ x.pc \in Owning \ (Acted \cup {"failing"}) => ~ Called(x.inv.run)
  /\ x.pc \in Acted => calls[x.inv] > 0
  /\ x.pc \in Resolved => x.record.hash = x.inv.hash /\ SameVersion(x.inv.skill, x.record)
  /\ x.pc \in Planned => runs[x.inv.run].plan = PlanOf(x.inv)
  /\ x.pc \in Cleared => PolicyMayPass(e)
  /\ x.pc \in Waiting => NeedsApproval(e)
  /\ x.pc \in Committed \cup {"granted"} /\ x.inv.approval # None => Granted(x.inv)
  /\ x.pc \in Committed => Entered(x.inv.run, "EXECUTING")

\* what stays true of an invocation that acted
ActedInv(inv) ==
  calls[inv] > 0 =>
    /\ calls[inv] = 1
    /\ \A other \in Invocation : calls[other] > 0 /\ other.run = inv.run => other = inv
    /\ Exists(inv.run)
    /\ runs[inv.run].plan = PlanOf(inv)
    /\ Entered(inv.run, "EXECUTING")
    /\ Released(inv.skill)
    /\ skill[inv.skill].hash = inv.hash
    /\ skill[inv.skill].signature = [skill |-> inv.skill, hash |-> inv.hash, key |-> TrustedKey]
    /\ skill[inv.skill].manifest \in Controlled <=> inv.approval # None
    /\ inv.approval # None => Granted(inv)

StoresInv == RegistryInv /\ RunsInv /\ ApprovalsTypeOK

RuntimeInv ==
  /\ RuntimeTypeOK
  /\ StoresInv
  /\ OneOwnerPerRun
  /\ \A e \in Executor : LiveInv(e)
  /\ \A inv \in Invocation : ActedInv(inv)

-----------------------------------------------------------------------------
(***************************************************************************)
(* What the steps of the stores never undo.                                *)
(***************************************************************************)
LEMMA TransitionOutcome ==
  ASSUME RunsInv, NEW r \in RunId, NEW target \in AgentStates, NEW expected \in AgentStates,
         NEW plan \in Plan \cup {NoPlan}, Transition(r, target, expected, plan)
  PROVE  /\ RunsNext
         /\ Exists(r) /\ Exists(r)'
         /\ runs[r].state = expected /\ runs'[r].state = target
         /\ plan # NoPlan => runs'[r].plan = plan
         /\ Entered(r, target)'
         /\ \A q \in RunId \ {r} : runs'[q] = runs[q] /\ agentEvents'[q] = agentEvents[q]
<1>1. RunsTypeOK
  BY DEF RunsInv
<1>2. /\ RunMoves(r, target, plan)
      /\ \A q \in RunId \ {r} : runs'[q] = runs[q] /\ agentEvents'[q] = agentEvents[q]
  BY <1>1, TransitionMoves
<1>3. /\ runs'[r].state = target /\ Exists(r)'
      /\ plan # NoPlan => runs'[r].plan = plan
      /\ [from |-> runs[r].state, to |-> target] \in RunEvent
  BY <1>1, <1>2, MovedRow
<1>4. Recorded(r, [from |-> runs[r].state, to |-> target])
  BY <1>2 DEF RunMoves
<1>5. Entered(r, target)'
  BY <1>1, <1>3, <1>4, RecordedEnters
<1>6. Exists(r) /\ runs[r].state = expected
  BY DEF Transition, MayTransition
<1>7. RunsNext
  BY DEF RunsNext
<1> QED BY <1>2, <1>3, <1>5, <1>6, <1>7

LEMMA CreateOutcome ==
  ASSUME RunsInv, NEW r \in RunId, NEW t \in TraceId, CreateRun(r, t)
  PROVE  /\ RunsNext
         /\ ~ Exists(r) /\ Exists(r)' /\ runs'[r].state = "IDLE"
         /\ \A q \in RunId \ {r} : runs'[q] = runs[q] /\ agentEvents'[q] = agentEvents[q]
<1>1. runs \in [RunId -> StoredRun \cup {NoRun}] /\ DOMAIN agentEvents = RunId
  BY DEF RunsInv, RunsTypeOK
<1>2. /\ runs'[r] = [state |-> "IDLE", trace |-> t, plan |-> NoPlan]
      /\ \A q \in RunId \ {r} : runs'[q] = runs[q] /\ agentEvents'[q] = agentEvents[q]
  BY <1>1 DEF CreateRun, RecordRunEvent
<1>3. RunsNext /\ ~ Exists(r)
  BY DEF RunsNext, CreateRun
<1> QED BY <1>2, <1>3 DEF Exists

\* an event that was recorded stays in the history
LEMMA EnteredStays ==
  ASSUME RunsInv, [RunsNext]_runVars, NEW r \in RunId, NEW state, Entered(r, state)
  PROVE  Entered(r, state)'
<1>1. RunsTypeOK
  BY DEF RunsInv
<1>2. agentEvents'[r] = agentEvents[r] => Entered(r, state)'
  BY DEF Entered
<1>3. ASSUME NEW event \in RunEvent, Recorded(r, event) PROVE Entered(r, state)'
  BY <1>1, <1>3, RecordedEnters
<1>4. ASSUME NEW target \in AgentStates, NEW plan \in Plan \cup {NoPlan},
             RunMoves(r, target, plan)
      PROVE  Entered(r, state)'
  <2>1. [from |-> runs[r].state, to |-> target] \in RunEvent
    BY <1>1, <1>4, MovedRow
  <2> QED BY <1>3, <1>4, <2>1 DEF RunMoves
<1>5. ASSUME NEW q \in RunId, NEW t \in TraceId, CreateRun(q, t) PROVE Entered(r, state)'
  <2>1. CASE q # r
    BY <1>2, <1>5, <2>1, CreateOutcome
  <2>2. CASE q = r
    <3>1. [from |-> "NONE", to |-> "IDLE"] \in RunEvent
      BY StatesApart DEF RunEvent
    <3>2. Recorded(r, [from |-> "NONE", to |-> "IDLE"])
      BY <1>1, <1>5, <2>2 DEF RunsTypeOK, CreateRun, RecordRunEvent, Recorded
    <3> QED BY <1>3, <3>1, <3>2
  <2> QED BY <2>1, <2>2
<1>6. ASSUME NEW q \in RunId, NEW target \in AgentStates, NEW expected \in AgentStates,
             NEW plan \in Plan \cup {NoPlan}, Transition(q, target, expected, plan)
      PROVE  Entered(r, state)'
  <2>1. /\ RunMoves(q, target, plan)
        /\ \A x \in RunId \ {q} : agentEvents'[x] = agentEvents[x]
    BY <1>1, <1>6, TransitionMoves
  <2> QED BY <1>2, <1>4, <2>1
<1>7. CASE FailClosedRecover
  <2>1. "ABORTED" \in AgentStates
    BY StatesApart
  <2> QED BY <1>1, <1>2, <1>4, <1>7, <2>1, RecoveryMoves
<1>8. CASE UNCHANGED runVars
  BY <1>2, <1>8 DEF runVars
<1> QED BY <1>5, <1>6, <1>7, <1>8 DEF RunsNext

\* a released version stays released, under the same hash, manifest and signature
LEMMA ReleasedStays ==
  ASSUME RegistryInv, RegistryInv', [RegistryNext]_registryVars, NEW s \in Skill, Released(s)
  PROVE  /\ Released(s)'
         /\ skill'[s].hash = skill[s].hash
         /\ skill'[s].manifest = skill[s].manifest
         /\ skill'[s].signature = skill[s].signature
<1>1. Pinned(s)
  BY PinStep
<1>2. Registered(s) /\ skill[s].signature # None
  BY DEF Released, Registered, RegistryInv, VersionInv, SignatureOf
<1>3. skill[s].state = Lifecycle[9] \/ skill[s].state = Lifecycle[10]
  BY LifecycleTable DEF Released
<1>4. \A target : Follows(skill[s].state, target) => target = "DEPRECATED"
  BY <1>3, FollowsIsNext, LifecycleTable
<1>5. skill'[s].state = skill[s].state \/ skill'[s].state = "DEPRECATED"
  BY <1>1, <1>2, <1>4 DEF Pinned
<1> QED BY <1>1, <1>2, <1>5 DEF Pinned, Released

\* one operation on the table of approvals, or none
ApprovalStep ==
  \/ \E inv \in Invocation, ttl \in Ttl, decision \in Decisions, now \in 0..clock :
       IssueExecutionApproval(inv, ttl, decision, now)
  \/ \E inv \in Invocation, now \in Nat :
       inv.approval # None /\ ConsumeExecutionApproval(inv, now)
  \/ Tick
  \/ UNCHANGED approvalVars

LEMMA InvocationFields ==
  ASSUME NEW inv \in Invocation
  PROVE  /\ inv.run \in RunId /\ inv.trace \in TraceId /\ inv.skill \in Skill
         /\ inv.hash \in Hash /\ inv.approval \in ApprovalId \cup {None}
         /\ PlanOf(inv) \in Plan /\ PlanOf(inv) # NoPlan
BY InvocationAssumption, PlanAssumption, NoPlanAssumption

LEMMA IssueWrites ==
  ASSUME ApprovalsTypeOK, NEW inv \in Invocation, NEW ttl \in Ttl, NEW decision \in Decisions,
         NEW now \in 0..clock, IssueExecutionApproval(inv, ttl, decision, now)
  PROVE  /\ ApprovalsTypeOK'
         /\ inv.approval \in ApprovalId /\ ~ Issued(inv.approval)
         /\ \A a \in ApprovalId : a # inv.approval => execApprovals'[a] = execApprovals[a]
<1> DEFINE row == [invocation |-> inv, decision |-> decision, expires |-> now + ttl,
                   consumed |-> None]
<1>1. now + ttl \in Nat
  BY TtlAssumption DEF ApprovalsTypeOK
<1>2. row \in Approval
  BY <1>1 DEF Approval
<1>3. inv.approval \in ApprovalId /\ ~ Issued(inv.approval)
  BY InvocationFields DEF IssueExecutionApproval
<1>4. execApprovals' = [execApprovals EXCEPT ![inv.approval] = row] /\ clock' = clock
  BY DEF IssueExecutionApproval
<1> HIDE DEF row
<1> QED BY <1>2, <1>3, <1>4 DEF ApprovalsTypeOK

LEMMA ConsumeWrites ==
  ASSUME ApprovalsTypeOK, NEW inv \in Invocation, NEW now \in Nat,
         inv.approval # None, ConsumeExecutionApproval(inv, now)
  PROVE  /\ ApprovalsTypeOK'
         /\ execApprovals[inv.approval].consumed = None
         /\ \A a \in ApprovalId : a # inv.approval => execApprovals'[a] = execApprovals[a]
         /\ Granted(inv)'
<1> DEFINE a == inv.approval
           row == execApprovals[a]
<1>1. a \in ApprovalId
  BY InvocationFields
<1>2. /\ row # NoApprovalRow /\ row.invocation = inv /\ row.decision = "APPROVED"
      /\ row.consumed = None /\ now <= row.expires
  BY DEF ConsumeExecutionApproval, Usable, Issued
<1>3. row \in Approval
  BY <1>1, <1>2 DEF ApprovalsTypeOK
<1>4. /\ execApprovals' = [execApprovals EXCEPT ![a] = [row EXCEPT !.consumed = now]]
      /\ clock' = clock
  BY DEF ConsumeExecutionApproval
<1>5. /\ [row EXCEPT !.consumed = now] \in Approval
      /\ [row EXCEPT !.consumed = now].invocation = inv
      /\ [row EXCEPT !.consumed = now].decision = "APPROVED"
      /\ [row EXCEPT !.consumed = now].expires = row.expires
      /\ [row EXCEPT !.consumed = now].consumed = now
  BY <1>2, <1>3 DEF Approval
<1>6. execApprovals'[a] = [row EXCEPT !.consumed = now]
  BY <1>1, <1>4 DEF ApprovalsTypeOK
<1>7. NoApprovalRow.decision # "APPROVED"
  BY NullAssumption DEF NoApprovalRow, Decisions
<1>8. Granted(inv)'
  BY <1>1, <1>2, <1>5, <1>6, <1>7 DEF Granted, Issued
<1>9. ApprovalsTypeOK'
  BY <1>1, <1>4, <1>5 DEF ApprovalsTypeOK
<1>10. \A x \in ApprovalId : x # a => execApprovals'[x] = execApprovals[x]
  BY <1>4 DEF ApprovalsTypeOK
<1> QED BY <1>2, <1>8, <1>9, <1>10

LEMMA ApprovalsTyped == ASSUME ApprovalsTypeOK, ApprovalStep PROVE ApprovalsTypeOK'
<1>1. CASE Tick
  BY <1>1 DEF Tick, ApprovalsTypeOK
<1>2. CASE UNCHANGED approvalVars
  BY <1>2 DEF approvalVars, ApprovalsTypeOK
<1> QED BY <1>1, <1>2, IssueWrites, ConsumeWrites DEF ApprovalStep

\* a used approval is never issued again, consumed again or changed
LEMMA GrantStays ==
  ASSUME ApprovalsTypeOK, ApprovalStep, NEW inv \in Invocation, Granted(inv)
  PROVE  Granted(inv)'
<1> DEFINE a == inv.approval
<1>1. /\ a \in ApprovalId /\ Issued(a)
      /\ execApprovals[a].consumed # None
  BY NullAssumption DEF Granted
<1>2. execApprovals'[a] = execApprovals[a] => Granted(inv)'
  BY DEF Granted, Issued
<1>3. CASE Tick \/ UNCHANGED approvalVars
  BY <1>2, <1>3 DEF Tick, approvalVars
<1>4. ASSUME NEW other \in Invocation, NEW ttl \in Ttl, NEW decision \in Decisions,
             NEW now \in 0..clock, IssueExecutionApproval(other, ttl, decision, now)
      PROVE  Granted(inv)'
  BY <1>1, <1>2, <1>4, IssueWrites
<1>5. ASSUME NEW other \in Invocation, NEW now \in Nat, other.approval # None,
             ConsumeExecutionApproval(other, now)
      PROVE  Granted(inv)'
  BY <1>1, <1>2, <1>5, ConsumeWrites
<1> QED BY <1>3, <1>4, <1>5 DEF ApprovalStep

-----------------------------------------------------------------------------
\* the shared tables take one step each, or none
StoresStep == [RegistryNext]_registryVars /\ [RunsNext]_runVars /\ ApprovalStep

\* what the invariant of a process or an invocation says of the tables, once true, stays
Kept ==
  /\ \A r \in RunId :
       /\ Exists(r) => Exists(r)'
       /\ runs[r].plan # NoPlan => runs'[r].plan = runs[r].plan
       /\ Entered(r, "EXECUTING") => Entered(r, "EXECUTING")'
  /\ \A s \in Skill : Released(s) =>
       /\ Released(s)'
       /\ skill'[s].hash = skill[s].hash
       /\ skill'[s].manifest = skill[s].manifest
       /\ skill'[s].signature = skill[s].signature
  /\ \A inv \in Invocation : Granted(inv) => Granted(inv)'

LEMMA StoresKeep ==
  ASSUME StoresInv, StoresStep
  PROVE  StoresInv' /\ Kept
<1>1. RegistryInv /\ RunsInv /\ ApprovalsTypeOK
  BY DEF StoresInv
<1>2. RegistryInv'
  BY <1>1, RegistryStep DEF StoresStep
<1>3. RunsInv'
  BY <1>1, RunsStep DEF StoresStep
<1>4. ApprovalsTypeOK'
  BY <1>1, ApprovalsTyped DEF StoresStep
<1>5. ASSUME NEW r \in RunId
      PROVE  /\ Exists(r) => Exists(r)'
             /\ runs[r].plan # NoPlan => runs'[r].plan = runs[r].plan
             /\ Entered(r, "EXECUTING") => Entered(r, "EXECUTING")'
  <2>1. CASE RunsNext
    BY <1>1, <2>1, FinalStep, EnteredStays DEF Final, Exists
  <2>2. CASE UNCHANGED runVars
    BY <2>2 DEF runVars, Exists, Entered
  <2> QED BY <2>1, <2>2 DEF StoresStep
<1>6. ASSUME NEW s \in Skill, Released(s)
      PROVE  /\ Released(s)'
             /\ skill'[s].hash = skill[s].hash
             /\ skill'[s].manifest = skill[s].manifest
             /\ skill'[s].signature = skill[s].signature
  BY <1>1, <1>2, <1>6, ReleasedStays DEF StoresStep
<1>7. \A inv \in Invocation : Granted(inv) => Granted(inv)'
  BY <1>1, GrantStays DEF StoresStep
<1> QED BY <1>2, <1>3, <1>4, <1>5, <1>6, <1>7 DEF StoresInv, Kept

-----------------------------------------------------------------------------
(***************************************************************************)
(* Steps as the invariant sees them: the stores keep what they must, and   *)
(* at most one process moves.                                              *)
(***************************************************************************)
LEMMA ProgramCounters ==
  /\ Pcs = Owning \cup {"idle", "opened"}
  /\ "idle" \notin Owning /\ "opened" \notin Owning
BY DEF Pcs, Owning, Resolved, Planned, Cleared, Waiting, Committed, Acted

LEMMA ProcessFields ==
  ASSUME RuntimeTypeOK, NEW e \in Executor, exec[e].pc # "idle"
  PROVE  /\ exec[e] \in Call /\ exec[e].inv \in Invocation
         /\ Run(e) \in RunId /\ exec[e].inv.skill \in Skill
         /\ exec[e].current \in AgentStates
<1>1. exec[e] \in Call
  BY DEF RuntimeTypeOK, NoCall
<1>2. exec[e].inv \in Invocation /\ exec[e].current \in AgentStates
  BY <1>1 DEF Call
<1> QED BY <1>1, <1>2, InvocationFields DEF Run

LEMMA LiveFrame ==
  ASSUME RuntimeTypeOK, Kept, NEW f \in Executor, LiveInv(f), exec'[f] = exec[f],
         exec[f].pc \in Owning =>
           \A inv \in Invocation : inv.run = Run(f) => calls'[inv] = calls[inv]
  PROVE  LiveInv(f)'
<1>1. CASE exec[f].pc \notin Owning
  BY <1>1 DEF LiveInv, Owning, Resolved, Planned, Cleared, Waiting, Committed, Acted
<1>2. CASE exec[f].pc \in Owning
  <2> DEFINE x == exec[f]
  <2>1. x.inv \in Invocation /\ x.inv.run \in RunId /\ x.inv.skill \in Skill /\ Run(f) = x.inv.run
    BY <1>2, ProcessFields, ProgramCounters DEF Run
  <2>2. x.pc \in Owning => Exists(x.inv.run)'
    BY <2>1 DEF LiveInv, Kept
  <2>3. x.pc \in Owning \ (Acted \cup {"failing"}) => ~ Called(x.inv.run)'
    BY <1>2, <2>1 DEF LiveInv, Called
  <2>4. x.pc \in Acted => calls'[x.inv] > 0
    BY <1>2, <2>1 DEF LiveInv
  <2>5. x.pc \in Resolved => x.record.hash = x.inv.hash /\ SameVersion(x.inv.skill, x.record)'
    BY <2>1 DEF LiveInv, Kept, SameVersion
  <2>6. x.pc \in Planned => runs'[x.inv.run].plan = PlanOf(x.inv)
    BY <2>1, InvocationFields DEF LiveInv, Kept
  <2>7. x.pc \in Cleared => PolicyMayPass(f)'
    BY DEF LiveInv, PolicyMayPass, SignatureVerifies, NeedsApproval
  <2>8. x.pc \in Waiting => NeedsApproval(f)'
    BY DEF LiveInv, NeedsApproval
  <2>9. x.pc \in Committed \cup {"granted"} /\ x.inv.approval # None => Granted(x.inv)'
    BY <2>1 DEF LiveInv, Kept
  <2>10. x.pc \in Committed => Entered(x.inv.run, "EXECUTING")'
    BY <2>1 DEF LiveInv, Kept
  <2> QED BY <2>2, <2>3, <2>4, <2>5, <2>6, <2>7, <2>8, <2>9, <2>10 DEF LiveInv
<1> QED BY <1>1, <1>2

LEMMA ActedFrame ==
  ASSUME Kept, NEW inv \in Invocation, ActedInv(inv),
         \A other \in Invocation : other.run = inv.run => calls'[other] = calls[other]
  PROVE  ActedInv(inv)'
<1> SUFFICES ASSUME calls'[inv] > 0 PROVE ActedInv(inv)'
  BY DEF ActedInv
<1>1. calls[inv] > 0 /\ calls'[inv] = calls[inv]
  OBVIOUS
<1>2. inv.run \in RunId /\ inv.skill \in Skill
  BY InvocationFields
<1>3. /\ calls'[inv] = 1
      /\ \A other \in Invocation : calls'[other] > 0 /\ other.run = inv.run => other = inv
  BY <1>1 DEF ActedInv
<1>4. /\ Exists(inv.run)'
      /\ runs'[inv.run].plan = PlanOf(inv)
      /\ Entered(inv.run, "EXECUTING")'
  BY <1>1, <1>2, InvocationFields DEF ActedInv, Kept
<1>5. /\ Released(inv.skill)'
      /\ skill'[inv.skill].hash = inv.hash
      /\ skill'[inv.skill].signature =
           [skill |-> inv.skill, hash |-> inv.hash, key |-> TrustedKey]
      /\ skill'[inv.skill].manifest \in Controlled <=> inv.approval # None
  BY <1>1, <1>2 DEF ActedInv, Kept
<1>6. inv.approval # None => Granted(inv)'
  BY <1>1 DEF ActedInv, Kept
<1> QED BY <1>3, <1>4, <1>5, <1>6 DEF ActedInv

\* a process that owns a run after the step owned it before, or the run did not exist
KeepsRun(e) ==
  exec'[e].pc \in Owning =>
    /\ exec'[e].inv = exec[e].inv
    /\ exec[e].pc \in Owning \/ ~ Exists(Run(e))

\* one process moves: its own invariant is all there is to show
LEMMA ProcessStep ==
  ASSUME RuntimeInv, RuntimeTypeOK', StoresInv', Kept, NEW e \in Executor,
         \A f \in Executor : f # e => exec'[f] = exec[f],
         calls' = calls, LiveInv(e)', KeepsRun(e)
  PROVE  RuntimeInv'
<1>1. RuntimeTypeOK /\ OneOwnerPerRun /\ \A f \in Executor : LiveInv(f)
  BY DEF RuntimeInv
<1>2. ASSUME NEW f \in Executor PROVE LiveInv(f)'
  BY <1>1, LiveFrame
<1>3. ASSUME NEW inv \in Invocation PROVE ActedInv(inv)'
  BY ActedFrame DEF RuntimeInv
<1>4. \A r \in RunId, f \in Executor :
        /\ f \in Owners(r) <=> exec[f].pc \in Owning /\ Run(f) = r
        /\ f \in Owners(r)' <=> exec'[f].pc \in Owning /\ Run(f)' = r
  <2>1. \A f \in Executor : exec[f].pc \in Pcs /\ exec'[f].pc \in Pcs
    BY <1>1, ProgramCounters DEF RuntimeTypeOK, Call, NoCall
  <2> QED BY <2>1, ProgramCounters DEF Owners
<1>5. ASSUME NEW r \in RunId, NEW f \in Executor, e \in Owners(r)', f \in Owners(r)' PROVE e = f
  <2> SUFFICES ASSUME f # e PROVE FALSE
    OBVIOUS
  <2>1. exec[f].pc \in Owning /\ Run(f) = r /\ f \in Owners(r)
    BY <1>4, <1>5 DEF Run
  <2>2. Exists(r)
    BY <1>1, <2>1 DEF LiveInv, Run
  <2>3. Run(e) = r /\ exec[e].pc \in Owning
    BY <1>4, <1>5, <2>2 DEF KeepsRun, Run
  <2> QED BY <1>1, <1>4, <2>1, <2>3 DEF OneOwnerPerRun
<1>6. OneOwnerPerRun'
  <2> SUFFICES ASSUME NEW r \in RunId, NEW f \in Executor, NEW g \in Executor,
                      f \in Owners(r)', g \in Owners(r)'
               PROVE  f = g
    BY DEF OneOwnerPerRun
  <2>1. CASE f = e \/ g = e
    BY <1>5, <2>1
  <2>2. CASE f # e /\ g # e
    BY <1>1, <1>4, <2>2 DEF OneOwnerPerRun, Run
  <2> QED BY <2>1, <2>2
<1> QED BY <1>2, <1>3, <1>6 DEF RuntimeInv

\* no process moves
LEMMA QuietStep ==
  ASSUME RuntimeInv, StoresInv', Kept, UNCHANGED runtimeVars
  PROVE  RuntimeInv'
<1>1. exec' = exec /\ traceFiles' = traceFiles /\ calls' = calls /\ reported' = reported
  BY DEF runtimeVars
<1>2. RuntimeTypeOK /\ OneOwnerPerRun /\ \A f \in Executor : LiveInv(f)
  BY DEF RuntimeInv
<1>3. RuntimeTypeOK'
  BY <1>1, <1>2 DEF RuntimeTypeOK, StoresInv, RegistryInv, RunsInv
<1>4. \A f \in Executor : LiveInv(f)'
  BY <1>1, <1>2, LiveFrame
<1>5. \A inv \in Invocation : ActedInv(inv)'
  BY <1>1, ActedFrame DEF RuntimeInv
<1>6. OneOwnerPerRun'
  BY <1>1, <1>2 DEF OneOwnerPerRun, Owners, Run
<1> QED BY <1>3, <1>4, <1>5, <1>6 DEF RuntimeInv

-----------------------------------------------------------------------------
(***************************************************************************)
(* A process goes on with its call: the shape its steps have in common.    *)
(***************************************************************************)
Calls == [Executor -> Call \cup {NoCall}]

Reports == [RunId -> {"none", "succeeded", "failed", "raised"}]

\* e goes on at pc, with the same invocation and the same copy of the row
ProceedsTo(e, pc) ==
  /\ exec' \in Calls
  /\ \A f \in Executor : f # e => exec'[f] = exec[f]
  /\ exec'[e].pc = pc /\ exec'[e].inv = exec[e].inv /\ exec'[e].record = exec[e].record

LEMMA GotoMoves ==
  ASSUME RuntimeTypeOK, NEW e \in Executor, exec[e].pc # "idle", NEW pc \in Pcs \ {"idle"},
         Goto(e, pc)
  PROVE  ProceedsTo(e, pc) /\ exec'[e].current = exec[e].current
<1>1. exec \in Calls /\ exec[e] \in Call
  BY ProcessFields DEF RuntimeTypeOK, Calls
<1>2. [exec[e] EXCEPT !.pc = pc] \in Call
  BY <1>1 DEF Call
<1>3. exec' = [exec EXCEPT ![e] = [exec[e] EXCEPT !.pc = pc]]
  BY DEF Goto
<1>4. exec' \in Calls
  BY <1>1, <1>2, <1>3 DEF Calls
<1> QED BY <1>1, <1>3, <1>4 DEF ProceedsTo, Calls, Call

LEMMA GotoWithClock ==
  ASSUME RuntimeTypeOK, NEW e \in Executor, exec[e].pc # "idle", NEW pc \in Pcs \ {"idle"},
         NEW now \in Nat, exec' = [exec EXCEPT ![e].pc = pc, ![e].now = now]
  PROVE  ProceedsTo(e, pc) /\ exec'[e].current = exec[e].current
<1>1. exec \in Calls /\ exec[e] \in Call
  BY ProcessFields DEF RuntimeTypeOK, Calls
<1>2. [exec[e] EXCEPT !.pc = pc, !.now = now] \in Call
  BY <1>1 DEF Call
<1>3. exec' = [exec EXCEPT ![e] = [exec[e] EXCEPT !.pc = pc, !.now = now]]
  BY <1>1 DEF Calls
<1>4. exec' \in Calls
  BY <1>1, <1>2, <1>3 DEF Calls
<1> QED BY <1>1, <1>3, <1>4 DEF ProceedsTo, Calls, Call

LEMMA GotoWithState ==
  ASSUME RuntimeTypeOK, NEW e \in Executor, exec[e].pc # "idle", NEW pc \in Pcs \ {"idle"},
         NEW state \in AgentStates, exec' = [exec EXCEPT ![e].pc = pc, ![e].current = state]
  PROVE  ProceedsTo(e, pc) /\ exec'[e].current = state
<1>1. exec \in Calls /\ exec[e] \in Call
  BY ProcessFields DEF RuntimeTypeOK, Calls
<1>2. [exec[e] EXCEPT !.pc = pc, !.current = state] \in Call
  BY <1>1 DEF Call
<1>3. exec' = [exec EXCEPT ![e] = [exec[e] EXCEPT !.pc = pc, !.current = state]]
  BY <1>1 DEF Calls
<1>4. exec' \in Calls
  BY <1>1, <1>2, <1>3 DEF Calls
<1> QED BY <1>1, <1>3, <1>4 DEF ProceedsTo, Calls, Call

\* a transition by the executor: the run moved with it, or it is on its way to fail
LEMMA MoveRunOutcome ==
  ASSUME RuntimeInv, NEW e \in Executor, exec[e].pc # "idle", NEW pc \in Pcs \ {"idle"},
         NEW target \in AgentStates, NEW plan \in Plan \cup {NoPlan},
         MoveRun(e, target, plan, pc)
  PROVE  /\ [RunsNext]_runVars
         /\ \/ /\ ProceedsTo(e, pc) /\ exec'[e].current = target
               /\ Transition(Run(e), target, exec[e].current, plan)
               /\ Entered(Run(e), target)' /\ runs'[Run(e)].state = target
               /\ plan # NoPlan => runs'[Run(e)].plan = plan
            \/ /\ ProceedsTo(e, "failing") /\ exec'[e].current = exec[e].current
               /\ ~ MayTransition(Run(e), target, exec[e].current, plan)
               /\ UNCHANGED runVars
<1>1. RuntimeTypeOK /\ RunsInv
  BY DEF RuntimeInv, StoresInv
<1>2. Run(e) \in RunId /\ exec[e].current \in AgentStates
  BY <1>1, ProcessFields
<1>3. CASE /\ Transition(Run(e), target, exec[e].current, plan)
           /\ exec' = [exec EXCEPT ![e].pc = pc, ![e].current = target]
  <2>1. ProceedsTo(e, pc) /\ exec'[e].current = target
    BY <1>1, <1>3, GotoWithState
  <2>2. Run(e)' = Run(e)
    BY <2>1 DEF ProceedsTo, Run
  <2>3. ASSUME NEW r \in RunId, r = Run(e)
        PROVE  /\ RunsNext
               /\ Entered(r, target)' /\ runs'[r].state = target
               /\ plan # NoPlan => runs'[r].plan = plan
    BY <1>1, <1>2, <1>3, <2>3, TransitionOutcome
  <2>4. /\ RunsNext
        /\ Entered(Run(e), target)' /\ runs'[Run(e)].state = target
        /\ plan # NoPlan => runs'[Run(e)].plan = plan
    BY <1>2, <2>2, <2>3
  <2> QED BY <1>3, <2>1, <2>4
<1>4. CASE /\ ~ MayTransition(Run(e), target, exec[e].current, plan)
           /\ Goto(e, "failing")
           /\ UNCHANGED runVars
  <2>1. "failing" \in Pcs \ {"idle"}
    BY DEF Pcs
  <2> QED BY <1>1, <1>4, <2>1, GotoMoves
<1> QED BY <1>3, <1>4 DEF MoveRun

LEMMA RuntimeTyped ==
  ASSUME StoresInv', exec' \in Calls, traceFiles' \subseteq RunId,
         calls' \in [Invocation -> Nat], reported' \in Reports
  PROVE  RuntimeTypeOK'
BY DEF RuntimeTypeOK, StoresInv, RegistryInv, RunsInv, Calls, Reports

\* what a move to another program counter has to bring with it
Secures(e, pc) ==
  /\ pc \in Owning =>
       \/ exec[e].pc \in Owning
       \/ ~ Exists(Run(e)) /\ Exists(Run(e))' /\ ~ Called(Run(e))
  /\ pc \in Owning \ (Acted \cup {"failing"}) => exec[e].pc \notin Acted \cup {"failing"}
  /\ pc \in Acted => exec[e].pc \in Acted
  /\ pc \in Resolved => exec[e].pc \in Resolved
  /\ pc \in Planned => exec[e].pc \in Planned \/ runs'[Run(e)].plan = PlanOf(exec[e].inv)
  /\ pc \in Cleared => exec[e].pc \in Cleared \/ PolicyMayPass(e)
  /\ pc \in Waiting => exec[e].pc \in Waiting \/ NeedsApproval(e)
  /\ pc \in Committed \cup {"granted"} =>
       \/ exec[e].pc \in Committed \cup {"granted"}
       \/ exec[e].inv.approval = None
       \/ Granted(exec[e].inv)'
  /\ pc \in Committed => exec[e].pc \in Committed \/ Entered(Run(e), "EXECUTING")'

LEMMA ProcessProceeds ==
  ASSUME RuntimeInv, StoresStep, NEW e \in Executor, exec[e].pc # "idle", NEW pc,
         ProceedsTo(e, pc), Secures(e, pc),
         calls' = calls, traceFiles' \subseteq RunId, reported' \in Reports
  PROVE  RuntimeInv'
<1>1. RuntimeTypeOK /\ StoresInv /\ LiveInv(e)
  BY DEF RuntimeInv
<1>2. StoresInv' /\ Kept
  BY <1>1, StoresKeep
<1>3. RuntimeTypeOK'
  BY <1>1, <1>2, RuntimeTyped DEF ProceedsTo, RuntimeTypeOK
<1>4. exec[e].inv \in Invocation /\ Run(e) \in RunId /\ exec[e].inv.skill \in Skill
  BY <1>1, ProcessFields
<1>5. exec'[e].pc = pc /\ exec'[e].inv = exec[e].inv /\ exec'[e].record = exec[e].record
  BY DEF ProceedsTo
<1>6. pc \in Owning => Exists(Run(e))'
  BY <1>1, <1>2, <1>4, <1>5 DEF Secures, LiveInv, Kept, Run
<1>7. pc \in Owning \ (Acted \cup {"failing"}) => ~ Called(Run(e))'
  BY <1>1, <1>5 DEF Secures, LiveInv, Called, Run
<1>8. pc \in Acted => calls'[exec[e].inv] > 0
  BY <1>1 DEF Secures, LiveInv
<1>9. pc \in Resolved => /\ exec[e].record.hash = exec[e].inv.hash
                         /\ SameVersion(exec[e].inv.skill, exec[e].record)'
  BY <1>1, <1>2, <1>4, <1>5 DEF Secures, LiveInv, Kept, SameVersion
<1>10. pc \in Planned => runs'[Run(e)].plan = PlanOf(exec[e].inv)
  BY <1>1, <1>2, <1>4, InvocationFields DEF Secures, LiveInv, Kept, Run
<1>11. pc \in Cleared => PolicyMayPass(e)'
  BY <1>1, <1>5 DEF Secures, LiveInv, PolicyMayPass, SignatureVerifies, NeedsApproval
<1>12. pc \in Waiting => NeedsApproval(e)'
  BY <1>1, <1>5 DEF Secures, LiveInv, NeedsApproval
<1>13. pc \in Committed \cup {"granted"} /\ exec[e].inv.approval # None => Granted(exec[e].inv)'
  BY <1>1, <1>2, <1>4, <1>5 DEF Secures, LiveInv, Kept
<1>14. pc \in Committed => Entered(Run(e), "EXECUTING")'
  BY <1>1, <1>2, <1>4, <1>5 DEF Secures, LiveInv, Kept, Run
<1>15. LiveInv(e)'
  BY <1>5, <1>6, <1>7, <1>8, <1>9, <1>10, <1>11, <1>12, <1>13, <1>14 DEF LiveInv, Run
<1>16. \A f \in Executor : f # e => exec'[f] = exec[f]
  BY DEF ProceedsTo
<1>17. KeepsRun(e)
  BY <1>5 DEF Secures, KeepsRun
<1> QED BY <1>2, <1>3, <1>15, <1>16, <1>17, ProcessStep

\* the way into the exception handler is open to every owner of a run
LEMMA Failing ==
  ASSUME RuntimeInv, StoresStep, NEW e \in Executor, exec[e].pc \in Owning,
         ProceedsTo(e, "failing"), calls' = calls, traceFiles' \subseteq RunId, reported' \in Reports
  PROVE  RuntimeInv'
<1>1. exec[e].pc # "idle" /\ Secures(e, "failing")
  BY DEF Secures, Owning, Resolved, Planned, Cleared, Waiting, Committed, Acted
<1> QED BY <1>1, ProcessProceeds

\* a call ends: nothing is known of the process any more
LEMMA Leaving ==
  ASSUME RuntimeInv, StoresStep, NEW e \in Executor, Leave(e), calls' = calls,
         traceFiles' \subseteq RunId, reported' \in Reports
  PROVE  RuntimeInv'
<1>1. RuntimeTypeOK /\ StoresInv
  BY DEF RuntimeInv
<1>2. StoresInv' /\ Kept
  BY <1>1, StoresKeep
<1>3. exec \in Calls
  BY <1>1 DEF RuntimeTypeOK, Calls
<1>4. exec' \in Calls /\ exec'[e] = NoCall /\ \A f \in Executor : f # e => exec'[f] = exec[f]
  BY <1>3 DEF Leave, Calls
<1>5. exec'[e].pc = "idle"
  BY <1>4 DEF NoCall
<1>6. RuntimeTypeOK'
  BY <1>1, <1>2, <1>4, RuntimeTyped DEF RuntimeTypeOK
<1>7. LiveInv(e)'
  BY <1>5 DEF LiveInv, Owning, Resolved, Planned, Cleared, Waiting, Committed, Acted
<1>8. KeepsRun(e)
  BY <1>5, ProgramCounters DEF KeepsRun
<1> QED BY <1>2, <1>4, <1>6, <1>7, <1>8, ProcessStep

-----------------------------------------------------------------------------
(***************************************************************************)
(* The actions of an executor, one after the other.                        *)
(***************************************************************************)
\* an action that leaves the registry, the approvals and the reports alone
OwnWrites ==
  /\ UNCHANGED registryVars /\ UNCHANGED approvalVars
  /\ [RunsNext]_runVars
  /\ calls' = calls /\ reported' = reported

LEMMA OwnStep ==
  ASSUME RuntimeInv, OwnWrites
  PROVE  StoresStep /\ calls' = calls /\ reported' \in Reports
<1>1. StoresStep
  BY DEF OwnWrites, StoresStep, ApprovalStep
<1> QED BY <1>1 DEF OwnWrites, RuntimeInv, RuntimeTypeOK, Reports

LEMMA ClaimRunKeeps ==
  ASSUME RuntimeInv, NEW e \in Executor, ClaimRun(e)
  PROVE  RuntimeInv'
<1>1. RuntimeTypeOK /\ RunsInv /\ exec[e].pc = "opened" /\ traceFiles' \subseteq RunId
  BY DEF RuntimeInv, StoresInv, ClaimRun, RuntimeTypeOK
<1>2. exec[e].inv \in Invocation /\ Run(e) \in RunId /\ exec[e].inv.trace \in TraceId
  BY <1>1, ProcessFields, InvocationFields
<1>3. ProceedsTo(e, "IDLE")
  BY <1>1, GotoMoves DEF ClaimRun, Pcs
<1>4. /\ RunsNext
      /\ ~ Exists(Run(e)) /\ runs'[Run(e)].state = "IDLE"
  BY <1>1, <1>2, CreateOutcome DEF ClaimRun
<1>5. OwnWrites
  BY <1>4 DEF ClaimRun, OwnWrites
<1>6. Exists(Run(e))'
  BY <1>3, <1>4 DEF Exists, ProceedsTo, Run
<1>7. ~ Called(Run(e))
  BY <1>4 DEF RuntimeInv, ActedInv, Called
<1>8. Secures(e, "IDLE")
  BY <1>1, <1>4, <1>6, <1>7
  DEF Secures, Owning, Resolved, Planned, Cleared, Waiting, Committed, Acted
<1> QED BY <1>1, <1>3, <1>5, <1>8, OwnStep, ProcessProceeds

\* a transition by the executor keeps the invariant when it secures what its target needs
LEMMA MoveKeeps ==
  ASSUME RuntimeInv, NEW e \in Executor, exec[e].pc \in Owning, NEW pc \in Pcs \ {"idle"},
         NEW target \in AgentStates, NEW plan \in Plan \cup {NoPlan},
         MoveRun(e, target, plan, pc),
         UNCHANGED registryVars, UNCHANGED approvalVars, calls' = calls, reported' = reported,
         traceFiles' \subseteq RunId,
         /\ Entered(Run(e), target)'
         /\ plan # NoPlan => runs'[Run(e)].plan = plan
         => Secures(e, pc)
  PROVE  RuntimeInv'
<1>1. exec[e].pc # "idle"
  BY ProgramCounters
<1>2. /\ [RunsNext]_runVars
      /\ \/ /\ ProceedsTo(e, pc) /\ Entered(Run(e), target)'
            /\ plan # NoPlan => runs'[Run(e)].plan = plan
         \/ ProceedsTo(e, "failing")
  BY <1>1, MoveRunOutcome
<1>3. OwnWrites
  BY <1>2 DEF OwnWrites
<1>4. CASE ProceedsTo(e, pc) /\ Secures(e, pc)
  BY <1>1, <1>3, <1>4, OwnStep, ProcessProceeds
<1>5. CASE ProceedsTo(e, "failing")
  BY <1>1, <1>3, <1>5, OwnStep, Failing
<1> QED BY <1>2, <1>4, <1>5

LEMMA EnterRetrievingKeeps ==
  ASSUME RuntimeInv, NEW e \in Executor, EnterRetrieving(e)
  PROVE  RuntimeInv'
<1>1. exec[e].pc = "IDLE" /\ exec[e].pc \in Owning
  BY DEF EnterRetrieving, Owning
<1>2. traceFiles' \subseteq RunId
  BY <1>1, ProcessFields, ProgramCounters DEF EnterRetrieving, RuntimeInv, RuntimeTypeOK
<1>3. Secures(e, "RETRIEVING")
  BY <1>1 DEF Secures, Owning, Resolved, Planned, Cleared, Waiting, Committed, Acted
<1> QED BY <1>1, <1>2, <1>3, MoveKeeps DEF EnterRetrieving, Pcs, AgentStates

LEMMA EnterPlanningKeeps ==
  ASSUME RuntimeInv, NEW e \in Executor, EnterPlanning(e)
  PROVE  RuntimeInv'
<1>1. exec[e].pc = "resolved" /\ exec[e].pc \in Owning
  BY DEF EnterPlanning, Owning, Resolved
<1>2. traceFiles' \subseteq RunId
  BY DEF EnterPlanning, RuntimeInv, RuntimeTypeOK
<1>3. Secures(e, "PLANNING")
  BY <1>1 DEF Secures, Owning, Resolved, Planned, Cleared, Waiting, Committed, Acted
<1> QED BY <1>1, <1>2, <1>3, MoveKeeps DEF EnterPlanning, Pcs, AgentStates

LEMMA EnterValidatingKeeps ==
  ASSUME RuntimeInv, NEW e \in Executor, EnterValidating(e)
  PROVE  RuntimeInv'
<1>1. exec[e].pc = "PLANNING" /\ exec[e].pc \in Owning
  BY DEF EnterValidating, Owning, Resolved
<1>2. traceFiles' \subseteq RunId
  BY DEF EnterValidating, RuntimeInv, RuntimeTypeOK
<1>3. PlanOf(exec[e].inv) \in Plan /\ PlanOf(exec[e].inv) # NoPlan
  BY <1>1, ProcessFields, ProgramCounters, InvocationFields DEF RuntimeInv
<1>4. runs'[Run(e)].plan = PlanOf(exec[e].inv) => Secures(e, "VALIDATING")
  BY <1>1 DEF Secures, Owning, Resolved, Planned, Cleared, Waiting, Committed, Acted
<1> QED BY <1>1, <1>2, <1>3, <1>4, MoveKeeps DEF EnterValidating, Pcs, AgentStates

LEMMA EnterWaitingKeeps ==
  ASSUME RuntimeInv, NEW e \in Executor, EnterWaiting(e)
  PROVE  RuntimeInv'
<1>1. exec[e].pc = "VALIDATING" /\ exec[e].pc \in Owning
  BY DEF EnterWaiting, Owning, Resolved, Planned
<1>2. traceFiles' \subseteq RunId
  BY DEF EnterWaiting, RuntimeInv, RuntimeTypeOK
<1>3. PolicyMayPass(e) /\ NeedsApproval(e)
  BY DEF EnterWaiting
<1>4. Secures(e, "WAITING_APPROVAL")
  BY <1>1, <1>3 DEF Secures, Owning, Resolved, Planned, Cleared, Waiting, Committed, Acted
<1> QED BY <1>1, <1>2, <1>4, MoveKeeps DEF EnterWaiting, Pcs, AgentStates

\* without an approval id the Skill needs none; with one, the approval is this process's
LEMMA EnterExecutingKeeps ==
  ASSUME RuntimeInv, NEW e \in Executor, EnterExecuting(e)
  PROVE  RuntimeInv'
<1>1. exec[e].pc \in {"VALIDATING", "granted"} /\ exec[e].pc \in Owning
  BY DEF EnterExecuting, AtExecutionGate, Owning, Resolved, Planned, Cleared, Waiting
<1>2. traceFiles' \subseteq RunId
  BY DEF EnterExecuting, RuntimeInv, RuntimeTypeOK
<1>3. PolicyMayPass(e)
  BY <1>1 DEF EnterExecuting, AtExecutionGate, RuntimeInv, LiveInv, Cleared, Waiting
<1>4. exec[e].pc = "VALIDATING" => exec[e].inv.approval = None
  BY <1>3 DEF EnterExecuting, AtExecutionGate, PolicyMayPass
<1>5. Entered(Run(e), "EXECUTING")' => Secures(e, "EXECUTING")
  BY <1>1, <1>3, <1>4
  DEF Secures, Owning, Resolved, Planned, Cleared, Waiting, Committed, Acted
<1> QED BY <1>1, <1>2, <1>5, MoveKeeps DEF EnterExecuting, Pcs, AgentStates

LEMMA EnterVerifyingKeeps ==
  ASSUME RuntimeInv, NEW e \in Executor, EnterVerifying(e)
  PROVE  RuntimeInv'
<1>1. exec[e].pc = "calling" /\ exec[e].pc \in Owning
  BY DEF EnterVerifying, Owning, Resolved, Planned, Cleared, Committed, Acted
<1>2. traceFiles' \subseteq RunId
  BY DEF EnterVerifying, RuntimeInv, RuntimeTypeOK
<1>3. Secures(e, "VERIFYING")
  BY <1>1 DEF Secures, Owning, Resolved, Planned, Cleared, Waiting, Committed, Acted
<1> QED BY <1>1, <1>2, <1>3, MoveKeeps DEF EnterVerifying, Pcs, AgentStates

\* a check fails, the adapter raises, or its output is rejected
LEMMA RefusalKeeps ==
  ASSUME RuntimeInv, NEW e \in Executor,
         PolicyRefuses(e) \/ AdapterRaises(e) \/ OutputRejected(e) \/ ApprovalRefused(e)
  PROVE  RuntimeInv'
<1>1. exec[e].pc \in {"VALIDATING", "calling", "VERIFYING", "consuming"}
  BY DEF PolicyRefuses, AdapterRaises, OutputRejected, ApprovalRefused
<1>2. exec[e].pc \in Owning /\ exec[e].pc # "idle"
  BY <1>1 DEF Owning, Resolved, Planned, Cleared, Committed, Waiting, Acted
<1>3. OwnWrites /\ traceFiles' = traceFiles
  BY DEF PolicyRefuses, AdapterRaises, OutputRejected, ApprovalRefused, OwnWrites
<1>4. "failing" \in Pcs \ {"idle"} /\ 0 \in Nat /\ RuntimeTypeOK
  BY DEF Pcs, RuntimeInv
<1>5. ProceedsTo(e, "failing")
  BY <1>2, <1>4, GotoMoves, GotoWithClock
  DEF PolicyRefuses, AdapterRaises, OutputRejected, ApprovalRefused
<1>6. traceFiles' \subseteq RunId
  BY <1>3, <1>4 DEF RuntimeTypeOK
<1> QED BY <1>2, <1>3, <1>5, <1>6, OwnStep, Failing

LEMMA SampleClockKeeps ==
  ASSUME RuntimeInv, NEW e \in Executor, SampleClock(e)
  PROVE  RuntimeInv'
<1>1. exec[e].pc = "WAITING_APPROVAL" /\ OwnWrites /\ traceFiles' = traceFiles
  BY DEF SampleClock, OwnWrites
<1>2. RuntimeTypeOK /\ clock \in Nat /\ "consuming" \in Pcs \ {"idle"}
  BY DEF RuntimeInv, RuntimeTypeOK, ApprovalsTypeOK, Pcs
<1>3. ProceedsTo(e, "consuming") /\ traceFiles' \subseteq RunId
  BY <1>1, <1>2, GotoWithClock DEF SampleClock, RuntimeTypeOK
<1>4. Secures(e, "consuming")
  BY <1>1 DEF Secures, Owning, Resolved, Planned, Cleared, Waiting, Committed, Acted
<1> QED BY <1>1, <1>3, <1>4, OwnStep, ProcessProceeds

\* the approval named by a controlled invocation becomes this process's own
LEMMA ConsumeApprovalKeeps ==
  ASSUME RuntimeInv, NEW e \in Executor, ConsumeApproval(e)
  PROVE  RuntimeInv'
<1>1. /\ exec[e].pc = "consuming" /\ RuntimeTypeOK /\ ApprovalsTypeOK
      /\ traceFiles' \subseteq RunId /\ calls' = calls /\ reported' \in Reports
  BY DEF ConsumeApproval, RuntimeInv, RuntimeTypeOK, Reports
<1>2. exec[e].inv \in Invocation /\ exec[e].now \in Nat
  BY <1>1, ProcessFields DEF Call
<1>3. exec[e].inv.approval # None
  BY <1>1 DEF RuntimeInv, LiveInv, PolicyMayPass, Waiting, Cleared
<1>4. ConsumeExecutionApproval(exec[e].inv, exec[e].now)
  BY DEF ConsumeApproval
<1>5. StoresStep
  BY <1>2, <1>3, <1>4 DEF StoresStep, ApprovalStep, ConsumeApproval
<1>6. ProceedsTo(e, "granted")
  BY <1>1, GotoWithClock DEF ConsumeApproval, Pcs
<1>7. ASSUME NEW inv \in Invocation, inv = exec[e].inv PROVE Granted(inv)'
  BY <1>1, <1>2, <1>3, <1>4, <1>7, ConsumeWrites
<1>8. Granted(exec[e].inv)'
  BY <1>2, <1>6, <1>7 DEF ProceedsTo
<1>9. Secures(e, "granted")
  BY <1>1, <1>8 DEF Secures, Owning, Resolved, Planned, Cleared, Waiting, Committed, Acted
<1> QED BY <1>1, <1>5, <1>6, <1>9, ProcessProceeds

\* the row is copied: what it says now is what the store goes on saying
LEMMA ResolveKeeps ==
  ASSUME RuntimeInv, NEW e \in Executor, Resolve(e)
  PROVE  RuntimeInv'
<1> DEFINE s == exec[e].inv.skill
           copy == [exec[e] EXCEPT !.pc = "resolved", !.record = skill[s]]
<1>1. /\ exec[e].pc = "RETRIEVING" /\ RuntimeTypeOK /\ StoresInv /\ LiveInv(e)
      /\ OwnWrites /\ traceFiles' = traceFiles
  BY DEF Resolve, RuntimeInv, OwnWrites
<1>2. exec[e].pc \in Owning /\ traceFiles' \subseteq RunId
  BY <1>1 DEF Owning, RuntimeTypeOK
<1>3. exec[e] \in Call /\ exec \in Calls /\ s \in Skill /\ exec[e].inv \in Invocation
  BY <1>1, ProcessFields DEF RuntimeTypeOK, Calls
<1>4. CASE ~ Resolves(exec[e].inv)
  <2>1. ProceedsTo(e, "failing")
    BY <1>1, <1>4, GotoMoves DEF Resolve, Pcs
  <2> QED BY <1>1, <1>2, <2>1, OwnStep, Failing
<1>5. CASE Resolves(exec[e].inv)
  <2>1. skill[s] \in Row \cup {NoRow}
    BY <1>1, <1>3 DEF RuntimeTypeOK, RegistryTypeOK
  <2>2. copy \in Call
    BY <1>3, <2>1 DEF Call, Pcs
  <2>3. exec' = [exec EXCEPT ![e] = copy]
    BY <1>3, <1>5 DEF Resolve, Calls
  <2>4. /\ copy.pc = "resolved" /\ copy.inv = exec[e].inv /\ copy.record = skill[s]
    BY <1>3 DEF Call
  <2> HIDE DEF copy
  <2>5. /\ exec' \in Calls /\ exec'[e] = copy
        /\ \A f \in Executor : f # e => exec'[f] = exec[f]
    BY <1>3, <2>2, <2>3 DEF Calls
  <2>6. /\ UNCHANGED <<runs, calls, skill>>
        /\ skill[s].state = "ACTIVE" /\ skill[s].hash = exec[e].inv.hash
    BY <1>1, <1>5 DEF OwnWrites, Resolve, Resolves, runVars, registryVars
  <2>7. Exists(exec[e].inv.run) /\ ~ Called(exec[e].inv.run)
    BY <1>1, <1>2 DEF LiveInv, Acted
  <2>8. Exists(exec[e].inv.run)' /\ ~ Called(exec[e].inv.run)'
    BY <2>4, <2>5, <2>6, <2>7 DEF Exists, Called
  <2>9. /\ exec'[e].record.hash = exec'[e].inv.hash
        /\ SameVersion(exec[e].inv.skill, exec[e].record)'
    BY <2>4, <2>5, <2>6 DEF SameVersion, Released
  <2>10. LiveInv(e)'
    BY <2>4, <2>5, <2>8, <2>9
    DEF LiveInv, Owning, Resolved, Planned, Cleared, Waiting, Committed, Acted
  <2>11. KeepsRun(e)
    BY <1>2, <2>4, <2>5 DEF KeepsRun
  <2>12. StoresStep /\ calls' = calls /\ reported' \in Reports
    BY <1>1, OwnStep
  <2>13. StoresInv' /\ Kept
    BY <1>1, <2>12, StoresKeep
  <2>14. RuntimeTypeOK'
    BY <1>1, <1>2, <2>5, <2>12, <2>13, RuntimeTyped DEF RuntimeTypeOK
  <2> QED BY <2>5, <2>10, <2>11, <2>12, <2>13, <2>14, ProcessStep
<1> QED BY <1>4, <1>5

\* the adapter is called: the first call of this run, by its only owner
LEMMA CallAdapterKeeps ==
  ASSUME RuntimeInv, NEW e \in Executor, CallAdapter(e)
  PROVE  RuntimeInv'
<1> DEFINE mine == exec[e].inv
<1>1. /\ exec[e].pc = "EXECUTING" /\ RuntimeTypeOK /\ StoresInv /\ OneOwnerPerRun /\ LiveInv(e)
      /\ calls' = [calls EXCEPT ![mine] = @ + 1] /\ calls \in [Invocation -> Nat]
  BY DEF CallAdapter, RuntimeInv, RuntimeTypeOK
<1>2. mine \in Invocation /\ Run(e) \in RunId /\ mine.skill \in Skill /\ Run(e) = mine.run
  BY <1>1, ProcessFields DEF Run
<1>3. /\ calls'[mine] = calls[mine] + 1
      /\ \A inv \in Invocation : inv # mine => calls'[inv] = calls[inv]
      /\ calls' \in [Invocation -> Nat]
  BY <1>1, <1>2
<1>4. StoresStep
  BY DEF CallAdapter, StoresStep, ApprovalStep
<1>5. StoresInv' /\ Kept
  BY <1>1, <1>4, StoresKeep
<1>6. ProceedsTo(e, "calling")
  BY <1>1, GotoMoves DEF CallAdapter, Pcs
<1>7. RuntimeTypeOK'
  BY <1>1, <1>3, <1>5, <1>6, RuntimeTyped DEF CallAdapter, ProceedsTo, RuntimeTypeOK, Reports
<1>8. /\ Exists(mine.run) /\ ~ Called(mine.run)
      /\ mine.hash = exec[e].record.hash /\ SameVersion(mine.skill, exec[e].record)
      /\ runs[mine.run].plan = PlanOf(mine) /\ Entered(mine.run, "EXECUTING")
      /\ PolicyMayPass(e) /\ (mine.approval # None => Granted(mine))
  BY <1>1 DEF LiveInv, Owning, Resolved, Planned, Cleared, Committed, Acted
<1>9. calls[mine] = 0 /\ \A inv \in Invocation : inv.run = mine.run => calls[inv] = 0
  BY <1>2, <1>1, <1>8 DEF Called
<1>10. \A f \in Executor : exec[f].pc \in Owning /\ Run(f) = Run(e) => f = e
  <2>1. ASSUME NEW f \in Executor, exec[f].pc \in Owning, Run(f) = Run(e) PROVE f = e
    BY <1>1, <1>2, <2>1, ProgramCounters DEF OneOwnerPerRun, Owners
  <2> QED BY <2>1
<1>11. ASSUME NEW f \in Executor PROVE LiveInv(f)'
  <2>1. CASE f # e
    <3>1. exec'[f] = exec[f] /\ LiveInv(f)
      BY <1>6, <2>1 DEF ProceedsTo, RuntimeInv
    <3>2. exec[f].pc \in Owning =>
            \A inv \in Invocation : inv.run = Run(f) => calls'[inv] = calls[inv]
      BY <1>2, <1>3, <1>10, <2>1
    <3> QED BY <1>1, <1>5, <3>1, <3>2, LiveFrame
  <2>2. CASE f = e
    <3>1. exec'[e].pc = "calling" /\ exec'[e].inv = mine /\ exec'[e].record = exec[e].record
      BY <1>6 DEF ProceedsTo
    <3>2. /\ Exists(mine.run)' /\ SameVersion(mine.skill, exec[e].record)'
          /\ runs'[mine.run].plan = PlanOf(mine) /\ Entered(mine.run, "EXECUTING")'
          /\ PolicyMayPass(e)' /\ (mine.approval # None => Granted(mine)')
      BY <1>2, <1>5, <1>8, <3>1, InvocationFields
      DEF Kept, SameVersion, PolicyMayPass, SignatureVerifies, NeedsApproval
    <3>3. calls'[mine] > 0
      BY <1>3, <1>9
    <3> QED BY <1>8, <2>2, <3>1, <3>2, <3>3
            DEF LiveInv, Owning, Resolved, Planned, Cleared, Waiting, Committed, Acted
  <2> QED BY <2>1, <2>2
<1>12. ASSUME NEW inv \in Invocation PROVE ActedInv(inv)'
  <2>1. CASE inv.run # mine.run
    BY <1>3, <1>5, <2>1, ActedFrame DEF RuntimeInv
  <2>2. CASE inv.run = mine.run /\ inv # mine
    BY <1>3, <1>9, <2>2 DEF ActedInv
  <2>3. CASE inv = mine
    <3>1. calls'[inv] = 1 /\ Run(e)' = inv.run
      BY <1>3, <1>6, <1>9, <2>3 DEF ProceedsTo, Run
    <3>2. \A other \in Invocation : calls'[other] > 0 /\ other.run = inv.run => other = inv
      BY <1>3, <1>9, <2>3
    <3>3. /\ exec'[e].pc = "calling" /\ exec'[e].inv = inv
          /\ inv.hash = exec'[e].record.hash
      BY <1>6, <1>8, <2>3 DEF ProceedsTo
    <3>4. LiveInv(e)'
      BY <1>11
    <3>5. /\ Exists(inv.run)' /\ SameVersion(inv.skill, exec[e].record)'
          /\ runs'[inv.run].plan = PlanOf(inv) /\ Entered(inv.run, "EXECUTING")'
          /\ PolicyMayPass(e)' /\ (inv.approval # None => Granted(inv)')
      BY <3>3, <3>4
      DEF LiveInv, Owning, Resolved, Planned, Cleared, Waiting, Committed, Acted
    <3> QED BY <3>1, <3>2, <3>3, <3>5
            DEF ActedInv, SameVersion, PolicyMayPass, SignatureVerifies, NeedsApproval
  <2> QED BY <2>1, <2>2, <2>3
<1>13. OneOwnerPerRun'
  <2>1. \A f \in Executor : exec'[f].pc \in Owning => exec[f].pc \in Owning /\ Run(f)' = Run(f)
    BY <1>1, <1>6 DEF ProceedsTo, Run, Owning, Resolved, Planned, Cleared, Committed
  <2>2. ASSUME NEW r \in RunId, NEW f \in Executor, f \in Owners(r)' PROVE f \in Owners(r)
    <3>1. exec'[f].pc \in Pcs
      BY <1>7 DEF RuntimeTypeOK, Call, NoCall, Pcs
    <3> QED BY <2>1, <2>2, <3>1, ProgramCounters DEF Owners
  <2> QED BY <1>1, <2>2 DEF OneOwnerPerRun
<1> QED BY <1>5, <1>7, <1>11, <1>12, <1>13 DEF RuntimeInv

\* a call that ends, decided or not, leaves the run to the stores
LEMMA EndKeeps ==
  ASSUME RuntimeInv, NEW e \in Executor,
         \/ ClaimRefused(e) \/ Succeed(e) \/ Fail(e) \/ FailRaises(e)
         \/ TraceFails(e) \/ Crash(e)
  PROVE  RuntimeInv'
<1>1. /\ exec[e].pc # "idle" /\ RuntimeTypeOK /\ RunsInv
      /\ UNCHANGED registryVars /\ UNCHANGED approvalVars
      /\ calls' = calls /\ traceFiles \subseteq RunId
      /\ traceFiles' \in {traceFiles, traceFiles \cup {Run(e)}}
  BY DEF ClaimRefused, Succeed, Fail, FailRaises, TraceFails, Crash, RuntimeInv, RuntimeTypeOK,
         StoresInv
<1>2. Run(e) \in RunId /\ exec[e].current \in AgentStates
  BY <1>1, ProcessFields
<1>3. Leave(e) /\ traceFiles' \subseteq RunId
  BY <1>1, <1>2 DEF ClaimRefused, Succeed, Fail, FailRaises, TraceFails, Crash, Answer
<1>4. [RunsNext]_runVars
  <2>1. CASE Succeed(e)
    BY <1>1, <1>2, <2>1, TransitionOutcome, StatesApart DEF Succeed
  <2>2. CASE Fail(e)
    BY <1>1, <1>2, <2>2, TransitionOutcome DEF Fail, AgentStates
  <2>3. CASE ClaimRefused(e) \/ FailRaises(e) \/ TraceFails(e) \/ Crash(e)
    <3>1. UNCHANGED runVars
      BY <2>3 DEF ClaimRefused, FailRaises, TraceFails, Crash
    <3> QED BY <3>1
  <2> QED BY <2>1, <2>2, <2>3
<1>5. reported' \in Reports
  <2>1. reported \in Reports
    BY <1>1 DEF RuntimeTypeOK, Reports
  <2>2. UNCHANGED reported \/ \E status \in {"succeeded", "failed", "raised"} : Report(Run(e), status)
    BY DEF ClaimRefused, Succeed, Fail, FailRaises, TraceFails, Crash, Answer
  <2> QED BY <2>1, <2>2 DEF Report, Reports
<1>6. StoresStep
  BY <1>1, <1>4 DEF StoresStep, ApprovalStep
<1> QED BY <1>1, <1>3, <1>5, <1>6, Leaving

LEMMA StartKeeps ==
  ASSUME RuntimeInv, NEW e \in Executor, NEW inv \in Invocation, Start(e, inv)
  PROVE  RuntimeInv'
<1> DEFINE call == [NoCall EXCEPT !.pc = "opened", !.inv = inv]
<1>1. RuntimeTypeOK /\ StoresInv /\ OwnWrites /\ traceFiles' = traceFiles
  BY DEF Start, RuntimeInv, OwnWrites
<1>2. call \in Call /\ call.pc = "opened"
  BY DEF NoCall, Call, Pcs, AgentStates
<1>3. exec' = [exec EXCEPT ![e] = call]
  BY DEF Start
<1> HIDE DEF call
<1>4. /\ exec' \in Calls /\ exec'[e].pc = "opened"
      /\ \A f \in Executor : f # e => exec'[f] = exec[f]
  BY <1>1, <1>2, <1>3 DEF RuntimeTypeOK, Calls
<1>5. StoresStep /\ calls' = calls /\ reported' \in Reports
  BY <1>1, OwnStep
<1>6. StoresInv' /\ Kept
  BY <1>1, <1>5, StoresKeep
<1>7. RuntimeTypeOK'
  BY <1>1, <1>4, <1>5, <1>6, RuntimeTyped DEF RuntimeTypeOK
<1>8. LiveInv(e)' /\ KeepsRun(e)
  BY <1>4, ProgramCounters
  DEF KeepsRun, LiveInv, Owning, Resolved, Planned, Cleared, Waiting, Committed, Acted
<1> QED BY <1>4, <1>5, <1>6, <1>7, <1>8, ProcessStep

LEMMA ProceedKeeps ==
  ASSUME RuntimeInv, NEW e \in Executor, Proceed(e)
  PROVE  RuntimeInv'
BY ClaimRunKeeps, EnterRetrievingKeeps, ResolveKeeps, EnterPlanningKeeps, EnterValidatingKeeps,
   EnterWaitingKeeps, SampleClockKeeps, ConsumeApprovalKeeps, EnterExecutingKeeps,
   CallAdapterKeeps, EnterVerifyingKeeps, RefusalKeeps, EndKeeps
DEF Proceed

\* recovery, the operator, governance and the clock move no process
LEMMA SurroundingsKeep ==
  ASSUME RuntimeInv,
         \/ Recover
         \/ \E r \in RunId, target \in OperatorTargets, expected \in AgentStates,
                plan \in Plan \cup {NoPlan} :
              OperatorTransition(r, target, expected, plan)
         \/ \E inv \in Invocation, ttl \in Ttl, decision \in Decisions, now \in 0..clock :
              OperatorDecides(inv, ttl, decision, now)
         \/ Govern
         \/ TimePasses
  PROVE  RuntimeInv'
<1>1. StoresInv
  BY DEF RuntimeInv
<1>2. StoresStep /\ UNCHANGED runtimeVars
  <2>1. CASE Recover
    BY <2>1 DEF Recover, StoresStep, ApprovalStep, RunsNext
  <2>2. ASSUME NEW r \in RunId, NEW target \in OperatorTargets, NEW expected \in AgentStates,
               NEW plan \in Plan \cup {NoPlan}, OperatorTransition(r, target, expected, plan)
        PROVE  StoresStep /\ UNCHANGED runtimeVars
    <3>1. target \in AgentStates /\ RunsInv
      BY <1>1, OperatorAssumption DEF StoresInv
    <3>2. RunsNext
      BY <2>2, <3>1, TransitionOutcome DEF OperatorTransition
    <3> QED BY <2>2, <3>2 DEF OperatorTransition, StoresStep, ApprovalStep
  <2>3. ASSUME NEW inv \in Invocation, NEW ttl \in Ttl, NEW decision \in Decisions,
               NEW now \in 0..clock, OperatorDecides(inv, ttl, decision, now)
        PROVE  StoresStep /\ UNCHANGED runtimeVars
    BY <2>3 DEF OperatorDecides, StoresStep, ApprovalStep
  <2>4. CASE Govern
    BY <2>4 DEF Govern, StoresStep, ApprovalStep
  <2>5. CASE TimePasses
    BY <2>5 DEF TimePasses, StoresStep, ApprovalStep
  <2> QED BY <2>1, <2>2, <2>3, <2>4, <2>5
<1>3. StoresInv' /\ Kept
  BY <1>1, <1>2, StoresKeep
<1> QED BY <1>2, <1>3, QuietStep

LEMMA RuntimeStep == RuntimeInv /\ [RuntimeNext]_allVars => RuntimeInv'
<1> SUFFICES ASSUME RuntimeInv, [RuntimeNext]_allVars PROVE RuntimeInv'
  OBVIOUS
<1>1. CASE RuntimeNext
  BY <1>1, ProceedKeeps, StartKeeps, SurroundingsKeep, EndKeeps DEF RuntimeNext
<1>2. CASE UNCHANGED allVars
  <2>1. /\ UNCHANGED registryVars /\ UNCHANGED runVars /\ UNCHANGED approvalVars
        /\ UNCHANGED runtimeVars
    BY <1>2 DEF allVars
  <2>2. StoresStep /\ StoresInv
    BY <2>1 DEF StoresStep, ApprovalStep, RuntimeInv
  <2> QED BY <2>1, <2>2, StoresKeep, QuietStep
<1> QED BY <1>1, <1>2

LEMMA RuntimeInitially == RuntimeInit => RuntimeInv
<1> SUFFICES ASSUME RuntimeInit PROVE RuntimeInv
  OBVIOUS
<1>1. RegistryInv /\ RunsInv
  BY RegistryInitially, RunsInitially DEF RuntimeInit
<1>2. ApprovalsTypeOK
  BY DEF RuntimeInit, ApprovalsInit, ApprovalsTypeOK
<1>3. /\ exec = [e \in Executor |-> NoCall] /\ traceFiles = {}
      /\ calls = [inv \in Invocation |-> 0] /\ reported = [r \in RunId |-> "none"]
  BY DEF RuntimeInit, RuntimeVarsInit
<1>4. RuntimeTypeOK
  BY <1>1, <1>2, <1>3 DEF RuntimeTypeOK, RegistryInv, RunsInv
<1>5. \A e \in Executor : exec[e].pc = "idle"
  BY <1>3 DEF NoCall
<1>6. \A e \in Executor : LiveInv(e)
  BY <1>5 DEF LiveInv, Owning, Resolved, Planned, Cleared, Waiting, Committed, Acted
<1>7. OneOwnerPerRun
  BY <1>5 DEF OneOwnerPerRun, Owners
<1>8. \A inv \in Invocation : ActedInv(inv)
  BY <1>3 DEF ActedInv
<1> QED BY <1>1, <1>2, <1>4, <1>6, <1>7, <1>8 DEF RuntimeInv, StoresInv

-----------------------------------------------------------------------------
(***************************************************************************)
(* The inductive invariant holds in every state of the runtime.            *)
(***************************************************************************)
THEOREM RuntimeInvariant == RuntimeSpec => []RuntimeInv
BY RuntimeInitially, RuntimeStep, PTL DEF RuntimeSpec

\* Every variable of the runtime and of the stores keeps its type (executor.py:244).
THEOREM RuntimeTypes == RuntimeSpec => []RuntimeTypeOK
<1>1. RuntimeInv => RuntimeTypeOK
  BY DEF RuntimeInv
<1> QED BY <1>1, RuntimeInvariant, PTL

(***************************************************************************)
(* For any number of processes: two of them never own the same run, even   *)
(* when both passed the trace-file check before either created the run     *)
(* (trace.py:18, executor.py:267).                                         *)
(***************************************************************************)
THEOREM RunsHaveOneOwner == RuntimeSpec => []OneOwnerPerRun
<1>1. RuntimeInv => OneOwnerPerRun
  BY DEF RuntimeInv
<1> QED BY <1>1, RuntimeInvariant, PTL

(***************************************************************************)
(* For any number of processes, runs and approvals: the robot is asked to  *)
(* act at most once per invocation, per run and per approval, whatever     *)
(* crashes, recoveries and resubmissions happen (executor.py:388).         *)
(***************************************************************************)
THEOREM AdapterCalledOnce == RuntimeSpec => []AtMostOneCall
<1>1. RuntimeInv => AtMostOneCall
  <2> SUFFICES ASSUME RuntimeInv PROVE AtMostOneCall
    OBVIOUS
  <2>1. ASSUME NEW i \in Invocation, NEW j \in Invocation
        PROVE  /\ calls[i] <= 1
               /\ (/\ calls[i] > 0 /\ calls[j] > 0
                   /\ \/ i.run = j.run
                      \/ i.approval = j.approval /\ i.approval # None) => i = j
    <3>1. ActedInv(i) /\ ActedInv(j) /\ calls[i] \in Nat
      BY DEF RuntimeInv, RuntimeTypeOK
    <3>2. calls[i] <= 1
      BY <3>1 DEF ActedInv
    <3>3. calls[i] > 0 /\ calls[j] > 0 /\ i.run = j.run => i = j
      BY <3>1 DEF ActedInv
    <3>4. calls[i] > 0 /\ calls[j] > 0 /\ i.approval = j.approval /\ i.approval # None => i = j
      BY <3>1 DEF ActedInv, Granted
    <3> QED BY <3>2, <3>3, <3>4
  <2> QED BY <2>1 DEF AtMostOneCall
<1> QED BY <1>1, RuntimeInvariant, PTL

(***************************************************************************)
(* Whatever was executed was authorized as executed: planned exactly so,   *)
(* entered EXECUTING and, for a controlled Skill, approved for exactly     *)
(* this invocation and consumed within the approval's lifetime             *)
(* (executor.py:378, consume_execution_approval).                          *)
(***************************************************************************)
THEOREM CallsAreAuthorized == RuntimeSpec => []CallWasAuthorized
<1>1. RuntimeInv => CallWasAuthorized
  <2> SUFFICES ASSUME RuntimeInv, NEW inv \in Invocation, calls[inv] > 0
               PROVE  /\ runs[inv.run].plan = PlanOf(inv)
                      /\ Entered(inv.run, "EXECUTING")
                      /\ skill[inv.skill].manifest \in Controlled =>
                           inv.approval # None /\ Granted(inv)
    BY DEF CallWasAuthorized, Granted
  <2>1. ActedInv(inv)
    BY DEF RuntimeInv
  <2> QED BY <2>1 DEF ActedInv
<1> QED BY <1>1, RuntimeInvariant, PTL

(***************************************************************************)
(* Only governed code acts, although its row was read long before: the     *)
(* version called is ACTIVE or was DEPRECATED since, under the hash of the *)
(* invocation and a signature of the trusted key (executor.py:438,         *)
(* _resolve_active_skill).                                                 *)
(***************************************************************************)
THEOREM CallsAreGoverned == RuntimeSpec => []CallWasGoverned
<1>1. RuntimeInv => CallWasGoverned
  BY DEF RuntimeInv, ActedInv, CallWasGoverned, Released
<1> QED BY <1>1, RuntimeInvariant, PTL

-----------------------------------------------------------------------------
(***************************************************************************)
(* What may happen to an approval in one step: nothing; it is issued, for  *)
(* an ACTIVE controlled Skill under its stored hash, and unused; or it is  *)
(* used up, by a process that presents the very invocation it was issued   *)
(* for, with a clock sample no later than its expiry.                      *)
(***************************************************************************)
GrantMoves(a) ==
  LET row == execApprovals[a]  new == execApprovals'[a] IN
  \/ new = row
  \/ LET s == new.invocation.skill
     IN  /\ row = NoApprovalRow /\ new.consumed = None
         /\ skill[s].state = "ACTIVE" /\ skill[s].hash = new.invocation.hash
         /\ skill[s].manifest \in Controlled
  \/ /\ row.decision = "APPROVED" /\ row.consumed = None
     /\ \E now \in 0..row.expires : new = [row EXCEPT !.consumed = now]
     /\ \E e \in Executor : exec[e].pc = "consuming" /\ exec[e].inv = row.invocation

LEMMA IssueMoves ==
  ASSUME ApprovalsTypeOK, NEW a \in ApprovalId, NEW inv \in Invocation, NEW ttl \in Ttl,
         NEW decision \in Decisions, NEW now \in 0..clock,
         IssueExecutionApproval(inv, ttl, decision, now)
  PROVE  GrantMoves(a)
<1>1. CASE a # inv.approval
  BY <1>1, IssueWrites DEF GrantMoves
<1>2. CASE a = inv.approval
  <2>1. execApprovals[a] = NoApprovalRow
    BY <1>2, IssueWrites DEF Issued
  <2>2. execApprovals'[a] = [invocation |-> inv, decision |-> decision, expires |-> now + ttl,
                             consumed |-> None]
    BY <1>2 DEF IssueExecutionApproval, ApprovalsTypeOK
  <2>3. execApprovals'[a].invocation = inv /\ execApprovals'[a].consumed = None
    BY <2>2
  <2>4. /\ skill[inv.skill].state = "ACTIVE" /\ skill[inv.skill].hash = inv.hash
        /\ skill[inv.skill].manifest \in Controlled
    BY DEF IssueExecutionApproval
  <2> QED BY <2>1, <2>3, <2>4 DEF GrantMoves
<1> QED BY <1>1, <1>2

LEMMA ConsumeMoves ==
  ASSUME RuntimeInv, NEW a \in ApprovalId, NEW e \in Executor, ConsumeApproval(e)
  PROVE  GrantMoves(a)
<1> DEFINE inv == exec[e].inv
           now == exec[e].now
<1>1. exec[e].pc = "consuming" /\ ConsumeExecutionApproval(inv, now)
  BY DEF ConsumeApproval
<1>2. inv \in Invocation /\ now \in Nat /\ ApprovalsTypeOK
  <2>1. RuntimeTypeOK /\ ApprovalsTypeOK
    BY DEF RuntimeInv, StoresInv
  <2> QED BY <1>1, <2>1, ProcessFields DEF Call
<1>3. /\ Issued(inv.approval) /\ execApprovals[inv.approval].decision = "APPROVED"
      /\ execApprovals[inv.approval].consumed = None
      /\ execApprovals[inv.approval].invocation = inv
      /\ now <= execApprovals[inv.approval].expires
      /\ execApprovals' = [execApprovals EXCEPT ![inv.approval].consumed = now]
  BY <1>1 DEF ConsumeExecutionApproval, Usable
<1>4. CASE a # inv.approval
  BY <1>2, <1>3, <1>4 DEF GrantMoves, ApprovalsTypeOK
<1>5. CASE a = inv.approval
  <2>1. execApprovals[a] \in Approval
    BY <1>2, <1>3, <1>5 DEF ApprovalsTypeOK, Issued
  <2>2. now \in 0..execApprovals[a].expires
    BY <1>2, <1>3, <1>5, <2>1 DEF Approval
  <2>3. execApprovals'[a] = [execApprovals[a] EXCEPT !.consumed = now]
    BY <1>2, <1>3, <1>5 DEF ApprovalsTypeOK
  <2> QED BY <1>1, <1>3, <1>5, <2>2, <2>3 DEF GrantMoves
<1> QED BY <1>4, <1>5

(***************************************************************************)
(* An approval is issued once, used up once at most, in time and for the   *)
(* invocation it names, and nothing else ever happens to it: no process,   *)
(* crash, recovery or operator renews, rewrites or withdraws one           *)
(* (registry.py:519-653).                                                  *)
(***************************************************************************)
THEOREM ApprovalsAreSpentOnce ==
  RuntimeSpec => [][\A a \in ApprovalId : GrantMoves(a)]_allVars
<1>1. ASSUME RuntimeInv, RuntimeNext, NEW a \in ApprovalId
      PROVE  GrantMoves(a)
  <2>1. ApprovalsTypeOK
    BY <1>1 DEF RuntimeInv, StoresInv
  <2>2. UNCHANGED execApprovals => GrantMoves(a)
    BY DEF GrantMoves
  <2>3. CASE \E e \in Executor : ConsumeApproval(e)
    BY <1>1, <2>3, ConsumeMoves
  <2>4. CASE \E e \in Executor : Proceed(e) /\ ~ ConsumeApproval(e)
    <3>1. UNCHANGED execApprovals
      BY <2>4 DEF Proceed, ClaimRun, ClaimRefused, EnterRetrieving, Resolve, EnterPlanning,
                  EnterValidating, PolicyRefuses, EnterWaiting, SampleClock, ApprovalRefused,
                  EnterExecuting, CallAdapter, AdapterRaises, EnterVerifying, OutputRejected,
                  Succeed, Fail, FailRaises, approvalVars
    <3> QED BY <2>2, <3>1
  <2>5. CASE \E inv \in Invocation, ttl \in Ttl, decision \in Decisions, now \in 0..clock :
               OperatorDecides(inv, ttl, decision, now)
    BY <2>1, <2>5, IssueMoves DEF OperatorDecides
  <2>6. CASE \/ \E e \in Executor :
                  TraceFails(e) \/ Crash(e) \/ \E inv \in Invocation : Start(e, inv)
             \/ \E r \in RunId, target \in OperatorTargets, expected \in AgentStates,
                   plan \in Plan \cup {NoPlan} : OperatorTransition(r, target, expected, plan)
             \/ Recover \/ TimePasses \/ Govern
    BY <2>2, <2>6
    DEF TraceFails, Crash, Start, OperatorTransition, Recover, TimePasses, Tick, Govern, approvalVars
  <2> QED BY <1>1, <2>3, <2>4, <2>5, <2>6 DEF RuntimeNext
<1>2. RuntimeInv /\ [RuntimeNext]_allVars => [\A a \in ApprovalId : GrantMoves(a)]_allVars
  BY <1>1
<1> QED BY <1>2, RuntimeInvariant, PTL DEF RuntimeSpec

-----------------------------------------------------------------------------
(***************************************************************************)
(* The executors use the stores as their operations allow                  *)
(***************************************************************************)
LEMMA ProceedUsesTheStores ==
  ASSUME RuntimeInv, NEW e \in Executor, Proceed(e)
  PROVE  UNCHANGED registryVars /\ [RunsNext]_runVars
<1>1. UNCHANGED registryVars
  BY DEF Proceed, ClaimRun, ClaimRefused, EnterRetrieving, Resolve, EnterPlanning, EnterValidating,
         PolicyRefuses, EnterWaiting, SampleClock, ConsumeApproval, ApprovalRefused, EnterExecuting,
         CallAdapter, AdapterRaises, EnterVerifying, OutputRejected, Succeed, Fail, FailRaises
<1>2. exec[e].pc # "idle"
  BY DEF Proceed, ClaimRun, ClaimRefused, EnterRetrieving, Resolve, EnterPlanning, EnterValidating,
         PolicyRefuses, EnterWaiting, SampleClock, ConsumeApproval, ApprovalRefused, EnterExecuting,
         AtExecutionGate, CallAdapter, AdapterRaises, EnterVerifying, OutputRejected, Succeed, Fail,
         FailRaises
<1>3. /\ Run(e) \in RunId /\ exec[e].inv \in Invocation /\ exec[e].current \in AgentStates
  BY <1>2, ProcessFields DEF RuntimeInv
<1>4. /\ PlanOf(exec[e].inv) \in Plan /\ exec[e].inv.trace \in TraceId /\ NoPlan \in Plan \cup {NoPlan}
      /\ {"RETRIEVING", "PLANNING", "VALIDATING", "WAITING_APPROVAL", "EXECUTING", "VERIFYING",
          "SUCCEEDED", "FAILED"} \subseteq AgentStates
  BY <1>3, InvocationFields DEF AgentStates
<1>5. ASSUME NEW target \in AgentStates, NEW plan \in Plan \cup {NoPlan},
             Transition(Run(e), target, exec[e].current, plan)
      PROVE  RunsNext
  BY <1>3, <1>5 DEF RunsNext
<1>6. ASSUME NEW target \in AgentStates, NEW plan \in Plan \cup {NoPlan}, NEW pc,
             MoveRun(e, target, plan, pc)
      PROVE  [RunsNext]_runVars
  BY <1>5, <1>6 DEF MoveRun
<1>7. CASE ClaimRun(e)
  BY <1>3, <1>4, <1>7 DEF ClaimRun, RunsNext
<1>8. CASE EnterRetrieving(e) \/ EnterPlanning(e) \/ EnterValidating(e) \/ EnterWaiting(e)
  BY <1>4, <1>6, <1>8 DEF EnterRetrieving, EnterPlanning, EnterValidating, EnterWaiting
<1>9. CASE EnterExecuting(e) \/ EnterVerifying(e)
  BY <1>4, <1>6, <1>9 DEF EnterExecuting, EnterVerifying
<1>10. CASE Succeed(e) \/ Fail(e)
  BY <1>4, <1>5, <1>10 DEF Succeed, Fail
<1>11. CASE \/ ClaimRefused(e) \/ Resolve(e) \/ PolicyRefuses(e) \/ SampleClock(e)
            \/ ConsumeApproval(e) \/ ApprovalRefused(e) \/ CallAdapter(e) \/ AdapterRaises(e)
            \/ OutputRejected(e) \/ FailRaises(e)
  BY <1>11 DEF ClaimRefused, Resolve, PolicyRefuses, SampleClock, ConsumeApproval, ApprovalRefused,
               CallAdapter, AdapterRaises, OutputRejected, FailRaises
<1> QED BY <1>1, <1>7, <1>8, <1>9, <1>10, <1>11 DEF Proceed

LEMMA RuntimeUsesTheStores ==
  ASSUME RuntimeInv, [RuntimeNext]_allVars
  PROVE  [RegistryNext]_registryVars /\ [RunsNext]_runVars
<1>1. CASE \E e \in Executor : Proceed(e)
  BY <1>1, ProceedUsesTheStores
<1>2. CASE \/ \E e \in Executor :
                TraceFails(e) \/ Crash(e) \/ \E inv \in Invocation : Start(e, inv)
           \/ \E inv \in Invocation, ttl \in Ttl, decision \in Decisions, now \in 0..clock :
                OperatorDecides(inv, ttl, decision, now)
           \/ TimePasses
           \/ UNCHANGED allVars
  BY <1>2 DEF TraceFails, Crash, Start, OperatorDecides, TimePasses, allVars
<1>3. CASE Recover
  BY <1>3 DEF Recover, RunsNext
<1>4. CASE \E r \in RunId, target \in OperatorTargets, expected \in AgentStates,
              plan \in Plan \cup {NoPlan} :
             OperatorTransition(r, target, expected, plan)
  <2>1. PICK r \in RunId, target \in OperatorTargets, expected \in AgentStates,
             plan \in Plan \cup {NoPlan} :
          OperatorTransition(r, target, expected, plan)
    BY <1>4
  <2>2. target \in AgentStates
    BY OperatorAssumption
  <2> QED BY <2>1, <2>2 DEF OperatorTransition, RunsNext
<1>5. CASE Govern
  BY <1>5 DEF Govern
<1> QED BY <1>1, <1>2, <1>3, <1>4, <1>5 DEF RuntimeNext

(***************************************************************************)
(* Execution implements the two stores it works on: whatever executors,    *)
(* recovery, operators and governance do together, crashes included, the   *)
(* Skill tables and the run tables change by the operations of registry.py *)
(* only, so every theorem about them holds while Skills are executed       *)
(* (executor.py:244, registry.py:729-880).                                 *)
(***************************************************************************)
THEOREM RuntimeImplementsStores == RuntimeSpec => RegistrySpec /\ RunsSpec
<1>1. RuntimeInit => RegistryInit /\ RunsInit
  BY DEF RuntimeInit
<1>2. RuntimeInv /\ [RuntimeNext]_allVars => [RegistryNext]_registryVars /\ [RunsNext]_runVars
  BY RuntimeUsesTheStores
<1> QED BY <1>1, <1>2, RuntimeInvariant, PTL DEF RuntimeSpec, RegistrySpec, RunsSpec

-----------------------------------------------------------------------------
(***************************************************************************)
(* The runtime implements one-shot runs (OneShotRun), and what execute()   *)
(* reports is what the store says.  `transition-run` checks edges and not  *)
(* what the edge stands for, so each theorem names what no operator does:  *)
(* declare a run VERIFYING that never acted (and then SUCCEEDED), or move  *)
(* a run on, undecided, under the process that owns it.                    *)
(***************************************************************************)
Phases == [r \in RunId |-> Phase(r)]
Verdicts == [r \in RunId |-> Verdict(r)]

LEMMA PhaseOf ==
  ASSUME NEW r
  PROVE  Phase(r) = IF ~ Exists(r) THEN "absent"
                    ELSE IF Called(r) THEN "performed"
                    ELSE IF Entered(r, "EXECUTING") THEN "authorized" ELSE "preparing"
BY DEF Phase, Called

\* the abstract state changes only with the run, its history and the calls made for it
LEMMA SameView ==
  ASSUME NEW r \in RunId, runs'[r] = runs[r], agentEvents'[r] = agentEvents[r], calls' = calls
  PROVE  Phase(r)' = Phase(r) /\ Verdict(r)' = Verdict(r)
BY DEF Phase, Verdict, Exists, Entered

LEMMA UntouchedStutters ==
  ASSUME UNCHANGED runVars, calls' = calls
  PROVE  Phases' = Phases /\ Verdicts' = Verdicts
<1>1. ASSUME NEW r \in RunId PROVE Phase(r)' = Phase(r) /\ Verdict(r)' = Verdict(r)
  BY SameView DEF runVars
<1> QED BY <1>1 DEF Phases, Verdicts

LEMMA CreationCreates ==
  ASSUME RunsInv, NEW r \in RunId, NEW t \in TraceId, CreateRun(r, t), calls' = calls, ~ Called(r)
  PROVE  Abstract!Create(r)
<1>1. /\ ~ Exists(r) /\ Exists(r)' /\ runs'[r].state = "IDLE"
      /\ \A q \in RunId \ {r} : runs'[q] = runs[q] /\ agentEvents'[q] = agentEvents[q]
  BY CreateOutcome
<1>2. ~ Entered(r, "EXECUTING")'
  <2>1. RunsTypeOK /\ agentEvents[r] = <<>>
    BY <1>1 DEF RunsInv, RunInv, HistoryOf
  <2>2. ~ Entered(r, "EXECUTING")
    BY <2>1 DEF Entered
  <2>3. [from |-> "NONE", to |-> "IDLE"] \in RunEvent
    BY StatesApart DEF RunEvent
  <2>4. Recorded(r, [from |-> "NONE", to |-> "IDLE"])
    BY <2>1 DEF RunsTypeOK, CreateRun, RecordRunEvent, Recorded
  <2> QED BY <2>1, <2>2, <2>3, <2>4, RecordedEnters
<1>3. Phase(r) = "absent" /\ Phase(r)' = "preparing"
  <2>1. ~ Called(r)'
    BY DEF Called
  <2> QED BY <1>1, <1>2, <2>1 DEF Phase, Called
<1>4. Verdict(r) = "open" /\ Verdict(r)' = "open"
  BY <1>1 DEF Verdict, TerminalStates, Exists
<1>5. \A q \in RunId \ {r} : Phase(q)' = Phase(q) /\ Verdict(q)' = Verdict(q)
  BY <1>1, SameView
<1>6. Phases' = [Phases EXCEPT ![r] = "preparing"] /\ Phases[r] = "absent"
  BY <1>3, <1>5 DEF Phases
<1>7. Verdicts' = Verdicts
  BY <1>4, <1>5 DEF Verdicts
<1> QED BY <1>6, <1>7 DEF Abstract!Create, Phases, Verdicts

\* what a transition shows of its run; the other runs show nothing
LEMMA TransitionView ==
  ASSUME RunsInv, NEW r \in RunId, NEW target \in AgentStates, NEW expected \in AgentStates,
         NEW plan \in Plan \cup {NoPlan}, Transition(r, target, expected, plan), calls' = calls
  PROVE  /\ Exists(r) /\ Exists(r)' /\ runs'[r].state = target
         /\ Verdict(r) = "open"
         /\ Entered(r, "EXECUTING")' <=> Entered(r, "EXECUTING") \/ target = "EXECUTING"
         /\ \A q \in RunId \ {r} : Phase(q)' = Phase(q) /\ Verdict(q)' = Verdict(q)
<1>1. RunsTypeOK
  BY DEF RunsInv
<1>2. /\ RunMoves(r, target, plan)
      /\ \A q \in RunId \ {r} : runs'[q] = runs[q] /\ agentEvents'[q] = agentEvents[q]
  BY <1>1, TransitionMoves
<1>3. /\ runs'[r].state = target /\ Exists(r)'
      /\ [from |-> runs[r].state, to |-> target] \in RunEvent
  BY <1>1, <1>2, MovedRow
<1>4. Recorded(r, [from |-> runs[r].state, to |-> target])
  BY <1>2 DEF RunMoves
<1>5. Entered(r, "EXECUTING")' <=> Entered(r, "EXECUTING") \/ target = "EXECUTING"
  BY <1>1, <1>3, <1>4, RecordedEnters
<1>6. Verdict(r) = "open" /\ Exists(r)
  BY <1>2 DEF RunMoves, Verdict, TerminalStates
<1> QED BY <1>2, <1>3, <1>5, <1>6, SameView

LEMMA ProgressStutters ==
  ASSUME RunsInv, NEW r \in RunId, NEW target \in AgentStates \ TerminalStates,
         NEW expected \in AgentStates, NEW plan \in Plan \cup {NoPlan},
         Transition(r, target, expected, plan), calls' = calls, target # "EXECUTING"
  PROVE  Phases' = Phases /\ Verdicts' = Verdicts
<1>1. /\ Exists(r) /\ Exists(r)' /\ runs'[r].state = target /\ Verdict(r) = "open"
      /\ Entered(r, "EXECUTING")' <=> Entered(r, "EXECUTING")
      /\ \A q \in RunId \ {r} : Phase(q)' = Phase(q) /\ Verdict(q)' = Verdict(q)
  BY TransitionView
<1>2. Phase(r)' = Phase(r)
  BY <1>1 DEF Phase
<1>3. Verdict(r)' = "open"
  BY <1>1 DEF Verdict, TerminalStates
<1> QED BY <1>1, <1>2, <1>3 DEF Phases, Verdicts

LEMMA ExecutionAuthorizes ==
  ASSUME RunsInv, NEW r \in RunId, NEW expected \in AgentStates,
         Transition(r, "EXECUTING", expected, NoPlan), calls' = calls, ~ Called(r)
  PROVE  Abstract!Authorize(r) \/ (Phases' = Phases /\ Verdicts' = Verdicts)
<1>1. /\ Exists(r) /\ Exists(r)' /\ runs'[r].state = "EXECUTING" /\ Verdict(r) = "open"
      /\ Entered(r, "EXECUTING")'
      /\ \A q \in RunId \ {r} : Phase(q)' = Phase(q) /\ Verdict(q)' = Verdict(q)
  BY TransitionView, StatesApart
<1>2. Phase(r)' = "authorized" /\ Phase(r) \in {"preparing", "authorized"}
  <2>1. ~ Called(r)'
    BY DEF Called
  <2> QED BY <1>1, <2>1 DEF Phase, Called
<1>3. Verdict(r)' = "open"
  BY <1>1 DEF Verdict, TerminalStates
<1>4. Verdicts' = Verdicts /\ Verdicts[r] = "open"
  BY <1>1, <1>3 DEF Verdicts
<1>5. CASE Phase(r) = "authorized"
  <2>1. Phases' = Phases
    BY <1>1, <1>2, <1>5 DEF Phases
  <2> QED BY <1>4, <2>1
<1>6. CASE Phase(r) = "preparing"
  <2>1. Phases' = [Phases EXCEPT ![r] = "authorized"] /\ Phases[r] = "preparing"
    BY <1>1, <1>2, <1>6 DEF Phases
  <2> QED BY <1>4, <2>1 DEF Abstract!Authorize, Phases, Verdicts
<1> QED BY <1>2, <1>5, <1>6

LEMMA SuccessSucceeds ==
  ASSUME RunsInv, NEW r \in RunId, NEW expected \in AgentStates,
         Transition(r, "SUCCEEDED", expected, NoPlan), calls' = calls, Called(r)
  PROVE  Abstract!Succeed(r)
<1>1. /\ Exists(r) /\ Exists(r)' /\ runs'[r].state = "SUCCEEDED" /\ Verdict(r) = "open"
      /\ \A q \in RunId \ {r} : Phase(q)' = Phase(q) /\ Verdict(q)' = Verdict(q)
  BY TransitionView, StatesApart
<1>2. Phase(r) = "performed" /\ Phase(r)' = "performed"
  BY <1>1 DEF Phase, Called
<1>3. Verdict(r)' = "succeeded"
  BY <1>1 DEF Verdict
<1>4. Phases' = Phases /\ Phases[r] = "performed"
  BY <1>1, <1>2 DEF Phases
<1>5. Verdicts' = [Verdicts EXCEPT ![r] = "succeeded"] /\ Verdicts[r] = "open"
  BY <1>1, <1>3 DEF Verdicts
<1> QED BY <1>4, <1>5 DEF Abstract!Succeed, Phases, Verdicts

LEMMA EndGivesUp ==
  ASSUME RunsInv, NEW r \in RunId, NEW target \in TerminalStates \ {"SUCCEEDED"},
         NEW expected \in AgentStates, NEW plan \in Plan \cup {NoPlan},
         Transition(r, target, expected, plan), calls' = calls
  PROVE  Abstract!GiveUp({r})
<1>1. /\ Exists(r) /\ Exists(r)' /\ runs'[r].state = target /\ Verdict(r) = "open"
      /\ Entered(r, "EXECUTING")' <=> Entered(r, "EXECUTING")
      /\ \A q \in RunId \ {r} : Phase(q)' = Phase(q) /\ Verdict(q)' = Verdict(q)
  BY TransitionView, StatesApart DEF TerminalStates
<1>2. Phase(r)' = Phase(r) /\ Phase(r) # "absent"
  BY <1>1 DEF Phase
<1>3. Verdict(r)' = "unsuccessful"
  BY <1>1 DEF Verdict
<1>4. Phases' = Phases /\ Phases[r] # "absent"
  BY <1>1, <1>2 DEF Phases
<1>5. /\ Verdicts' = [q \in RunId |-> IF q \in {r} THEN "unsuccessful" ELSE Verdicts[q]]
      /\ Verdicts[r] = "open"
  BY <1>1, <1>3 DEF Verdicts
<1> QED BY <1>4, <1>5 DEF Abstract!GiveUp, Phases, Verdicts

LEMMA RecoveryGivesUp ==
  ASSUME RunsInv, FailClosedRecover, calls' = calls
  PROVE  Abstract!GiveUp(ActiveRuns)
<1>1. RunsTypeOK /\ "ABORTED" \in AgentStates
  BY StatesApart DEF RunsInv
<1>2. ASSUME NEW r \in ActiveRuns
      PROVE  /\ Phase(r)' = Phase(r) /\ Phase(r) # "absent"
             /\ Verdict(r)' = "unsuccessful" /\ Verdict(r) = "open"
  <2>1. r \in RunId /\ RunMoves(r, "ABORTED", NoPlan)
    BY <1>1, <1>2, RecoveryMoves DEF ActiveRuns
  <2>2. /\ runs'[r].state = "ABORTED" /\ Exists(r)'
        /\ [from |-> runs[r].state, to |-> "ABORTED"] \in RunEvent
    BY <1>1, <2>1, MovedRow
  <2>3. Recorded(r, [from |-> runs[r].state, to |-> "ABORTED"])
    BY <2>1 DEF RunMoves
  <2>4. Entered(r, "EXECUTING")' <=> Entered(r, "EXECUTING")
    BY <1>1, <2>1, <2>2, <2>3, RecordedEnters
  <2> QED BY <2>1, <2>2, <2>4 DEF RunMoves, Phase, Verdict, TerminalStates
<1>3. \A r \in RunId \ ActiveRuns : Phase(r)' = Phase(r) /\ Verdict(r)' = Verdict(r)
  BY <1>1, RecoveryMoves, SameView
<1>4. Phases' = Phases /\ \A r \in ActiveRuns : Phases[r] # "absent" /\ Verdicts[r] = "open"
  BY <1>2, <1>3 DEF Phases, Verdicts, ActiveRuns
<1>5. Verdicts' = [r \in RunId |-> IF r \in ActiveRuns THEN "unsuccessful" ELSE Verdicts[r]]
  BY <1>2, <1>3 DEF Verdicts
<1> QED BY <1>4, <1>5 DEF Abstract!GiveUp, Phases, Verdicts

-----------------------------------------------------------------------------
(***************************************************************************)
(* Every step of the runtime is one abstract step, or none.                *)
(***************************************************************************)
AbstractStep == Abstract!Next \/ (Phases' = Phases /\ Verdicts' = Verdicts)

\* execute() by itself asks for these states only
LEMMA MoveRunMaps ==
  ASSUME RuntimeInv, NEW e \in Executor, exec[e].pc # "idle", NEW target, NEW plan \in Plan \cup {NoPlan},
         target \in {"RETRIEVING", "PLANNING", "VALIDATING", "WAITING_APPROVAL", "VERIFYING"},
         NEW pc, MoveRun(e, target, plan, pc), calls' = calls
  PROVE  AbstractStep
<1>1. RunsInv /\ RuntimeTypeOK
  BY DEF RuntimeInv, StoresInv
<1>2. Run(e) \in RunId /\ exec[e].current \in AgentStates
  BY <1>1, ProcessFields
<1>3. target \in AgentStates \ TerminalStates /\ target # "EXECUTING"
  BY DEF AgentStates, TerminalStates
<1>4. CASE Transition(Run(e), target, exec[e].current, plan)
  BY <1>1, <1>2, <1>3, <1>4, ProgressStutters DEF AbstractStep
<1>5. CASE UNCHANGED runVars
  BY <1>5, UntouchedStutters DEF AbstractStep
<1> QED BY <1>4, <1>5 DEF MoveRun

LEMMA ExecutingMaps ==
  ASSUME RuntimeInv, NEW e \in Executor, EnterExecuting(e)
  PROVE  AbstractStep
<1>1. RunsInv /\ RuntimeTypeOK /\ LiveInv(e) /\ calls' = calls
  BY DEF RuntimeInv, StoresInv, EnterExecuting
<1>2. /\ exec[e].pc \in Owning \ (Acted \cup {"failing"}) /\ exec[e].pc # "idle"
  BY DEF EnterExecuting, AtExecutionGate, Owning, Resolved, Planned, Cleared, Waiting, Committed, Acted
<1>3. Run(e) \in RunId /\ exec[e].current \in AgentStates
  BY <1>1, <1>2, ProcessFields
<1>4. ~ Called(Run(e))
  BY <1>1, <1>2 DEF LiveInv, Run
<1>5. CASE Transition(Run(e), "EXECUTING", exec[e].current, NoPlan)
  <2>1. Abstract!Authorize(Run(e)) \/ (Phases' = Phases /\ Verdicts' = Verdicts)
    BY <1>1, <1>3, <1>4, <1>5, ExecutionAuthorizes
  <2> QED BY <1>3, <2>1 DEF AbstractStep, Abstract!Next
<1>6. CASE UNCHANGED runVars
  BY <1>1, <1>6, UntouchedStutters DEF AbstractStep
<1> QED BY <1>5, <1>6 DEF EnterExecuting, MoveRun

\* the call itself: the store does not move
LEMMA CallPerforms ==
  ASSUME RuntimeInv, NEW e \in Executor, CallAdapter(e)
  PROVE  Abstract!Perform(Run(e)) /\ Run(e) \in RunId
<1> DEFINE mine == exec[e].inv
<1>1. /\ exec[e].pc = "EXECUTING" /\ RuntimeTypeOK /\ LiveInv(e)
      /\ calls' = [calls EXCEPT ![mine] = @ + 1] /\ calls \in [Invocation -> Nat]
      /\ UNCHANGED runVars
  BY DEF CallAdapter, RuntimeInv, RuntimeTypeOK
<1>2. mine \in Invocation /\ Run(e) \in RunId /\ Run(e) = mine.run
  BY <1>1, ProcessFields DEF Run
<1>3. Exists(mine.run) /\ ~ Called(mine.run) /\ Entered(mine.run, "EXECUTING")
  BY <1>1 DEF LiveInv, Owning, Resolved, Planned, Cleared, Committed, Acted
<1>4. \A r \in RunId :
        /\ Exists(r)' <=> Exists(r)
        /\ Entered(r, "EXECUTING")' <=> Entered(r, "EXECUTING")
        /\ Verdict(r)' = Verdict(r)
  BY <1>1 DEF runVars, Exists, Entered, Verdict
<1>5. \A r \in RunId : Called(r)' <=> Called(r) \/ r = Run(e)
  <2>1. /\ calls'[mine] = calls[mine] + 1 /\ calls[mine] \in Nat
        /\ \A inv \in Invocation : inv # mine => calls'[inv] = calls[inv]
    BY <1>1, <1>2
  <2>2. calls'[mine] > 0
    BY <2>1
  <2> QED BY <1>2, <2>1, <2>2 DEF Called
<1>6. /\ Phases' = [Phases EXCEPT ![Run(e)] = "performed"] /\ Phases[Run(e)] = "authorized"
  <2>1. \A r \in RunId : r # Run(e) => Phase(r)' = Phase(r)
    BY <1>4, <1>5 DEF Phase, Called
  <2>2. Phase(Run(e)) = "authorized"
    BY <1>2, <1>3, PhaseOf
  <2>3. ASSUME NEW r \in RunId, r = Run(e) PROVE Phase(r)' = "performed"
    BY <1>2, <1>3, <1>4, <1>5, <2>3 DEF Phase, Called
  <2> QED BY <1>2, <2>1, <2>2, <2>3 DEF Phases
<1>7. Verdicts' = Verdicts
  BY <1>4 DEF Verdicts
<1> QED BY <1>2, <1>6, <1>7 DEF Abstract!Perform, Phases, Verdicts

LEMMA ProceedMaps ==
  ASSUME RuntimeInv, NEW e \in Executor, Proceed(e)
  PROVE  AbstractStep
<1>1. RunsInv /\ RuntimeTypeOK /\ LiveInv(e) /\ \A inv \in Invocation : ActedInv(inv)
  BY DEF RuntimeInv, StoresInv
<1>2. exec[e].pc # "idle" => Run(e) \in RunId /\ exec[e].current \in AgentStates
  BY <1>1, ProcessFields
<1>3. CASE ClaimRun(e)
  <2>1. exec[e].pc # "idle" /\ CreateRun(Run(e), exec[e].inv.trace) /\ calls' = calls
    BY <1>3 DEF ClaimRun
  <2>2. exec[e].inv.trace \in TraceId
    BY <1>1, <2>1, ProcessFields, InvocationFields
  <2>3. ~ Called(Run(e))
    BY <1>1, <2>1 DEF CreateRun, Called, ActedInv
  <2>4. Abstract!Create(Run(e))
    BY <1>1, <1>2, <2>1, <2>2, <2>3, CreationCreates
  <2> QED BY <1>2, <2>1, <2>4 DEF AbstractStep, Abstract!Next
<1>4. CASE EnterRetrieving(e) \/ EnterPlanning(e) \/ EnterValidating(e) \/ EnterWaiting(e)
           \/ EnterVerifying(e)
  <2>1. exec[e].pc # "idle" /\ calls' = calls
    BY <1>4 DEF EnterRetrieving, EnterPlanning, EnterValidating, EnterWaiting, EnterVerifying
  <2>2. PlanOf(exec[e].inv) \in Plan
    BY <1>1, <2>1, ProcessFields, InvocationFields
  <2> QED BY <1>4, <2>1, <2>2, MoveRunMaps
          DEF EnterRetrieving, EnterPlanning, EnterValidating, EnterWaiting, EnterVerifying
<1>5. CASE EnterExecuting(e)
  BY <1>5, ExecutingMaps
<1>6. CASE CallAdapter(e)
  BY <1>6, CallPerforms DEF AbstractStep, Abstract!Next
<1>7. CASE Succeed(e)
  <2>1. /\ exec[e].pc = "VERIFYING" /\ calls' = calls
        /\ Transition(Run(e), "SUCCEEDED", exec[e].current, NoPlan)
    BY <1>7 DEF Succeed
  <2>2. Called(Run(e))
    BY <1>1, <2>1, ProcessFields DEF LiveInv, Acted, Called, Run
  <2>3. Abstract!Succeed(Run(e))
    BY <1>1, <1>2, <2>1, <2>2, SuccessSucceeds
  <2> QED BY <1>2, <2>1, <2>3 DEF AbstractStep, Abstract!Next
<1>8. CASE Fail(e)
  <2>1. /\ exec[e].pc # "idle" /\ calls' = calls
        /\ Transition(Run(e), "FAILED", exec[e].current, NoPlan)
    BY <1>8 DEF Fail
  <2>2. "FAILED" \in TerminalStates \ {"SUCCEEDED"}
    BY DEF TerminalStates
  <2>3. Abstract!GiveUp({Run(e)})
    BY <1>1, <1>2, <2>1, <2>2, EndGivesUp
  <2> QED BY <1>2, <2>1, <2>3 DEF AbstractStep, Abstract!Next
<1>9. CASE \/ ClaimRefused(e) \/ Resolve(e) \/ PolicyRefuses(e) \/ SampleClock(e)
           \/ ConsumeApproval(e) \/ ApprovalRefused(e) \/ AdapterRaises(e) \/ OutputRejected(e)
           \/ FailRaises(e)
  <2>1. UNCHANGED runVars /\ calls' = calls
    BY <1>9 DEF ClaimRefused, Resolve, PolicyRefuses, SampleClock, ConsumeApproval,
                ApprovalRefused, AdapterRaises, OutputRejected, FailRaises
  <2> QED BY <2>1, UntouchedStutters DEF AbstractStep
<1> QED BY <1>3, <1>4, <1>5, <1>6, <1>7, <1>8, <1>9 DEF Proceed

\* nobody claims by hand that a run has come back from its call
VerifiesByCode == "VERIFYING" \notin OperatorTargets

VerifyingActed == \A r \in RunId : runs[r].state = "VERIFYING" => Called(r)

\* a process sets VERIFYING after its own call
LEMMA ProcessVerifies ==
  ASSUME RuntimeInv, NEW e \in Executor, Proceed(e), NEW r \in RunId,
         runs[r].state # "VERIFYING", runs'[r].state = "VERIFYING"
  PROVE  Called(r)
<1>1. RunsInv /\ RuntimeTypeOK /\ LiveInv(e)
  BY DEF RuntimeInv, StoresInv
<1>2. exec[e].pc # "idle" => Run(e) \in RunId /\ exec[e].current \in AgentStates
  BY <1>1, ProcessFields
<1>3. CASE ClaimRun(e)
  <2>1. exec[e].pc # "idle" /\ CreateRun(Run(e), exec[e].inv.trace)
    BY <1>3 DEF ClaimRun
  <2>2. exec[e].inv.trace \in TraceId
    BY <1>1, <2>1, ProcessFields, InvocationFields
  <2> QED BY <1>1, <1>2, <2>1, <2>2, CreateOutcome
<1>4. ASSUME NEW target \in AgentStates \ {"VERIFYING"}, NEW plan \in Plan \cup {NoPlan},
             exec[e].pc # "idle", Transition(Run(e), target, exec[e].current, plan)
      PROVE  FALSE
  BY <1>1, <1>2, <1>4, TransitionOutcome
<1>5. CASE EnterRetrieving(e) \/ EnterPlanning(e) \/ EnterValidating(e) \/ EnterWaiting(e)
           \/ EnterExecuting(e)
  <2>1. /\ exec[e].pc # "idle"
        /\ \/ UNCHANGED runVars
           \/ \E target \in {"RETRIEVING", "PLANNING", "VALIDATING", "WAITING_APPROVAL", "EXECUTING"},
                 plan \in {NoPlan, PlanOf(exec[e].inv)} :
                Transition(Run(e), target, exec[e].current, plan)
    BY <1>5 DEF EnterRetrieving, EnterPlanning, EnterValidating, EnterWaiting, EnterExecuting,
                AtExecutionGate, MoveRun
  <2>2. PlanOf(exec[e].inv) \in Plan
    BY <1>1, <2>1, ProcessFields, InvocationFields
  <2> QED BY <1>4, <2>1, <2>2 DEF AgentStates, runVars
<1>6. CASE EnterVerifying(e)
  <2>1. exec[e].pc = "calling" /\ (UNCHANGED runVars \/ Transition(Run(e), "VERIFYING", exec[e].current, NoPlan))
    BY <1>6 DEF EnterVerifying, MoveRun
  <2>2. calls[exec[e].inv] > 0 /\ exec[e].inv \in Invocation
    BY <1>1, <2>1, ProcessFields DEF LiveInv, Acted
  <2>3. r = Run(e)
    BY <1>1, <1>2, <2>1, StatesApart, TransitionOutcome DEF runVars
  <2> QED BY <2>2, <2>3 DEF Called, Run
<1>7. CASE Succeed(e) \/ Fail(e)
  <2>1. /\ exec[e].pc # "idle"
        /\ \E target \in {"SUCCEEDED", "FAILED"} :
             Transition(Run(e), target, exec[e].current, NoPlan)
    BY <1>7 DEF Succeed, Fail
  <2> QED BY <1>4, <2>1 DEF AgentStates
<1>8. CASE \/ ClaimRefused(e) \/ Resolve(e) \/ PolicyRefuses(e) \/ SampleClock(e)
           \/ ConsumeApproval(e) \/ ApprovalRefused(e) \/ CallAdapter(e) \/ AdapterRaises(e)
           \/ OutputRejected(e) \/ FailRaises(e)
  <2>1. UNCHANGED runVars
    BY <1>8 DEF ClaimRefused, Resolve, PolicyRefuses, SampleClock, ConsumeApproval,
                ApprovalRefused, CallAdapter, AdapterRaises, OutputRejected, FailRaises
  <2> QED BY <2>1 DEF runVars
<1> QED BY <1>3, <1>5, <1>6, <1>7, <1>8 DEF Proceed

\* calls are counted and never taken back
LEMMA CallsGrow ==
  ASSUME [RuntimeNext]_allVars
  PROVE  calls' = calls \/ \E e \in Executor : calls' = [calls EXCEPT ![exec[e].inv] = @ + 1]
BY DEF RuntimeNext, Proceed, ClaimRun, ClaimRefused, EnterRetrieving, Resolve, EnterPlanning,
       EnterValidating, PolicyRefuses, EnterWaiting, SampleClock, ConsumeApproval,
       ApprovalRefused, EnterExecuting, CallAdapter, AdapterRaises, EnterVerifying,
       OutputRejected, Succeed, Fail, FailRaises, TraceFails, Crash, Start, Recover, OperatorTransition,
       OperatorDecides, Govern, TimePasses, allVars, runtimeVars

LEMMA CalledStays ==
  ASSUME RuntimeInv, [RuntimeNext]_allVars, NEW r \in RunId, Called(r)
  PROVE  Called(r)'
<1>1. calls \in [Invocation -> Nat]
  BY DEF RuntimeInv, RuntimeTypeOK
<1>2. calls' = calls \/ \E e \in Executor : calls' = [calls EXCEPT ![exec[e].inv] = @ + 1]
  BY CallsGrow
<1>3. \A inv \in Invocation : calls[inv] > 0 => calls'[inv] > 0
  BY <1>1, <1>2
<1> QED BY <1>3 DEF Called

LEMMA VerifyingStep ==
  ASSUME VerifiesByCode, RuntimeInv, VerifyingActed, [RuntimeNext]_allVars
  PROVE  VerifyingActed'
<1>1. RunsInv
  BY DEF RuntimeInv, StoresInv
<1> SUFFICES ASSUME NEW r \in RunId, runs'[r].state = "VERIFYING" PROVE Called(r)
  BY CalledStays DEF VerifyingActed
<1>2. CASE runs[r].state = "VERIFYING"
  BY <1>2 DEF VerifyingActed
<1>3. CASE runs[r].state # "VERIFYING"
  <2>1. CASE \E e \in Executor : Proceed(e)
    BY <1>3, <2>1, ProcessVerifies
  <2>2. CASE runs' = runs
    BY <1>3, <2>2
  <2>3. CASE Recover
    <3>1. RunsTypeOK /\ FailClosedRecover
      BY <1>1, <2>3 DEF RunsInv, Recover
    <3>2. r \notin ActiveRuns => runs'[r] = runs[r]
      BY <3>1, RecoveryMoves
    <3>3. r \in ActiveRuns => runs'[r].state = "ABORTED"
      BY <3>1, RecoveryMoves, MovedRow, StatesApart
    <3> QED BY <1>3, <3>2, <3>3
  <2>4. ASSUME NEW q \in RunId, NEW target \in OperatorTargets, NEW expected \in AgentStates,
               NEW plan \in Plan \cup {NoPlan}, OperatorTransition(q, target, expected, plan)
        PROVE  FALSE
    <3>1. target \in AgentStates /\ target # "VERIFYING"
      BY OperatorAssumption DEF VerifiesByCode
    <3>2. Transition(q, target, expected, plan)
      BY <2>4 DEF OperatorTransition
    <3> QED BY <1>1, <1>3, <3>1, <3>2, TransitionOutcome
  <2>5. \/ runs' = runs \/ Recover \/ \E e \in Executor : Proceed(e)
        \/ \E q \in RunId, target \in OperatorTargets, expected \in AgentStates,
              plan \in Plan \cup {NoPlan} : OperatorTransition(q, target, expected, plan)
    BY DEF RuntimeNext, TraceFails, Crash, Start, OperatorDecides, Govern, TimePasses, allVars, runVars
  <2> QED BY <2>1, <2>2, <2>3, <2>4, <2>5
<1> QED BY <1>2, <1>3

\* what a person does to a run is a step of the promise, whatever the target
LEMMA HandMaps ==
  ASSUME RuntimeInv, VerifyingActed, NEW r \in RunId, NEW target \in OperatorTargets,
         NEW expected \in AgentStates, NEW plan \in Plan \cup {NoPlan},
         OperatorTransition(r, target, expected, plan)
  PROVE  AbstractStep
<1>1. /\ RunsInv /\ target \in AgentStates
      /\ Transition(r, target, expected, plan) /\ calls' = calls
  BY OperatorAssumption DEF RuntimeInv, StoresInv, OperatorTransition, runtimeVars
<1>2. CASE target \in TerminalStates \ {"SUCCEEDED"}
  <2>1. Abstract!GiveUp({r})
    BY <1>1, <1>2, EndGivesUp
  <2> QED BY <2>1 DEF AbstractStep, Abstract!Next
<1>3. CASE target = "SUCCEEDED"
  <2>1. runs[r].state = "VERIFYING" /\ plan = NoPlan
    BY <1>1, <1>3
    DEF Transition, MayTransition, PlanRules, TransitionAllowed, ForwardTransitions
  <2>2. Abstract!Succeed(r)
    BY <1>1, <1>3, <2>1, SuccessSucceeds DEF VerifyingActed
  <2> QED BY <2>2 DEF AbstractStep, Abstract!Next
<1>4. CASE target = "EXECUTING" /\ ~ Called(r)
  <2>1. plan = NoPlan
    BY <1>1, <1>4 DEF Transition, MayTransition, PlanRules
  <2>2. Abstract!Authorize(r) \/ (Phases' = Phases /\ Verdicts' = Verdicts)
    BY <1>1, <1>4, <2>1, ExecutionAuthorizes
  <2> QED BY <2>2 DEF AbstractStep, Abstract!Next
<1>5. CASE target = "EXECUTING" /\ Called(r)
  <2>1. /\ Exists(r) /\ Exists(r)' /\ runs'[r].state = "EXECUTING" /\ Verdict(r) = "open"
        /\ \A q \in RunId \ {r} : Phase(q)' = Phase(q) /\ Verdict(q)' = Verdict(q)
    BY <1>1, <1>5, TransitionView
  <2>2. Phase(r)' = Phase(r)
    BY <1>1, <1>5, <2>1 DEF Phase, Called
  <2>3. Verdict(r)' = "open"
    BY <2>1 DEF Verdict, TerminalStates
  <2> QED BY <2>1, <2>2, <2>3 DEF AbstractStep, Phases, Verdicts
<1>6. CASE target \notin TerminalStates \cup {"EXECUTING"}
  BY <1>1, <1>6, ProgressStutters DEF AbstractStep
<1> QED BY <1>2, <1>3, <1>4, <1>5, <1>6

LEMMA StepMaps ==
  ASSUME RuntimeInv, VerifyingActed, [RuntimeNext]_allVars
  PROVE  AbstractStep
<1>1. RunsInv
  BY DEF RuntimeInv, StoresInv
<1>2. CASE UNCHANGED runVars /\ calls' = calls
  BY <1>2, UntouchedStutters DEF AbstractStep
<1>3. CASE Recover
  <2>1. FailClosedRecover /\ calls' = calls
    BY <1>3 DEF Recover, runtimeVars
  <2>2. Abstract!GiveUp(ActiveRuns) /\ ActiveRuns \in SUBSET RunId
    BY <1>1, <2>1, RecoveryGivesUp DEF ActiveRuns
  <2> QED BY <2>2 DEF AbstractStep, Abstract!Next
<1>4. CASE \E r \in RunId, target \in OperatorTargets, expected \in AgentStates,
              plan \in Plan \cup {NoPlan} : OperatorTransition(r, target, expected, plan)
  BY <1>4, HandMaps
<1>5. ASSUME NEW e \in Executor,
             TraceFails(e) \/ Crash(e) \/ \E inv \in Invocation : Start(e, inv)
      PROVE  AbstractStep
  BY <1>2, <1>5 DEF TraceFails, Crash, Start
<1>6. CASE Govern \/ TimePasses
           \/ \E inv \in Invocation, ttl \in Ttl, decision \in Decisions, now \in 0..clock :
                OperatorDecides(inv, ttl, decision, now)
  BY <1>2, <1>6 DEF Govern, TimePasses, OperatorDecides, runtimeVars
<1>7. CASE UNCHANGED allVars
  BY <1>2, <1>7 DEF allVars, runtimeVars
<1> QED BY <1>3, <1>4, <1>5, <1>6, <1>7, ProceedMaps DEF RuntimeNext

LEMMA InitMaps == RuntimeInit => Abstract!Init
BY StatesApart
DEF RuntimeInit, RunsInit, RuntimeVarsInit, Abstract!Init, Phase, Verdict, Exists, NoRun,
    TerminalStates

(***************************************************************************)
(* The runtime implements one-shot runs, for any number of processes and   *)
(* runs: an identifier stands for one run, which is authorized while it is *)
(* undecided, acts at most once and only after that, and counts as a       *)
(* success only if it acted (executor.py:244, execute).  An operator may   *)
(* move runs by hand along any edge but the one into VERIFYING.            *)
(***************************************************************************)
THEOREM RuntimeImplementsOneShotRun ==
  ASSUME VerifiesByCode
  PROVE  RuntimeSpec => ImplementsOneShotRun
<1>1. RuntimeInv /\ VerifyingActed /\ [RuntimeNext]_allVars => [Abstract!Next]_(Abstract!vars)
  BY StepMaps DEF AbstractStep, Abstract!vars, Phases, Verdicts
<1>2. RuntimeInv /\ VerifyingActed /\ [RuntimeNext]_allVars => VerifyingActed'
  BY VerifyingStep
<1>3. RuntimeInit => VerifyingActed
  BY DEF RuntimeInit, RunsInit, VerifyingActed, NoRun
<1> QED BY <1>1, <1>2, <1>3, InitMaps, RuntimeInvariant, PTL
        DEF RuntimeSpec, ImplementsOneShotRun, Abstract!Spec

-----------------------------------------------------------------------------
(***************************************************************************)
(* What a process told its caller                                          *)
(***************************************************************************)
ActedOnce(r) == \E inv \in Invocation : inv.run = r /\ calls[inv] = 1

ReportHolds(r) ==
  /\ reported[r] = "failed" => runs[r].state = "FAILED"
  /\ reported[r] = "succeeded" => runs[r].state = "SUCCEEDED" /\ ActedOnce(r)

\* nothing is called twice, so what acted once has acted once for ever
LEMMA ActedOnceStays ==
  ASSUME RuntimeInv, [RuntimeNext]_allVars, NEW r \in RunId, ActedOnce(r)
  PROVE  ActedOnce(r)'
<1>1. PICK inv \in Invocation : inv.run = r /\ calls[inv] = 1
  BY DEF ActedOnce
<1>2. RuntimeInv'
  BY RuntimeStep
<1>3. calls \in [Invocation -> Nat] /\ calls'[inv] \in Nat /\ ActedInv(inv)'
  BY <1>2 DEF RuntimeInv, RuntimeTypeOK
<1>4. calls' = calls \/ \E e \in Executor : calls' = [calls EXCEPT ![exec[e].inv] = @ + 1]
  BY CallsGrow
<1>5. calls'[inv] > 0
  BY <1>1, <1>3, <1>4
<1>6. calls'[inv] = 1
  BY <1>3, <1>5 DEF ActedInv
<1> QED BY <1>1, <1>6 DEF ActedOnce

\* a decided run stays as it is, and with it what was said of it
LEMMA ReportStays ==
  ASSUME RuntimeInv, [RuntimeNext]_allVars, NEW r \in RunId, ReportHolds(r),
         reported'[r] \in {reported[r], "none", "raised"}
  PROVE  ReportHolds(r)'
<1>1. [RunsNext]_runVars /\ RunsInv
  BY RuntimeUsesTheStores DEF RuntimeInv, StoresInv
<1>2. runs[r].state \in TerminalStates => runs'[r] = runs[r]
  BY <1>1, FinalStep DEF Final, runVars
<1>3. ActedOnce(r) => ActedOnce(r)'
  BY ActedOnceStays
<1> QED BY <1>2, <1>3 DEF ReportHolds, TerminalStates

\* what a process tells its caller when its call ends
LEMMA EndReports ==
  ASSUME RuntimeInv, NEW e \in Executor, Succeed(e) \/ Fail(e), [RuntimeNext]_allVars,
         NEW r \in RunId, ReportHolds(r)
  PROVE  ReportHolds(r)'
<1>1. exec[e].pc # "idle" /\ RuntimeTypeOK /\ RunsInv /\ calls' = calls
  BY DEF Succeed, Fail, RuntimeInv, StoresInv
<1>2. Run(e) \in RunId /\ exec[e].inv \in Invocation /\ exec[e].current \in AgentStates
  BY <1>1, ProcessFields
<1>3. reported \in Reports
  BY <1>1 DEF RuntimeTypeOK, Reports
<1>4. CASE reported'[r] \in {reported[r], "raised"}
  BY <1>4, ReportStays
<1>5. CASE Succeed(e) /\ r = Run(e)
  <2>1. runs'[r].state = "SUCCEEDED"
    BY <1>1, <1>2, <1>5, TransitionOutcome, StatesApart DEF Succeed
  <2>2. exec[e].pc \in Acted /\ LiveInv(e) /\ ActedInv(exec[e].inv)
    BY <1>2, <1>5 DEF Succeed, Acted, RuntimeInv
  <2>3. calls[exec[e].inv] = 1
    BY <2>2 DEF LiveInv, ActedInv
  <2>4. ActedOnce(r)'
    BY <1>1, <1>2, <1>5, <2>3 DEF ActedOnce, Run
  <2>5. reported'[r] \in {reported[r], "raised"} \/ reported'[r] = "succeeded"
    BY <1>3, <1>5 DEF Succeed, Answer, Report, Reports
  <2> QED BY <1>4, <2>1, <2>4, <2>5 DEF ReportHolds
<1>6. CASE Fail(e) /\ r = Run(e)
  <2>1. runs'[r].state = "FAILED"
    BY <1>1, <1>2, <1>6, TransitionOutcome DEF Fail, AgentStates
  <2>2. reported'[r] \in {reported[r], "raised"} \/ reported'[r] = "failed"
    BY <1>3, <1>6 DEF Fail, Answer, Report, Reports
  <2> QED BY <1>4, <2>1, <2>2 DEF ReportHolds
<1>7. CASE r # Run(e)
  <2>1. reported'[r] = reported[r]
    BY <1>3, <1>7 DEF Succeed, Fail, Answer, Report, Reports
  <2> QED BY <1>4, <2>1
<1> QED BY <1>5, <1>6, <1>7

LEMMA ReportsStep ==
  ASSUME RuntimeInv, ResultMatchesStore, [RuntimeNext]_allVars
  PROVE  ResultMatchesStore'
<1> SUFFICES ASSUME NEW r \in RunId PROVE ReportHolds(r)'
  BY DEF ResultMatchesStore, ReportHolds, ActedOnce
<1>1. ReportHolds(r) /\ reported \in Reports
  BY DEF ResultMatchesStore, ReportHolds, ActedOnce, RuntimeInv, RuntimeTypeOK, Reports
<1>2. CASE \E e \in Executor : Succeed(e) \/ Fail(e)
  BY <1>1, <1>2, EndReports
<1>3. CASE \E e \in Executor : FailRaises(e) \/ TraceFails(e)
  <2>1. reported'[r] \in {reported[r], "raised"}
    BY <1>1, <1>3 DEF FailRaises, TraceFails, Report, Reports
  <2> QED BY <1>1, <2>1, ReportStays
<1>4. CASE reported' = reported
  BY <1>1, <1>4, ReportStays
<1>5. \/ reported' = reported
      \/ \E e \in Executor : Succeed(e) \/ Fail(e) \/ FailRaises(e) \/ TraceFails(e)
  BY DEF RuntimeNext, Proceed, ClaimRun, ClaimRefused, EnterRetrieving, Resolve, EnterPlanning,
         EnterValidating, PolicyRefuses, EnterWaiting, SampleClock, ConsumeApproval,
         ApprovalRefused, EnterExecuting, CallAdapter, AdapterRaises, EnterVerifying,
         OutputRejected, Crash, Start, Recover, OperatorTransition, OperatorDecides, Govern,
         TimePasses, allVars, runtimeVars
<1> QED BY <1>2, <1>3, <1>4, <1>5

(***************************************************************************)
(* What execute() returns is what the store says, then and for ever,       *)
(* whatever recovery, operators and failing traces do to the run: `failed` *)
(* and `succeeded` name the stored state, and a success is said only of a  *)
(* run whose one invocation acted, exactly once (executor.py:388-436).     *)
(***************************************************************************)
THEOREM ResultsAlwaysMatch == RuntimeSpec => []ResultMatchesStore
<1>1. RuntimeInv /\ ResultMatchesStore /\ [RuntimeNext]_allVars => ResultMatchesStore'
  BY ReportsStep
<1>2. RuntimeInit => ResultMatchesStore
  BY DEF RuntimeInit, RuntimeVarsInit, ResultMatchesStore
<1> QED BY <1>1, <1>2, RuntimeInvariant, PTL DEF RuntimeSpec
=============================================================================
