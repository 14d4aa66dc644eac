------------------------- MODULE ExecutionApprovals -------------------------
(***************************************************************************)
(* The table execution_approvals of robot_skill_registry/registry.py: an   *)
(* operator issues an expiring approval for one exact invocation of an     *)
(* ACTIVE controlled Skill, and the executor consumes it once.             *)
(*                                                                         *)
(* Both operations read the clock BEFORE they wait for the SQLite write    *)
(* lock, so the `now` they act on may be older than the moment they        *)
(* commit: it is a parameter, any instant up to the present.  The hash of  *)
(* an invocation is the invocation itself (SHA-256 taken as injective).    *)
(***************************************************************************)
EXTENDS SkillRegistry, AgentRunStore

CONSTANTS
  Inputs, ApprovalId,
  Invocation, \* the invocations callers may present
  Ttl,        \* lifetimes an operator may choose, in clock ticks, rounded down
  MaxClock    \* bound on the clock

ASSUME InvocationAssumption ==
  Invocation \subseteq [run : RunId, trace : TraceId, skill : Skill, hash : Hash,
                        inputs : Inputs, approval : ApprovalId \cup {None}]
ASSUME TtlAssumption == Ttl \subseteq Nat
ASSUME MaxClockAssumption == MaxClock \in Nat
\* SQL NULL is neither a time nor a decision
ASSUME NullAssumption == None \notin Nat \cup Decisions

VARIABLES
  execApprovals, \* execution_approvals
  clock          \* time.time_ns(), taken as monotonic

approvalVars == <<execApprovals, clock>>

Approval ==
  [invocation : Invocation, decision : Decisions, expires : Nat, consumed : Nat \cup {None}]

NoApprovalRow ==
  [invocation |-> None, decision |-> None, expires |-> 0, consumed |-> None]

ApprovalsTypeOK ==
  /\ execApprovals \in [ApprovalId -> Approval \cup {NoApprovalRow}]
  /\ clock \in Nat

ApprovalsInit ==
  /\ execApprovals = [a \in ApprovalId |-> NoApprovalRow]
  /\ clock = 0

Tick ==
  /\ clock < MaxClock
  /\ clock' = clock + 1
  /\ UNCHANGED execApprovals

Issued(a) == execApprovals[a] # NoApprovalRow

(***************************************************************************)
(* issue_execution_approval: the id is new, the Skill row is ACTIVE, has   *)
(* the hash of the invocation, and its manifest calls for approval.        *)
(***************************************************************************)
IssueExecutionApproval(inv, ttl, decision, now) ==
  /\ inv.approval # None
  /\ ~ Issued(inv.approval)
  /\ skill[inv.skill].hash = inv.hash
  /\ skill[inv.skill].state = "ACTIVE"
  /\ skill[inv.skill].manifest \in Controlled
  /\ execApprovals' = [execApprovals EXCEPT ![inv.approval] =
                         [invocation |-> inv, decision |-> decision,
                          expires |-> now + ttl, consumed |-> None]]
  /\ UNCHANGED clock

UsableByRun(inv, now) ==
  LET row == execApprovals[inv.approval] IN
  /\ Issued(inv.approval)
  /\ row.decision = "APPROVED"
  /\ row.consumed = None
  /\ now <= row.expires
  /\ row.invocation.run = inv.run

\* the checks of consume_execution_approval, inside its transaction
Usable(inv, now) ==
  LET row == execApprovals[inv.approval] IN
  /\ Issued(inv.approval)
  /\ row.decision = "APPROVED"
  /\ row.consumed = None
  /\ now <= row.expires
  /\ row.invocation.run = inv.run
  /\ row.invocation = inv

ConsumeExecutionApproval(inv, now) ==
  /\ Usable(inv, now)
  /\ execApprovals' = [execApprovals EXCEPT ![inv.approval].consumed = now]
  /\ UNCHANGED clock
=============================================================================
