--------------------------- MODULE SkillRegistry ---------------------------
(***************************************************************************)
(* The governance half of robot_skill_registry/registry.py: the tables     *)
(* skill_versions, skill_events and skill_approvals, and the operations    *)
(* that write them.  Every operation is one SQLite write transaction       *)
(* (BEGIN IMMEDIATE ... COMMIT), so it is one action here; any number of   *)
(* processes may call any operation in any order with any arguments, in    *)
(* particular with a stale view of the row (`expected').  A call that      *)
(* raises is rolled back and leaves the tables as they were.               *)
(***************************************************************************)
EXTENDS Naturals, Sequences

CONSTANTS
  Skill,         \* the (name, version) keys
  Hash,          \* artifact hashes, lowercase SHA-256
  Manifest,      \* canonical manifests
  Controlled,    \* the manifests whose invocations need an execution approval
  Key,           \* release signing keys
  None,          \* SQL NULL
  MaxRejections  \* bound on the REJECTED decisions recorded for one version

ASSUME ControlledAssumption == Controlled \subseteq Manifest
ASSUME NoneAssumption == None \notin Hash \cup Manifest \cup [skill : Skill, hash : Hash, key : Key]
ASSUME MaxRejectionsAssumption == MaxRejections \in Nat

VARIABLES
  skill,          \* skill_versions
  skillEvents,    \* skill_events of each version, in sequence order
  skillApprovals  \* skill_approvals of each version, in sequence order

registryVars == <<skill, skillEvents, skillApprovals>>

Lifecycle ==
  << "DRAFT", "GENERATED", "STATIC_VALIDATED", "BUILT", "UNIT_TESTED",
     "SIMULATION_TESTED", "HUMAN_APPROVED", "SIGNED", "ACTIVE", "DEPRECATED" >>

SkillStates ==
  { "DRAFT", "GENERATED", "STATIC_VALIDATED", "BUILT", "UNIT_TESTED",
    "SIMULATION_TESTED", "HUMAN_APPROVED", "SIGNED", "ACTIVE", "DEPRECATED" }

\* SKILL_NEXT_STATE.get(current) == target
Follows(current, target) ==
  \E i \in 1..9 : current = Lifecycle[i] /\ target = Lifecycle[i + 1]

Envelope == [skill : Skill, hash : Hash, key : Key]

Row ==
  [state : SkillStates, hash : Hash, manifest : Manifest, signature : Envelope \cup {None}]

NoRow == [state |-> "ABSENT", hash |-> None, manifest |-> None, signature |-> None]

Decisions == {"APPROVED", "REJECTED"}

RegistryTypeOK ==
  /\ skill \in [Skill -> Row \cup {NoRow}]
  /\ skillEvents \in [Skill -> Seq([hash : Hash, from : SkillStates \cup {None}, to : SkillStates])]
  /\ skillApprovals \in [Skill -> Seq([hash : Hash, decision : Decisions])]

Registered(s) == skill[s].state # "ABSENT"

RegistryInit ==
  /\ skill = [s \in Skill |-> NoRow]
  /\ skillEvents = [s \in Skill |-> <<>>]
  /\ skillApprovals = [s \in Skill |-> <<>>]

-----------------------------------------------------------------------------
RecordEvent(s, h, from, to) ==
  skillEvents' = [skillEvents EXCEPT ![s] = Append(@, [hash |-> h, from |-> from, to |-> to])]

RegisterOverwrites(s, h, m) ==
  /\ skill' = [skill EXCEPT ![s] = [state |-> "DRAFT", hash |-> h, manifest |-> m,
                                    signature |-> None]]
  /\ RecordEvent(s, h, None, "DRAFT")
  /\ UNCHANGED skillApprovals

RegisterWithBareSignature(s, h, m) ==
  /\ ~ Registered(s)
  /\ skill' = [skill EXCEPT ![s] = [state |-> "DRAFT", hash |-> h, manifest |-> m,
                                    signature |-> [skill |-> s, hash |-> h]]]
  /\ RecordEvent(s, h, None, "DRAFT")
  /\ UNCHANGED skillApprovals

(***************************************************************************)
(* register_manifest: the first registration inserts a DRAFT row and its   *)
(* event.  Registering the same content again returns the row, different   *)
(* content raises: neither changes a table.                                *)
(***************************************************************************)
RegisterManifest(s, h, m) ==
  /\ ~ Registered(s)
  /\ skill' = [skill EXCEPT ![s] = [state |-> "DRAFT", hash |-> h, manifest |-> m,
                                    signature |-> None]]
  /\ RecordEvent(s, h, None, "DRAFT")
  /\ UNCHANGED skillApprovals

TransitionTrustsCaller(s, target, expected) ==
  /\ Registered(s)
  /\ Follows(expected, target)
  /\ target = "ACTIVE" => skill[s].signature # None
  /\ skill' = [skill EXCEPT ![s].state = target]
  /\ RecordEvent(s, skill[s].hash, expected, target)
  /\ UNCHANGED skillApprovals

\* _transition_skill: one legal edge, from the state the caller saw
TransitionSkill(s, target, expected) ==
  /\ skill[s].state = expected
  /\ Follows(skill[s].state, target)
  /\ target = "ACTIVE" => skill[s].signature # None
  /\ skill' = [skill EXCEPT ![s].state = target]
  /\ RecordEvent(s, skill[s].hash, skill[s].state, target)
  /\ UNCHANGED skillApprovals

AdvanceAnywhere(s, target, expected) == TransitionSkill(s, target, expected)

\* advance: the two governance states have operations of their own
Advance(s, target, expected) ==
  /\ target \notin {"HUMAN_APPROVED", "SIGNED"}
  /\ TransitionSkill(s, target, expected)

ReviewableForever(s, h) ==
  /\ skill[s].hash = h
  /\ skill[s].state \in {"SIMULATION_TESTED", "HUMAN_APPROVED"}

\* the checks of approve, inside its transaction
Reviewable(s, h) ==
  /\ skill[s].hash = h
  /\ skill[s].state = "SIMULATION_TESTED"

(***************************************************************************)
(* approve: both decisions leave a row in skill_approvals, bound to the    *)
(* hash the reviewer named; only APPROVED moves the version.               *)
(***************************************************************************)
Approve(s, h, decision) ==
  /\ Registered(s)
  /\ Reviewable(s, h)
  /\ decision = "REJECTED" => Len(skillApprovals[s]) < MaxRejections
  /\ skillApprovals' = [skillApprovals EXCEPT ![s] =
                          Append(@, [hash |-> skill[s].hash, decision |-> decision])]
  /\ IF decision = "APPROVED"
       THEN /\ skill' = [skill EXCEPT ![s].state = "HUMAN_APPROVED"]
            /\ RecordEvent(s, skill[s].hash, "SIMULATION_TESTED", "HUMAN_APPROVED")
       ELSE UNCHANGED <<skill, skillEvents>>

(***************************************************************************)
(* record_verified_signature, called by verify_and_record_signature with   *)
(* the name, version and hash of the envelope it has verified.             *)
(***************************************************************************)
RecordVerifiedSignature(envelope) ==
  LET s == envelope.skill IN
  /\ skill[s].hash = envelope.hash
  /\ skill[s].state = "HUMAN_APPROVED"
  /\ skill' = [skill EXCEPT ![s].state = "SIGNED", ![s].signature = envelope]
  /\ RecordEvent(s, skill[s].hash, "HUMAN_APPROVED", "SIGNED")
  /\ UNCHANGED skillApprovals

RegistryNext ==
  \/ \E s \in Skill, h \in Hash, m \in Manifest : RegisterManifest(s, h, m)
  \/ \E s \in Skill, target, expected \in SkillStates : Advance(s, target, expected)
  \/ \E s \in Skill, h \in Hash, decision \in Decisions : Approve(s, h, decision)
  \/ \E envelope \in Envelope : RecordVerifiedSignature(envelope)

RegistrySpec == RegistryInit /\ [][RegistryNext]_registryVars

-----------------------------------------------------------------------------
\* the audit trail shows that s entered the state
Reached(s, state) ==
  \E i \in 1..Len(skillEvents[s]) : skillEvents[s][i].to = state

TrailOf(s) ==
  LET trail == skillEvents[s] IN
  /\ Len(trail) <= 10
  /\ trail = <<>> <=> ~ Registered(s)
  /\ trail # <<>> => skill[s].state = Lifecycle[Len(trail)]
  /\ \A i \in 1..Len(trail) :
       /\ trail[i].hash = skill[s].hash
       /\ trail[i].to = Lifecycle[i]
       /\ trail[i].from = IF i = 1 THEN None ELSE Lifecycle[i - 1]

(***************************************************************************)
(* The audit trail of a version is exactly the walk along the lifecycle    *)
(* that ends in its stored state, every event bound to the stored hash: no *)
(* gate is skipped or taken twice, and no writer that acted on a stale     *)
(* view left an event the row does not show (registry.py:655, _transition_ *)
(* skill; approve and record_verified_signature).                          *)
(***************************************************************************)
TrailIsLifecycle == \A s \in Skill : TrailOf(s)

ReviewOf(s) ==
  LET decisions == skillApprovals[s] IN
  /\ \A i \in 1..Len(decisions) :
       /\ decisions[i].hash = skill[s].hash
       /\ decisions[i].decision = "APPROVED" => i = Len(decisions)
  /\ Reached(s, "HUMAN_APPROVED") <=>
       \E i \in 1..Len(decisions) : decisions[i].decision = "APPROVED"

(***************************************************************************)
(* A review ends with its approval: every decision is about the stored     *)
(* hash, a rejected version may be decided again, but once approved it is  *)
(* never decided again, and it is past review exactly when the last        *)
(* decision is APPROVED (registry.py:419, approve).                        *)
(***************************************************************************)
ApprovalClosesReview == \A s \in Skill : ReviewOf(s)

(***************************************************************************)
(* A version that is, or ever was, ACTIVE was tested in simulation,        *)
(* approved by a human for the stored hash, and carries a release envelope *)
(* for its own key and hash (docs/registry_state_machine.md section 3).    *)
(***************************************************************************)
ActiveIsGoverned ==
  \A s \in Skill : skill[s].state \in {"ACTIVE", "DEPRECATED"} =>
    /\ Reached(s, "SIMULATION_TESTED")
    /\ \E i \in 1..Len(skillApprovals[s]) :
         skillApprovals[s][i] = [hash |-> skill[s].hash, decision |-> "APPROVED"]
    /\ skill[s].signature \in Envelope
    /\ skill[s].signature.skill = s
    /\ skill[s].signature.hash = skill[s].hash

(***************************************************************************)
(* What a version is never changes: once registered it keeps its hash and  *)
(* manifest, a stored signature stays, its state only moves forward, and   *)
(* the audit tables only grow (registry.py:325, register_manifest).        *)
(***************************************************************************)
IsPrefixOf(a, b) == Len(a) <= Len(b) /\ \A i \in 1..Len(a) : a[i] = b[i]

VersionPinned ==
  [][\A s \in Skill :
       /\ Registered(s) =>
            /\ skill'[s].hash = skill[s].hash
            /\ skill'[s].manifest = skill[s].manifest
            /\ skill'[s].state # skill[s].state => Follows(skill[s].state, skill'[s].state)
       /\ skill[s].signature # None => skill'[s].signature = skill[s].signature
       /\ IsPrefixOf(skillEvents[s], skillEvents'[s])
       /\ IsPrefixOf(skillApprovals[s], skillApprovals'[s])]_registryVars
=============================================================================
