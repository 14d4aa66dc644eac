----------------------------- MODULE RobotHealth -----------------------------
(***************************************************************************)
(* safe_agent_core: the node of health_ros.py that listens until all the   *)
(* evidence is there or its time is up, and the policy of health.py that   *)
(* turns the evidence into a verdict.  Time is counted in ticks of one     *)
(* clock for the message stamps and for the deadline.  What the node hears *)
(* was true of the robot when it was said: safe is that history.           *)
(***************************************************************************)
EXTENDS Integers, FiniteSets

CONSTANTS
  Start,              \* the tick at which a collection begins
  CollectionTimeout,  \* collection_timeout_sec
  MaxTfAge, MaxDiagnosticAge, MaxSensorAge,
  Sensor              \* required_sensors

ASSUME HealthAssumption ==
  /\ {Start, CollectionTimeout, MaxTfAge, MaxDiagnosticAge, MaxSensorAge} \subseteq Nat
  /\ IsFiniteSet(Sensor)

VARIABLES
  now,  \* the node's clock
  safe, \* whether the robot was safe at each tick
  node  \* what the node has heard

healthVars == <<now, safe, node>>

Deadline == Start + CollectionTimeout

Unheard == -1

\* a stamp may be one tick ahead of the node's clock
Stamp == Unheard..(Deadline + 1)

\* safe up to a tick, or from a tick on
Histories == {[t \in 0..Deadline |-> t < u] : u \in 0..(Deadline + 1)}
        \cup {[t \in 0..Deadline |-> t >= u] : u \in 0..(Deadline + 1)}

\* no collection runs and nothing depends on the history
Unseen == [t \in 0..Deadline |-> FALSE]

Deaf == [pc |-> "off", nav2 |-> "idle", topic |-> Unheard, diagnostic |-> Unheard,
         transform |-> Unheard, sensors |-> [x \in Sensor |-> Unheard]]

HealthTypeOK ==
  /\ now \in Start..Deadline
  /\ safe \in Histories
  /\ node \in [pc : {"off", "spinning"},
               nav2 : {"idle", "asked", "broken", "active", "inactive"},
               topic : Stamp, diagnostic : Stamp, transform : Stamp,
               sensors : [Sensor -> Stamp]]

HealthInit == now = Start /\ safe = Unseen /\ node = Deaf

-----------------------------------------------------------------------------
(***************************************************************************)
(* Collecting the evidence                                                 *)
(***************************************************************************)
StartCollecting ==
  /\ node.pc = "off"
  /\ node' = [Deaf EXCEPT !.pc = "spinning"]
  /\ safe' \in Histories
  /\ UNCHANGED now

\* the node is destroyed
HealthEnds == node' = Deaf /\ now' = Start /\ safe' = Unseen

AllEvidenceReceived ==
  /\ node.nav2 \in {"active", "inactive"}
  /\ node.transform # Unheard
  /\ node.topic # Unheard
  /\ node.diagnostic # Unheard
  /\ \A x \in Sensor : node.sensors[x] # Unheard

\* the loop ends as soon as everything was heard, whatever it says
Spinning == node.pc = "spinning" /\ ~AllEvidenceReceived

\* _on_safety: volatile durability, so the message is of this collection
OnSafety ==
  \E t \in Start..now :
    /\ Spinning /\ t >= node.topic
    /\ node' = [node EXCEPT !.topic = t]

\* _on_diagnostics: the header stamp says how old the status is
OnDiagnostics ==
  \E t \in 0..now :
    /\ Spinning /\ t >= node.diagnostic
    /\ node' = [node EXCEPT !.diagnostic = t]

\* _start_nav2_request: one request, and a failed one is never repeated
StartNav2Request ==
  /\ Spinning /\ node.nav2 = "idle"
  /\ node' = [node EXCEPT !.nav2 = "asked"]

UpdateNav2Result ==
  /\ Spinning /\ node.nav2 = "asked"
  /\ \E r \in {"broken", "active", "inactive"} : node' = [node EXCEPT !.nav2 = r]

UpdateTransform ==
  \E t \in 0..(now + 1) :
    /\ Spinning /\ t >= node.transform
    /\ node' = [node EXCEPT !.transform = t]

SensorCallback ==
  \E x \in Sensor, t \in 0..(now + 1) :
    /\ Spinning /\ t >= node.sensors[x]
    /\ node' = [node EXCEPT !.sensors[x] = t]

Tick ==
  /\ Spinning /\ now < Deadline
  /\ now' = now + 1
  /\ UNCHANGED <<safe, node>>

Collect ==
  \/ Tick
  \/ /\ UNCHANGED <<now, safe>>
     /\ \/ OnSafety \/ OnDiagnostics \/ StartNav2Request
        \/ UpdateNav2Result \/ UpdateTransform \/ SensorCallback

-----------------------------------------------------------------------------
(***************************************************************************)
(* evaluate_health_snapshot                                                *)
(***************************************************************************)
StampAheadOnly(stamp, age) == stamp > now

\* _stamp_age reports an error
StampFails(stamp, age) == stamp > now \/ now - stamp > age

Nav2Check == node.nav2 = "active"

TransformCheck == node.transform # Unheard /\ ~StampFails(node.transform, MaxTfAge)

\* the topic counts whatever its age; the diagnostic must be fresh
SemanticSafetyCheck ==
  /\ node.topic # Unheard
  /\ node.diagnostic # Unheard
  /\ ~StampFails(node.diagnostic, MaxDiagnosticAge)
  /\ safe[node.topic]
  /\ safe[node.diagnostic]

\* silent are the topics without a publisher when the collection ends
SensorCheck(x, silent) ==
  /\ x \notin silent
  /\ node.sensors[x] # Unheard
  /\ ~StampFails(node.sensors[x], MaxSensorAge)

HealthState(silent) ==
  IF ~(Nav2Check /\ TransformCheck /\ SemanticSafetyCheck) THEN "unsafe"
  ELSE IF \E x \in Sensor : ~SensorCheck(x, silent) THEN "degraded" ELSE "healthy"

\* the snapshot is taken, judged and printed, and the node is gone
Evaluate(state) ==
  /\ node.pc = "spinning"
  /\ AllEvidenceReceived \/ now = Deadline
  /\ \E silent \in SUBSET Sensor : HealthState(silent) = state
  /\ HealthEnds

\* the process raises, hangs or is killed
CollectionDies ==
  /\ node.pc = "spinning"
  /\ HealthEnds
=============================================================================
