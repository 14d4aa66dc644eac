----------------------- MODULE CompositeWorkflowProofs -----------------------
(***************************************************************************)
(* A composite call grounds its motion for any maps, paths, time limits    *)
(* and sensors: the goal is sent on evidence that agrees, the result       *)
(* admits the motion, and a healthy verdict is a recent one.  The          *)
(* inductive invariant follows the steps taken, the age of the map the     *)
(* child has read, and what was true when the goal was sent.               *)
(***************************************************************************)
EXTENDS CompositeWorkflow, SequenceTheorems, TLAPS

Stages == {"start", "health", "observe", "query", "preview", "navigate", "returned"}

StepNames ==
  { "check_robot_health", "observe_water_risk", "query_semantic_target", "preview_safe_route",
    "navigate_to_approved_pose" }

Results == [state : {"none", "succeeded", "failed", "aborted"}, reached : BOOLEAN, motion : BOOLEAN]

Flows ==
  [mode : {Observe, ReturnHome}, stage : Stages, steps : Seq(StepNames),
   observed : 0..MaxMapVersion, approved : [path : Path \cup {NoPath}, map : 0..MaxMapVersion],
   result : Results]

Navs ==
  [pc : {"none"} \cup Working \cup Ended, health : {"none", "healthy", "degraded", "unsafe"},
   goal : {"unsent", "sent", "accepted", "rejected"}]

Order == StageOrder(flow.mode)
Done == Len(flow.steps)
All == Len(Order)

\* the steps are the first ones of the mode, as many as the stage says
StepsInOrder ==
  /\ Done \in 0..All
  /\ flow.steps = SubSeq(Order, 1, Done)
  /\ flow.stage \in {"start", "health"} => Done = 0
  /\ flow.stage = "observe" => flow.mode = Observe /\ Done = 1
  /\ flow.stage = "query" => Done = All - 3
  /\ flow.stage = "preview" => Done = All - 2
  /\ flow.stage = "navigate" => Done = All - 1
  /\ nav.pc # "none" => Done \in {All - 1, All}

\* the child of the navigation lives in the last stage
ChildInStage ==
  /\ flow.stage \notin {"navigate", "returned"} => nav.pc = "none"
  /\ flow.stage = "navigate" => nav.pc \notin Ended
  /\ flow.stage = "returned" => nav.pc \notin Working
  /\ nav.pc \in {"none", "evidence", "rejected"} => nav.goal = "unsent"
  /\ nav.pc \in {"watching", "watched"} => nav.goal = "accepted"
  /\ nav.pc = "refused" => nav.goal = "rejected"

\* the map read for a preview is no older than what the observation wrote
MapIsCurrent ==
  /\ flow.mode = Observe /\ (flow.stage \in {"query", "preview", "navigate"} \/ nav.pc # "none") =>
       flow.observed > 0
  /\ flow.observed <= mapFile.version
  /\ child.pc \in {"clock", "cost", "plan", "done"} => child.map >= flow.observed
  /\ flow.stage \in {"start", "health", "observe", "query"} => child.pc = "off"

\* what the preflight saw stays what it was
SentOnEvidence ==
  nav.goal # "unsent" =>
    /\ nav.health = "healthy"
    /\ child.pc = "done" /\ child.lethal /\ ~ Intersects
    /\ child.path = flow.approved.path /\ child.map = flow.approved.map

\* a result speaks as the child ended, whatever becomes of the goal
ResultTells ==
  /\ flow.stage = "returned" <=> flow.result.state # "none"
  /\ flow.stage = "returned" =>
       /\ flow.result.reached => flow.result.motion
       /\ flow.result.motion <=> nav.pc = "watched"
       /\ nav.pc = "raised" => flow.result.state = "failed" /\ Done = All - 1
       /\ nav.pc \in {"unanswered", "unavailable"} => flow.result.state = "aborted" /\ Done = All

\* the safety topic is volatile, so what was heard of it was said during the collection
HeardLive == node.topic \in {Unheard} \cup (Start..now)

Types == HealthTypeOK /\ PreviewTypeOK /\ flow \in Flows /\ nav \in Navs

FlowInv ==
  /\ Types
  /\ StepsInOrder
  /\ ChildInStage
  /\ MapIsCurrent
  /\ SentOnEvidence
  /\ ResultTells
  /\ HeardLive

-----------------------------------------------------------------------------
(***************************************************************************)
(* The evidence orders                                                     *)
(***************************************************************************)
LEMMA JoinOrder ==
  ASSUME NEW s \in Seq(StepNames), NEW t \in Seq(StepNames)
  PROVE  /\ s \o t \in Seq(StepNames)
         /\ Len(s \o t) = Len(s) + Len(t)
         /\ \A i \in 1..Len(s) : (s \o t)[i] = s[i]
         /\ \A i \in 1..Len(t) : (s \o t)[Len(s) + i] = t[i]
<1>1. /\ s \o t \in Seq(StepNames) /\ Len(s \o t) = Len(s) + Len(t)
      /\ \A i \in 1..(Len(s) + Len(t)) : (s \o t)[i] = IF i <= Len(s) THEN s[i] ELSE t[i - Len(s)]
  BY ConcatProperties
<1>2. Len(s) \in Nat /\ Len(t) \in Nat
  BY LenProperties
<1>3. ASSUME NEW i \in 1..Len(t)  PROVE (s \o t)[Len(s) + i] = t[i]
  <2>1. Len(s) + i \in 1..(Len(s) + Len(t)) /\ ~(Len(s) + i <= Len(s)) /\ (Len(s) + i) - Len(s) = i
    BY <1>2
  <2>2. (s \o t)[Len(s) + i] = t[(Len(s) + i) - Len(s)]
    BY <2>1, <1>1
  <2>3. QED  BY <2>1, <2>2
<1>4. ASSUME NEW i \in 1..Len(s)  PROVE (s \o t)[i] = s[i]
  BY <1>1, <1>2
<1>5. QED  BY <1>1, <1>3, <1>4

LEMMA OrderOfObserve ==
  StageOrder(Observe) =
    << "check_robot_health", "observe_water_risk", "query_semantic_target", "preview_safe_route",
       "navigate_to_approved_pose" >>
<1> DEFINE first == <<"check_robot_health">>
           second == <<"observe_water_risk">>
           rest == << "query_semantic_target", "preview_safe_route", "navigate_to_approved_pose" >>
           all == << "check_robot_health", "observe_water_risk", "query_semantic_target",
                     "preview_safe_route", "navigate_to_approved_pose" >>
<1>1. /\ first \in Seq(StepNames) /\ second \in Seq(StepNames) /\ rest \in Seq(StepNames)
      /\ all \in Seq(StepNames)
  BY DEF StepNames
<1>2. first \o second \in Seq(StepNames) /\ Len(first \o second) = 2
      /\ (first \o second)[1] = first[1] /\ (first \o second)[2] = second[1]
  <2>1. Len(first) = 1 /\ Len(second) = 1
    OBVIOUS
  <2> HIDE DEF first, second
  <2>2. QED  BY <2>1, <1>1, JoinOrder
<1>3. LET whole == (first \o second) \o rest
      IN  /\ whole \in Seq(StepNames) /\ Len(whole) = 5
          /\ whole[1] = first[1] /\ whole[2] = second[1]
          /\ whole[3] = rest[1] /\ whole[4] = rest[2] /\ whole[5] = rest[3]
  <2>1. Len(rest) = 3
    OBVIOUS
  <2> DEFINE two == first \o second
             whole == two \o rest
  <2> HIDE DEF first, second, rest, two
  <2>2. /\ two \in Seq(StepNames) /\ Len(two) = 2 /\ two[1] = first[1] /\ two[2] = second[1]
    BY <1>2 DEF two
  <2>2a. /\ whole \in Seq(StepNames) /\ Len(whole) = Len(two) + Len(rest)
         /\ \A i \in 1..Len(two) : whole[i] = two[i]
         /\ \A i \in 1..Len(rest) : whole[Len(two) + i] = rest[i]
    BY <2>2, <1>1, JoinOrder
  <2>3. /\ whole \in Seq(StepNames) /\ Len(whole) = 2 + 3
        /\ \A i \in 1..2 : whole[i] = two[i]
        /\ \A i \in 1..3 : whole[2 + i] = rest[i]
    BY <2>2a, <2>1, <2>2
  <2>4. whole[1] = two[1] /\ whole[2] = two[2]
    BY <2>3
  <2>5. whole[2 + 1] = rest[1] /\ whole[2 + 2] = rest[2] /\ whole[2 + 3] = rest[3]
    <3> HIDE DEF whole
    <3>1. 1 \in 1..3 /\ 2 \in 1..3 /\ 3 \in 1..3
      OBVIOUS
    <3>2. QED  BY <2>3, <3>1, Zenon
  <2> HIDE DEF whole
  <2>6. /\ whole \in Seq(StepNames) /\ Len(whole) = 5
        /\ whole[1] = first[1] /\ whole[2] = second[1]
        /\ whole[3] = rest[1] /\ whole[4] = rest[2] /\ whole[5] = rest[3]
    BY <2>2, <2>3, <2>4, <2>5
  <2>7. QED  BY <2>6 DEF whole, two
<1>4. (first \o second) \o rest = all
  <2>1. /\ Len(all) = 5
        /\ all[1] = first[1] /\ all[2] = second[1]
        /\ all[3] = rest[1] /\ all[4] = rest[2] /\ all[5] = rest[3]
    OBVIOUS
  <2> HIDE DEF first, second, rest, all
  <2>2. ASSUME NEW i \in 1..5  PROVE ((first \o second) \o rest)[i] = all[i]
    <3>1. i = 1 \/ i = 2 \/ i = 3 \/ i = 4 \/ i = 5
      OBVIOUS
    <3>2. QED  BY <3>1, <2>1, <1>3, Zenon
  <2>3. QED  BY <2>1, <2>2, <1>1, <1>3, SeqEqual
<1>5. StageOrder(Observe) = (first \o second) \o rest
  BY DEF StageOrder
<1>6. QED  BY <1>4, <1>5

LEMMA OrderOfReturn ==
  StageOrder(ReturnHome) =
    << "check_robot_health", "query_semantic_target", "preview_safe_route",
       "navigate_to_approved_pose" >>
<1> DEFINE first == <<"check_robot_health">>
           rest == << "query_semantic_target", "preview_safe_route", "navigate_to_approved_pose" >>
           all == << "check_robot_health", "query_semantic_target", "preview_safe_route",
                     "navigate_to_approved_pose" >>
<1>1. /\ first \in Seq(StepNames) /\ rest \in Seq(StepNames) /\ all \in Seq(StepNames)
      /\ <<>> \in Seq(StepNames)
  BY DEF StepNames
<1>2. first \o <<>> = first
  BY <1>1, ConcatEmptySeq
<1>3. /\ first \o rest \in Seq(StepNames) /\ Len(first \o rest) = 4
      /\ (first \o rest)[1] = first[1] /\ (first \o rest)[2] = rest[1]
      /\ (first \o rest)[3] = rest[2] /\ (first \o rest)[4] = rest[3]
  <2>1. Len(first) = 1 /\ Len(rest) = 3
    OBVIOUS
  <2> DEFINE whole == first \o rest
  <2> HIDE DEF first, rest
  <2>2a. /\ whole \in Seq(StepNames) /\ Len(whole) = Len(first) + Len(rest)
         /\ \A i \in 1..Len(first) : whole[i] = first[i]
         /\ \A i \in 1..Len(rest) : whole[Len(first) + i] = rest[i]
    BY <1>1, JoinOrder
  <2>3. /\ whole \in Seq(StepNames) /\ Len(whole) = 1 + 3
        /\ \A i \in 1..1 : whole[i] = first[i]
        /\ \A i \in 1..3 : whole[1 + i] = rest[i]
    BY <2>2a, <2>1
  <2> HIDE DEF whole
  <2>4. whole[1] = first[1]
    BY <2>3
  <2>5. whole[1 + 1] = rest[1] /\ whole[1 + 2] = rest[2] /\ whole[1 + 3] = rest[3]
    <3>1. 1 \in 1..3 /\ 2 \in 1..3 /\ 3 \in 1..3
      OBVIOUS
    <3>2. QED  BY <2>3, <3>1, Zenon
  <2>6. /\ whole \in Seq(StepNames) /\ Len(whole) = 4
        /\ whole[1] = first[1]
        /\ whole[2] = rest[1] /\ whole[3] = rest[2] /\ whole[4] = rest[3]
    BY <2>3, <2>4, <2>5
  <2>7. QED  BY <2>6 DEF whole
<1>4. first \o rest = all
  <2>1. /\ Len(all) = 4
        /\ all[1] = first[1] /\ all[2] = rest[1] /\ all[3] = rest[2] /\ all[4] = rest[3]
    OBVIOUS
  <2> HIDE DEF first, rest, all
  <2>2. \A i \in 1..4 : (first \o rest)[i] = all[i]
    BY <2>1, <1>3
  <2>3. QED  BY <2>1, <2>2, <1>1, <1>3, SeqEqual
<1>5. StageOrder(ReturnHome) = (first \o <<>>) \o rest
  BY DEF StageOrder, Observe, ReturnHome
<1>6. QED  BY <1>2, <1>4, <1>5

\* what the stages need to know of the order they follow
LEMMA Orders ==
  ASSUME NEW mode \in {Observe, ReturnHome}
  PROVE  /\ StageOrder(mode) \in Seq(StepNames)
         /\ Len(StageOrder(mode)) = IF mode = Observe THEN 5 ELSE 4
         /\ StageOrder(mode)[1] = "check_robot_health"
         /\ mode = Observe => StageOrder(mode)[2] = "observe_water_risk"
         /\ StageOrder(mode)[Len(StageOrder(mode)) - 2] = "query_semantic_target"
         /\ StageOrder(mode)[Len(StageOrder(mode)) - 1] = "preview_safe_route"
         /\ StageOrder(mode)[Len(StageOrder(mode))] = "navigate_to_approved_pose"
<1>1. CASE mode = Observe
  BY <1>1, OrderOfObserve DEF StepNames
<1>2. CASE mode = ReturnHome
  <2>1. ReturnHome # Observe
    BY DEF Observe, ReturnHome
  <2>2. QED  BY <1>2, <2>1, OrderOfReturn DEF StepNames
<1>3. QED  BY <1>1, <1>2

LEMMA NextOfOrder ==
  ASSUME NEW s \in Seq(StepNames), NEW n \in 0..(Len(s) - 1)
  PROVE  /\ Append(SubSeq(s, 1, n), s[n + 1]) = SubSeq(s, 1, n + 1)
         /\ Append(SubSeq(s, 1, n), s[n + 1]) \in Seq(StepNames)
         /\ Len(SubSeq(s, 1, n + 1)) = n + 1
<1>1. Len(s) \in Nat /\ 1 \in 1..Len(s) /\ n + 1 \in 1..Len(s)
  BY LenProperties
<1>2. \A i \in 1..Len(s) : s[i] \in StepNames
  BY LenProperties
<1>3. SubSeq(s, 1, n) \in Seq(StepNames)
  <2>1. \A i \in 1..n : s[i] \in StepNames
    BY <1>1, <1>2
  <2>2. QED  BY <2>1, SubSeqProperties
<1>4. SubSeq(s, 1, n + 1) = SubSeq(s, 1, n) \o <<s[n + 1]>>
  <2>1. SubSeq(s, 1, n + 1) = SubSeq(s, 1, (n + 1) - 1) \o <<s[n + 1]>>
    BY <1>1, SubSeqRecursiveSecond
  <2>2. QED  BY <2>1
<1>5. Len(SubSeq(s, 1, n + 1)) = n + 1
  <2>1. \A i \in 1..(n + 1) : s[i] \in StepNames
    BY <1>1, <1>2
  <2>2. QED  BY <2>1, SubSeqProperties
<1>6. s[n + 1] \in StepNames
  BY <1>1, <1>2
<1>7. QED  BY <1>3, <1>4, <1>5, <1>6, AppendIsConcat, AppendProperties

-----------------------------------------------------------------------------
(***************************************************************************)
(* The health collection and the preview keep their types, whoever runs    *)
(* them                                                                    *)
(***************************************************************************)
Moments == Start..Deadline

Nodes ==
  [pc : {"off", "spinning"}, nav2 : {"idle", "asked", "broken", "active", "inactive"},
   topic : Stamp, diagnostic : Stamp, transform : Stamp, sensors : [Sensor -> Stamp]]

LEMMA HealthTypeIs ==
  HealthTypeOK <=> now \in Moments /\ safe \in Histories /\ node \in Nodes
  BY DEF HealthTypeOK, Moments, Nodes

LEMMA DeafIsNode == Deaf \in Nodes
<1>1. Unheard \in Stamp
  BY HealthAssumption DEF Unheard, Stamp, Deadline
<1>2. QED  BY <1>1 DEF Deaf, Nodes

LEMMA UnseenIsHistory == Unseen \in Histories
<1>1. 0 \in 0..(Deadline + 1)
  BY HealthAssumption DEF Deadline
<1>2. Unseen = [t \in 0..Deadline |-> t < 0]
  <2>1. \A t \in 0..Deadline : (t < 0) = FALSE
    BY HealthAssumption DEF Deadline
  <2>2. QED  BY <2>1, Zenon DEF Unseen
<1>3. QED  BY <1>1, <1>2 DEF Histories

LEMMA CollectingKeepsNode ==
  ASSUME HealthTypeOK, HeardLive,
         \/ OnSafety \/ OnDiagnostics \/ StartNav2Request
         \/ UpdateNav2Result \/ UpdateTransform \/ SensorCallback
  PROVE  node' \in Nodes /\ node'.topic \in {Unheard} \cup (Start..now)
<1>1. now \in Nat /\ now <= Deadline /\ Start \in Nat /\ Deadline \in Nat /\ Start <= now
  BY HealthAssumption DEF HealthTypeOK, Deadline
<1>2. node \in Nodes /\ node.topic \in {Unheard} \cup (Start..now)
  BY HealthTypeIs DEF HeardLive
<1>3. \A t \in 0..(now + 1) : t \in Stamp
  BY <1>1 DEF Stamp, Unheard
<1>4. CASE OnSafety
  <2>1. PICK t \in Start..now : node' = [node EXCEPT !.topic = t]
    BY <1>4 DEF OnSafety
  <2>2. t \in Stamp
    BY <1>1, <1>3
  <2>3. QED  BY <2>1, <2>2, <1>2 DEF Nodes
<1>5. CASE OnDiagnostics
  <2>1. PICK t \in 0..now : node' = [node EXCEPT !.diagnostic = t]
    BY <1>5 DEF OnDiagnostics
  <2>2. t \in Stamp
    BY <1>1, <1>3
  <2>3. QED  BY <2>1, <2>2, <1>2 DEF Nodes
<1>6. CASE StartNav2Request
  BY <1>6, <1>2 DEF StartNav2Request, Nodes
<1>7. CASE UpdateNav2Result
  BY <1>7, <1>2 DEF UpdateNav2Result, Nodes
<1>8. CASE UpdateTransform
  <2>1. PICK t \in 0..(now + 1) : node' = [node EXCEPT !.transform = t]
    BY <1>8 DEF UpdateTransform
  <2>2. t \in Stamp
    BY <1>1, <1>3
  <2>3. QED  BY <2>1, <2>2, <1>2 DEF Nodes
<1>9. CASE SensorCallback
  <2>1. PICK x \in Sensor, t \in 0..(now + 1) : node' = [node EXCEPT !.sensors[x] = t]
    BY <1>9 DEF SensorCallback
  <2>2. t \in Stamp
    BY <1>1, <1>3
  <2>3. [node.sensors EXCEPT ![x] = t] \in [Sensor -> Stamp]
    BY <2>2, <1>2 DEF Nodes
  <2>4. node' = [node EXCEPT !.sensors = [node.sensors EXCEPT ![x] = t]]
    BY <2>1
  <2>5. QED  BY <2>3, <2>4, <1>2 DEF Nodes
<1>10. QED  BY <1>4, <1>5, <1>6, <1>7, <1>8, <1>9

LEMMA HealthStep ==
  ASSUME HealthTypeOK, HeardLive, Collect \/ StartCollecting \/ HealthEnds \/ UNCHANGED healthVars
  PROVE  HealthTypeOK' /\ HeardLive'
<1>1. now \in Nat /\ now <= Deadline /\ Start \in Nat /\ Deadline \in Nat /\ Start <= now
      /\ Deadline' = Deadline /\ Start <= Deadline
  BY HealthAssumption DEF HealthTypeOK, Deadline
<1>2. SUFFICES /\ now' \in Moments /\ safe' \in Histories /\ node' \in Nodes
               /\ node'.topic \in {Unheard} \cup (Start..now')
  BY DEF HealthTypeOK, HeardLive, Moments, Nodes, Histories, Stamp, Deadline
<1>3. now \in Moments /\ safe \in Histories /\ node \in Nodes
      /\ node.topic \in {Unheard} \cup (Start..now)
  BY HealthTypeIs DEF HeardLive
<1>4. CASE Tick
  BY <1>4, <1>1, <1>3 DEF Tick, Moments
<1>5. CASE /\ UNCHANGED <<now, safe>>
           /\ \/ OnSafety \/ OnDiagnostics \/ StartNav2Request
              \/ UpdateNav2Result \/ UpdateTransform \/ SensorCallback
  BY <1>5, <1>3, CollectingKeepsNode
<1>6. CASE StartCollecting
  <2>1. node' = [Deaf EXCEPT !.pc = "spinning"] /\ safe' \in Histories /\ now' = now
    BY <1>6 DEF StartCollecting
  <2>2. node' \in Nodes
    BY <2>1, DeafIsNode DEF Nodes
  <2>3. node'.topic = Unheard
    BY <2>1 DEF Deaf
  <2>4. QED  BY <2>1, <2>2, <2>3, <1>3
<1>7. CASE HealthEnds
  <2>1. node' = Deaf /\ now' = Start /\ safe' = Unseen
    BY <1>7 DEF HealthEnds
  <2>2. Deaf.topic = Unheard /\ Start \in Moments
    BY <1>1 DEF Deaf, Moments
  <2>3. QED  BY <2>1, <2>2, DeafIsNode, UnseenIsHistory
<1>8. CASE UNCHANGED healthVars
  BY <1>8, <1>3 DEF healthVars
<1>9. QED  BY <1>4, <1>5, <1>6, <1>7, <1>8 DEF Collect

MapFiles ==
  [state : {"ok", "foreign_frame", "missing", "corrupt", "no_record", "bad_record"},
   version : 1..MaxMapVersion]

Children ==
  [pc : {"off", "read", "clock", "cost", "plan", "done"}, attempt : 0..PreviewAttempts,
   map : 0..MaxMapVersion, lethal : BOOLEAN, path : Path \cup {NoPath}]

LEMMA PreviewTypeIs ==
  PreviewTypeOK <=> mapFile \in MapFiles /\ costmap \in 1..MaxMapVersion /\ child \in Children
  BY DEF PreviewTypeOK, MapFiles, Children

LEMMA IdleIsChild == Idle \in Children
  BY PreviewAssumption DEF Idle, Children

\* the steps of a preview, whatever follows the read
PreviewTakesStep ==
  \/ StartPreview \/ ReadMap("clock") \/ ReadMap("cost") \/ ClockIsThere \/ ColdClock
  \/ QueryGlobalCost
  \/ \E p \in Path : RequestPath(p)

\* with the map as old as least: a preview that has read it still knows no older one
LEMMA PreviewStep ==
  ASSUME PreviewTypeOK, PreviewTakesStep,
         NEW least \in Nat, least <= mapFile.version,
         child.pc \in {"clock", "cost", "plan", "done"} => child.map >= least
  PROVE  /\ child' \in Children
         /\ child'.pc \in {"clock", "cost", "plan", "done"} => child'.map >= least
         /\ child.pc # "done"
<1>1. mapFile \in MapFiles /\ child \in Children
  BY PreviewTypeIs
<1>2. CASE StartPreview
  <2>1. child' = [Idle EXCEPT !.pc = "read", !.attempt = 1] /\ child.pc = "off"
    BY <1>2 DEF StartPreview
  <2>2. 1 \in 0..PreviewAttempts
    BY PreviewAssumption
  <2>3. QED  BY <2>1, <2>2, IdleIsChild DEF Children
<1>3. CASE ReadMap("clock") \/ ReadMap("cost")
  <2>1. PICK next \in {"clock", "cost"} :
          child.pc = "read" /\ QueryState = "found"
          /\ child' = [child EXCEPT !.pc = next, !.map = SourceHash]
    BY <1>3 DEF ReadMap
  <2>2. SourceHash = mapFile.version
    BY <2>1 DEF QueryState, SourceHash, ReadDocument
  <2>3. mapFile.version \in 0..MaxMapVersion
    BY <1>1, PreviewAssumption DEF MapFiles
  <2>4. QED  BY <2>1, <2>2, <2>3, <1>1 DEF Children
<1>4. CASE ClockIsThere
  BY <1>4, <1>1 DEF ClockIsThere, Children
<1>5. CASE ColdClock
  <2>1. /\ child' = [Idle EXCEPT !.pc = "read", !.attempt = child.attempt + 1]
        /\ child.pc = "clock" /\ child.attempt < PreviewAttempts
    BY <1>5 DEF ColdClock
  <2>2. child.attempt + 1 \in 0..PreviewAttempts
    BY <2>1, <1>1, PreviewAssumption DEF Children
  <2>3. QED  BY <2>1, <2>2, IdleIsChild DEF Children
<1>6. CASE QueryGlobalCost
  BY <1>6, <1>1 DEF QueryGlobalCost, Children
<1>7. CASE \E p \in Path : RequestPath(p)
  BY <1>7, <1>1 DEF RequestPath, Children
<1>8. QED  BY <1>2, <1>3, <1>4, <1>5, <1>6, <1>7 DEF PreviewTakesStep

-----------------------------------------------------------------------------
(***************************************************************************)
(* What a step does to the call                                            *)
(***************************************************************************)
LEMMA OrderIs ==
  ASSUME flow \in Flows
  PROVE  /\ Order \in Seq(StepNames) /\ All \in {4, 5} /\ Done \in Nat
         /\ flow.mode = Observe <=> All = 5
         /\ Order[1] = "check_robot_health"
         /\ flow.mode = Observe => Order[2] = "observe_water_risk"
         /\ Order[All - 2] = "query_semantic_target"
         /\ Order[All - 1] = "preview_safe_route"
         /\ Order[All] = "navigate_to_approved_pose"
<1>1. flow.mode \in {Observe, ReturnHome} /\ flow.steps \in Seq(StepNames)
  BY DEF Flows
<1>2. Done \in Nat
  BY <1>1, LenProperties DEF Done
<1>3. QED  BY <1>1, <1>2, Orders, SMTT(20) DEF Order, All

\* the next step of the order is taken
OneMore == Done' = Done + 1 /\ flow'.steps = SubSeq(Order, 1, Done + 1)

SameOrder == flow'.mode = flow.mode /\ Order' = Order /\ All' = All

SameEvidence == flow'.observed = flow.observed /\ flow'.approved = flow.approved

LEMMA AppendsNext ==
  ASSUME flow \in Flows, StepsInOrder, Done < All, NEW name, name = Order[Done + 1],
         flow'.steps = Append(flow.steps, name)
  PROVE  flow'.steps \in Seq(StepNames) /\ OneMore
<1>1. Order \in Seq(StepNames) /\ Done \in 0..(Len(Order) - 1)
  BY OrderIs DEF All
<1>2. flow.steps = SubSeq(Order, 1, Done)
  BY DEF StepsInOrder
<1>3. QED  BY <1>1, <1>2, NextOfOrder DEF OneMore, Done

LEMMA StaysInMode ==
  ASSUME flow'.mode = flow.mode
  PROVE  SameOrder
  BY DEF SameOrder, Order, All

LEMMA StepTaken ==
  ASSUME flow \in Flows, StepsInOrder, Done < All, NEW name, name = Order[Done + 1],
         NEW next \in Stages, Step(name, next)
  PROVE  /\ flow' \in Flows /\ SameOrder /\ OneMore /\ SameEvidence
         /\ flow'.stage = next /\ flow'.result = flow.result
<1>1. flow' = [flow EXCEPT !.steps = Append(flow.steps, name), !.stage = next]
  BY DEF Step
<1>2. flow'.steps = Append(flow.steps, name) /\ flow'.mode = flow.mode
  BY <1>1 DEF Flows
<1>3. flow'.steps \in Seq(StepNames) /\ OneMore
  BY <1>2, AppendsNext
<1>4. QED  BY <1>1, <1>2, <1>3, StaysInMode DEF Flows, SameEvidence

LEMMA Stopped ==
  ASSUME flow \in Flows, StepsInOrder, Done < All, NEW name, name = Order[Done + 1],
         NEW reached \in BOOLEAN, NEW motion \in BOOLEAN, Stop(name, reached, motion)
  PROVE  /\ flow' \in Flows /\ SameOrder /\ OneMore /\ SameEvidence
         /\ flow'.stage = "returned"
         /\ flow'.result.state = IF reached THEN "succeeded" ELSE "aborted"
         /\ flow'.result.reached = reached /\ flow'.result.motion = motion
<1> DEFINE result == [state |-> IF reached THEN "succeeded" ELSE "aborted",
                      reached |-> reached, motion |-> motion]
<1>1. flow' = [flow EXCEPT !.steps = Append(flow.steps, name), !.stage = "returned",
                           !.result = result]
  BY DEF Stop
<1>2. flow'.steps = Append(flow.steps, name) /\ flow'.mode = flow.mode
  BY <1>1 DEF Flows
<1>3. flow'.steps \in Seq(StepNames) /\ OneMore
  BY <1>2, AppendsNext
<1>4. result \in Results /\ result.state = (IF reached THEN "succeeded" ELSE "aborted")
      /\ result.reached = reached /\ result.motion = motion
  BY DEF Results
<1> HIDE DEF result
<1>5. QED  BY <1>1, <1>2, <1>3, <1>4, StaysInMode DEF Flows, SameEvidence, Stages

LEMMA Failed ==
  ASSUME flow \in Flows, Fail
  PROVE  /\ flow' \in Flows /\ SameOrder /\ SameEvidence /\ flow'.steps = flow.steps /\ Done' = Done
         /\ flow'.stage = "returned" /\ flow'.result.state = "failed"
         /\ flow'.result.reached = FALSE /\ flow'.result.motion = FALSE
<1> DEFINE result == [Pending EXCEPT !.state = "failed"]
<1>1. flow' = [flow EXCEPT !.stage = "returned", !.result = result]
  BY DEF Fail
<1>2. flow'.steps = flow.steps /\ flow'.mode = flow.mode
  BY <1>1 DEF Flows
<1>3. /\ result \in Results /\ result.state = "failed"
      /\ result.reached = FALSE /\ result.motion = FALSE
  BY DEF Results, Pending
<1> HIDE DEF result
<1>4. Done' = Done
  BY <1>2 DEF Done
<1>5. QED  BY <1>1, <1>2, <1>3, <1>4, StaysInMode DEF Flows, SameEvidence, Stages

-----------------------------------------------------------------------------
(***************************************************************************)
(* The invariant is inductive: one lemma for each action                   *)
(***************************************************************************)
LEMMA PreviewSame ==
  ASSUME PreviewTypeOK, UNCHANGED previewVars
  PROVE  PreviewTypeOK' /\ mapFile' = mapFile /\ child' = child
  BY DEF PreviewTypeOK, previewVars

\* what every action starts from
LEMMA InvGives ==
  ASSUME FlowInv
  PROVE  /\ HealthTypeOK /\ HeardLive /\ PreviewTypeOK /\ flow \in Flows /\ nav \in Navs
         /\ StepsInOrder /\ ChildInStage /\ MapIsCurrent /\ SentOnEvidence /\ ResultTells
         /\ All \in {4, 5} /\ Done \in 0..All
         /\ mapFile \in MapFiles /\ child \in Children
         /\ flow.observed \in Nat /\ mapFile.version \in Nat
<1>1. HealthTypeOK /\ HeardLive /\ PreviewTypeOK /\ flow \in Flows /\ nav \in Navs
      /\ StepsInOrder /\ ChildInStage /\ MapIsCurrent /\ SentOnEvidence /\ ResultTells
  BY DEF FlowInv, Types
<1>2. All \in {4, 5} /\ Done \in 0..All
  BY <1>1, OrderIs DEF StepsInOrder
<1>3. mapFile \in MapFiles /\ child \in Children
  BY <1>1, PreviewTypeIs
<1>4. flow.observed \in Nat /\ mapFile.version \in Nat
  BY <1>1, <1>3, PreviewAssumption DEF Flows, MapFiles
<1>5. QED  BY <1>1, <1>2, <1>3, <1>4

LEMMA InvokeHealthStep == ASSUME FlowInv, InvokeHealth PROVE FlowInv'
<1>0. /\ At("start") /\ StartCollecting /\ flow' = [flow EXCEPT !.stage = "health"]
      /\ nav' = nav /\ UNCHANGED previewVars
  BY DEF InvokeHealth
<1>1. HealthTypeOK' /\ HeardLive'
  BY <1>0, InvGives, HealthStep
<1>2. PreviewTypeOK' /\ mapFile' = mapFile /\ child' = child
  BY <1>0, InvGives, PreviewSame
<1>3. /\ flow \in Flows /\ flow.stage = "start"
      /\ flow' \in Flows /\ flow'.mode = flow.mode /\ SameEvidence /\ flow'.steps = flow.steps
      /\ flow'.stage = "health" /\ flow'.result = flow.result
  BY <1>0, InvGives DEF Flows, Stages, SameEvidence, At
<1>4. SameOrder /\ Done' = Done
  BY <1>3, StaysInMode DEF Done
<1>5. StepsInOrder'
  BY <1>0, <1>3, <1>4, InvGives DEF StepsInOrder, SameOrder
<1>6. ChildInStage' /\ MapIsCurrent' /\ ResultTells'
  BY <1>0, <1>2, <1>3, <1>4, InvGives DEF ChildInStage, MapIsCurrent, ResultTells, SameEvidence
<1>7. SentOnEvidence'
  BY <1>0, <1>2, <1>3, InvGives DEF SentOnEvidence, SameEvidence, Intersects
<1>8. QED  BY <1>0, <1>1, <1>2, <1>3, <1>5, <1>6, <1>7, InvGives DEF FlowInv, Types

LEMMA HealthPassesStep == ASSUME FlowInv, HealthPasses PROVE FlowInv'
<1> DEFINE next == IF flow.mode = Observe THEN "observe" ELSE "query"
<1>0. /\ At("health") /\ HealthEnds /\ Step("check_robot_health", next)
      /\ nav' = nav /\ UNCHANGED previewVars
  BY DEF HealthPasses, Evaluate
<1>1. HealthTypeOK' /\ HeardLive'
  BY <1>0, InvGives, HealthStep
<1>2. PreviewTypeOK' /\ mapFile' = mapFile /\ child' = child
  BY <1>0, InvGives, PreviewSame
<1>3. Done = 0 /\ flow.stage = "health" /\ flow \in Flows /\ (flow.mode = Observe <=> All = 5)
  BY <1>0, InvGives, OrderIs DEF StepsInOrder, At
<1>4. /\ flow' \in Flows /\ SameOrder /\ OneMore /\ SameEvidence
      /\ flow'.stage = next /\ flow'.result = flow.result
  <2>1. next \in Stages
    BY DEF Stages
  <2>2. Done < All /\ "check_robot_health" = Order[Done + 1] /\ StepsInOrder
    BY <1>3, InvGives, OrderIs
  <2> HIDE DEF next
  <2>3. QED  BY <1>0, <1>3, <2>1, <2>2, StepTaken
<1>5. StepsInOrder'
  BY <1>0, <1>3, <1>4, InvGives DEF StepsInOrder, SameOrder, OneMore, ChildInStage
<1>6. ChildInStage' /\ MapIsCurrent' /\ ResultTells'
  BY <1>0, <1>2, <1>3, <1>4, InvGives DEF ChildInStage, MapIsCurrent, ResultTells, SameEvidence, SameOrder
<1>7. SentOnEvidence'
  BY <1>0, <1>2, <1>4, InvGives DEF SentOnEvidence, SameEvidence, Intersects
<1>8. QED  BY <1>0, <1>1, <1>2, <1>4, <1>5, <1>6, <1>7, InvGives DEF FlowInv, Types

LEMMA HealthBlocksStep == ASSUME FlowInv, HealthBlocks PROVE FlowInv'
<1>0. /\ At("health") /\ HealthEnds /\ Stop("check_robot_health", FALSE, FALSE)
      /\ nav' = nav /\ UNCHANGED previewVars
  BY DEF HealthBlocks, Evaluate
<1>1. HealthTypeOK' /\ HeardLive'
  BY <1>0, InvGives, HealthStep
<1>2. PreviewTypeOK' /\ mapFile' = mapFile /\ child' = child
  BY <1>0, InvGives, PreviewSame
<1>3. Done = 0 /\ flow.stage = "health" /\ flow \in Flows /\ nav.pc = "none" /\ nav.goal = "unsent"
  BY <1>0, InvGives DEF StepsInOrder, At, ChildInStage
<1>4. /\ flow' \in Flows /\ SameOrder /\ OneMore /\ SameEvidence /\ flow'.stage = "returned"
      /\ flow'.result.state \in {"succeeded", "aborted"}
      /\ flow'.result.reached = FALSE /\ flow'.result.motion = FALSE
  <2>1. Done < All /\ "check_robot_health" = Order[Done + 1] /\ StepsInOrder
    BY <1>3, InvGives, OrderIs
  <2>2. QED  BY <1>0, <1>3, <2>1, Stopped
<1>5. StepsInOrder'
  BY <1>0, <1>3, <1>4, InvGives DEF StepsInOrder, SameOrder, OneMore
<1>6. ChildInStage' /\ MapIsCurrent' /\ ResultTells'
  BY <1>0, <1>2, <1>3, <1>4, InvGives DEF ChildInStage, MapIsCurrent, ResultTells, SameEvidence,
         Working, Ended
<1>7. SentOnEvidence'
  BY <1>0, <1>3 DEF SentOnEvidence
<1>8. QED  BY <1>0, <1>1, <1>2, <1>4, <1>5, <1>6, <1>7, InvGives DEF FlowInv, Types

LEMMA ObservationUpdatesStep == ASSUME FlowInv, ObservationUpdates PROVE FlowInv'
<1>0. /\ At("observe") /\ mapFile.version < MaxMapVersion
      /\ mapFile' = [state |-> "ok", version |-> mapFile.version + 1]
      /\ flow' = [flow EXCEPT !.steps = Append(flow.steps, "observe_water_risk"),
                              !.stage = "query", !.observed = mapFile.version + 1]
      /\ nav' = nav /\ UNCHANGED healthVars /\ UNCHANGED costmap /\ child' = child
  BY DEF ObservationUpdates
<1>1. HealthTypeOK' /\ HeardLive'
  BY <1>0, InvGives, HealthStep
<1>2. mapFile' \in MapFiles /\ mapFile'.version = mapFile.version + 1
  BY <1>0, InvGives, PreviewAssumption DEF MapFiles
<1>3. PreviewTypeOK'
  BY <1>0, <1>2, InvGives DEF PreviewTypeOK, MapFiles
<1>4. /\ Done = 1 /\ flow.stage = "observe" /\ flow \in Flows /\ nav.pc = "none"
      /\ nav.goal = "unsent" /\ flow.mode = Observe /\ All = 5 /\ child.pc = "off"
  BY <1>0, InvGives, OrderIs DEF StepsInOrder, At, ChildInStage, MapIsCurrent
<1>5. /\ flow'.mode = flow.mode /\ flow'.stage = "query" /\ flow'.result = flow.result
      /\ flow'.observed = mapFile.version + 1 /\ flow'.approved = flow.approved
      /\ flow'.steps = Append(flow.steps, "observe_water_risk")
  BY <1>0, <1>4 DEF Flows
<1>6. flow'.steps \in Seq(StepNames) /\ OneMore /\ SameOrder
  <2>1. Done < All /\ "observe_water_risk" = Order[Done + 1] /\ StepsInOrder
    BY <1>4, InvGives, OrderIs
  <2>2. QED  BY <1>4, <1>5, <2>1, AppendsNext, StaysInMode
<1>7. flow' \in Flows
  <2>1. mapFile.version + 1 \in 0..MaxMapVersion
    BY <1>0, InvGives, PreviewAssumption DEF MapFiles
  <2>2. QED  BY <1>0, <1>4, <1>5, <1>6, <2>1 DEF Flows, Stages
<1>8. StepsInOrder'
  BY <1>0, <1>4, <1>5, <1>6, InvGives DEF StepsInOrder, SameOrder, OneMore
<1>9. ChildInStage' /\ MapIsCurrent' /\ ResultTells'
  BY <1>0, <1>2, <1>4, <1>5, InvGives DEF ChildInStage, MapIsCurrent, ResultTells
<1>10. SentOnEvidence'
  BY <1>0, <1>4 DEF SentOnEvidence
<1>11. QED  BY <1>0, <1>1, <1>3, <1>7, <1>8, <1>9, <1>10, InvGives DEF FlowInv, Types

LEMMA QueryStep == ASSUME FlowInv, Query PROVE FlowInv'
<1>0. /\ At("query") /\ nav' = nav /\ UNCHANGED healthVars /\ UNCHANGED previewVars
      /\ \/ Step("query_semantic_target", "preview")
         \/ Stop("query_semantic_target", FALSE, FALSE)
  BY DEF Query
<1>1. HealthTypeOK' /\ HeardLive'
  BY <1>0, InvGives, HealthStep
<1>2. PreviewTypeOK' /\ mapFile' = mapFile /\ child' = child
  BY <1>0, InvGives, PreviewSame
<1>3. /\ Done = All - 3 /\ flow.stage = "query" /\ flow \in Flows /\ nav.pc = "none"
      /\ nav.goal = "unsent"
  BY <1>0, InvGives DEF StepsInOrder, At, ChildInStage
<1>4. Done < All /\ "query_semantic_target" = Order[Done + 1] /\ StepsInOrder
  <2>1. Done + 1 = All - 2
    BY <1>3, InvGives
  <2>2. QED  BY <1>3, <2>1, InvGives, OrderIs
<1>5. /\ flow' \in Flows /\ SameOrder /\ OneMore /\ SameEvidence
      /\ \/ flow'.stage = "preview" /\ flow'.result = flow.result
         \/ /\ flow'.stage = "returned" /\ flow'.result.state \in {"succeeded", "aborted"}
            /\ flow'.result.reached = FALSE /\ flow'.result.motion = FALSE
  <2>1. CASE Step("query_semantic_target", "preview")
    <3>1. "preview" \in Stages
      BY DEF Stages
    <3>2. QED  BY <1>3, <1>4, <2>1, <3>1, StepTaken
  <2>2. CASE Stop("query_semantic_target", FALSE, FALSE)
    BY <1>3, <1>4, <2>2, Stopped
  <2>3. QED  BY <1>0, <2>1, <2>2
<1>6. StepsInOrder'
  <2>1. Done' = All - 2 /\ Done' \in 0..All
    BY <1>3, <1>5, InvGives DEF OneMore
  <2>2. QED  BY <1>0, <1>3, <1>5, <2>1, InvGives DEF StepsInOrder, SameOrder, OneMore
<1>7. ChildInStage' /\ MapIsCurrent' /\ ResultTells'
  BY <1>0, <1>2, <1>3, <1>5, InvGives
     DEF ChildInStage, MapIsCurrent, ResultTells, SameEvidence, SameOrder, Working, Ended
<1>8. SentOnEvidence'
  BY <1>0, <1>3 DEF SentOnEvidence
<1>9. QED  BY <1>0, <1>1, <1>2, <1>5, <1>6, <1>7, <1>8, InvGives DEF FlowInv, Types

\* a step of the preview alone, whichever process takes it
LEMMA ChildMoves ==
  ASSUME FlowInv, PreviewTakesStep, UNCHANGED healthVars, mapFile' = mapFile, costmap' = costmap
  PROVE  /\ HealthTypeOK' /\ HeardLive' /\ PreviewTypeOK'
         /\ child'.pc \in {"clock", "cost", "plan", "done"} => child'.map >= flow.observed
         /\ child.pc # "done"
<1>1. HealthTypeOK' /\ HeardLive'
  BY InvGives, HealthStep
<1>2. /\ PreviewTypeOK /\ flow.observed \in Nat /\ flow.observed <= mapFile.version
      /\ child.pc \in {"clock", "cost", "plan", "done"} => child.map >= flow.observed
  BY InvGives DEF MapIsCurrent
<1>3. /\ child' \in Children /\ child.pc # "done"
      /\ child'.pc \in {"clock", "cost", "plan", "done"} => child'.map >= flow.observed
  BY <1>2, PreviewStep
<1>4. mapFile \in MapFiles /\ costmap \in 1..MaxMapVersion
  BY <1>2, PreviewTypeIs
<1>5. PreviewTypeOK'
  BY <1>3, <1>4 DEF PreviewTypeOK, MapFiles, Children
<1>6. QED  BY <1>1, <1>3, <1>5

LEMMA InvokePreviewStep == ASSUME FlowInv, InvokePreview PROVE FlowInv'
<1>0. /\ flow.stage = "preview" /\ StartPreview /\ flow' = flow /\ nav' = nav
      /\ UNCHANGED healthVars /\ mapFile' = mapFile /\ costmap' = costmap
  BY DEF InvokePreview, At
<1>1. /\ HealthTypeOK' /\ HeardLive' /\ PreviewTypeOK'
      /\ child'.pc \in {"clock", "cost", "plan", "done"} => child'.map >= flow.observed
  BY <1>0, ChildMoves DEF PreviewTakesStep
<1>2. nav.pc = "none" /\ nav.goal = "unsent"
  BY <1>0, InvGives DEF ChildInStage
<1>3. StepsInOrder' /\ ChildInStage' /\ ResultTells'
  BY <1>0, InvGives DEF StepsInOrder, ChildInStage, ResultTells, Order, Done, All
<1>4. MapIsCurrent'
  BY <1>0, <1>1, InvGives DEF MapIsCurrent
<1>5. SentOnEvidence'
  BY <1>0, <1>2 DEF SentOnEvidence
<1>6. QED  BY <1>0, <1>1, <1>3, <1>4, <1>5, InvGives DEF FlowInv, Types, Flows, Navs

LEMMA CollectPreviewStep == ASSUME FlowInv, CollectPreview PROVE FlowInv'
<1>0. /\ flow' = flow /\ nav' = nav
      /\ UNCHANGED healthVars /\ mapFile' = mapFile /\ costmap' = costmap
  BY DEF CollectPreview
<1>1. PreviewTakesStep /\ child.pc # "off"
  BY DEF CollectPreview, PreviewTakesStep, ReadMap, ClockIsThere, ColdClock, QueryGlobalCost,
         RequestPath
<1>2. /\ HealthTypeOK' /\ HeardLive' /\ PreviewTypeOK' /\ child.pc # "done"
      /\ child'.pc \in {"clock", "cost", "plan", "done"} => child'.map >= flow.observed
  BY <1>0, <1>1, ChildMoves
<1>3. flow.stage \notin {"start", "health", "observe", "query"} /\ nav.goal = "unsent"
  BY <1>1, <1>2, InvGives DEF MapIsCurrent, SentOnEvidence
<1>4. StepsInOrder' /\ ChildInStage' /\ ResultTells'
  BY <1>0, InvGives DEF StepsInOrder, ChildInStage, ResultTells, Order, Done, All
<1>5. MapIsCurrent'
  BY <1>0, <1>2, <1>3, InvGives DEF MapIsCurrent
<1>6. SentOnEvidence'
  BY <1>0, <1>3 DEF SentOnEvidence
<1>7. QED  BY <1>0, <1>2, <1>4, <1>5, <1>6, InvGives DEF FlowInv, Types, Flows, Navs

\* the preview's process is gone and nothing else of the machines moved
LEMMA ChildEnds ==
  ASSUME FlowInv, child' = Idle, mapFile' = mapFile, costmap' = costmap
  PROVE  PreviewTypeOK' /\ child'.pc = "off"
<1>1. child' \in Children /\ mapFile \in MapFiles /\ costmap \in 1..MaxMapVersion
  BY IdleIsChild, InvGives, PreviewTypeIs
<1>2. QED  BY <1>1 DEF PreviewTypeOK, MapFiles, Children, Idle

LEMMA PreviewPassesStep == ASSUME FlowInv, PreviewPasses PROVE FlowInv'
<1> DEFINE hashes == [path |-> child.path, map |-> child.map]
<1>0. /\ flow.stage = "preview" /\ SafeToExecute /\ child' = Idle /\ nav' = nav
      /\ flow' = [flow EXCEPT !.steps = Append(flow.steps, "preview_safe_route"),
                              !.stage = "navigate", !.approved = hashes]
      /\ UNCHANGED healthVars /\ mapFile' = mapFile /\ costmap' = costmap
  BY DEF PreviewPasses, At
<1>1. HealthTypeOK' /\ HeardLive' /\ PreviewTypeOK' /\ child'.pc = "off"
  BY <1>0, InvGives, HealthStep, ChildEnds
<1>2. /\ Done = All - 2 /\ flow \in Flows /\ nav.pc = "none" /\ nav.goal = "unsent"
  BY <1>0, InvGives DEF StepsInOrder, ChildInStage
<1>3. hashes \in [path : Path \cup {NoPath}, map : 0..MaxMapVersion]
  BY InvGives DEF Children
<1> HIDE DEF hashes
<1>4. /\ flow'.mode = flow.mode /\ flow'.stage = "navigate" /\ flow'.result = flow.result
      /\ flow'.observed = flow.observed /\ flow'.approved = hashes
      /\ flow'.steps = Append(flow.steps, "preview_safe_route")
  BY <1>0, <1>2 DEF Flows
<1>5. flow'.steps \in Seq(StepNames) /\ OneMore /\ SameOrder
  <2>1. Done + 1 = All - 1
    BY <1>2, InvGives
  <2>2. Done < All /\ "preview_safe_route" = Order[Done + 1] /\ StepsInOrder
    BY <1>2, <2>1, InvGives, OrderIs
  <2>3. QED  BY <1>2, <1>4, <2>2, AppendsNext, StaysInMode
<1>6. flow' \in Flows
  BY <1>0, <1>2, <1>3, <1>5 DEF Flows, Stages
<1>7. StepsInOrder'
  <2>1. Done' = All - 1 /\ Done' \in 0..All
    BY <1>2, <1>5, InvGives DEF OneMore
  <2>2. QED  BY <1>0, <1>2, <1>4, <1>5, <2>1, InvGives DEF StepsInOrder, SameOrder, OneMore
<1>8. ChildInStage' /\ MapIsCurrent' /\ ResultTells'
  BY <1>0, <1>1, <1>2, <1>4, InvGives DEF ChildInStage, MapIsCurrent, ResultTells, Working, Ended
<1>9. SentOnEvidence'
  BY <1>0, <1>2 DEF SentOnEvidence
<1>10. QED  BY <1>0, <1>1, <1>6, <1>7, <1>8, <1>9, InvGives DEF FlowInv, Types

LEMMA PreviewBlocksStep == ASSUME FlowInv, PreviewBlocks PROVE FlowInv'
<1>0. /\ flow.stage = "preview" /\ Stop("preview_safe_route", FALSE, FALSE) /\ child' = Idle
      /\ nav' = nav /\ UNCHANGED healthVars /\ mapFile' = mapFile /\ costmap' = costmap
  BY DEF PreviewBlocks, At
<1>1. HealthTypeOK' /\ HeardLive' /\ PreviewTypeOK' /\ child'.pc = "off"
  BY <1>0, InvGives, HealthStep, ChildEnds
<1>2. /\ Done = All - 2 /\ flow \in Flows /\ nav.pc = "none" /\ nav.goal = "unsent"
  BY <1>0, InvGives DEF StepsInOrder, ChildInStage
<1>3. /\ flow' \in Flows /\ SameOrder /\ OneMore /\ SameEvidence
      /\ flow'.stage = "returned" /\ flow'.result.state \in {"succeeded", "aborted"}
      /\ flow'.result.reached = FALSE /\ flow'.result.motion = FALSE
  <2>1. Done + 1 = All - 1
    BY <1>2, InvGives
  <2>2. Done < All /\ "preview_safe_route" = Order[Done + 1] /\ StepsInOrder
    BY <1>2, <2>1, InvGives, OrderIs
  <2>3. QED  BY <1>0, <1>2, <2>2, Stopped
<1>4. StepsInOrder'
  <2>1. Done' = All - 1 /\ Done' \in 0..All
    BY <1>2, <1>3, InvGives DEF OneMore
  <2>2. QED  BY <1>0, <1>2, <1>3, <2>1, InvGives DEF StepsInOrder, SameOrder, OneMore
<1>5. ChildInStage' /\ MapIsCurrent' /\ ResultTells'
  BY <1>0, <1>1, <1>2, <1>3, InvGives DEF ChildInStage, MapIsCurrent, ResultTells, SameEvidence,
         Working, Ended
<1>6. SentOnEvidence'
  BY <1>0, <1>2 DEF SentOnEvidence
<1>7. QED  BY <1>0, <1>1, <1>3, <1>4, <1>5, <1>6, InvGives DEF FlowInv, Types

LEMMA StageRaisesStep == ASSUME FlowInv, StageRaises PROVE FlowInv'
<1>0. /\ flow.stage \in {"health", "observe", "query", "preview"} /\ Fail /\ child' = Idle
      /\ HealthEnds \/ UNCHANGED healthVars
      /\ nav' = nav /\ mapFile' = mapFile /\ costmap' = costmap
  BY DEF StageRaises, At, CollectionDies
<1>1. HealthTypeOK' /\ HeardLive' /\ PreviewTypeOK' /\ child'.pc = "off"
  BY <1>0, InvGives, HealthStep, ChildEnds
<1>2. flow \in Flows /\ nav.pc = "none" /\ nav.goal = "unsent"
  BY <1>0, InvGives DEF ChildInStage
<1>3. /\ flow' \in Flows /\ SameOrder /\ SameEvidence /\ flow'.steps = flow.steps /\ Done' = Done
      /\ flow'.stage = "returned" /\ flow'.result.state = "failed"
      /\ flow'.result.reached = FALSE /\ flow'.result.motion = FALSE
  BY <1>0, <1>2, Failed
<1>4. StepsInOrder'
  BY <1>0, <1>2, <1>3, InvGives DEF StepsInOrder, SameOrder
<1>5. ChildInStage' /\ MapIsCurrent' /\ ResultTells'
  BY <1>0, <1>1, <1>2, <1>3, InvGives DEF ChildInStage, MapIsCurrent, ResultTells, SameEvidence,
         Working, Ended
<1>6. SentOnEvidence'
  BY <1>0, <1>2 DEF SentOnEvidence
<1>7. QED  BY <1>0, <1>1, <1>3, <1>4, <1>5, <1>6, InvGives DEF FlowInv, Types

LEMMA InvokeNavigationStep == ASSUME FlowInv, InvokeNavigation PROVE FlowInv'
<1>0. /\ flow.stage = "navigate" /\ nav.pc = "none" /\ StartPreview /\ flow' = flow
      /\ \E v \in {"healthy", "degraded", "unsafe"} :
           nav' = [nav EXCEPT !.pc = "evidence", !.health = v]
      /\ UNCHANGED healthVars /\ mapFile' = mapFile /\ costmap' = costmap
  BY DEF InvokeNavigation, At
<1>1. /\ HealthTypeOK' /\ HeardLive' /\ PreviewTypeOK'
      /\ child'.pc \in {"clock", "cost", "plan", "done"} => child'.map >= flow.observed
  BY <1>0, ChildMoves DEF PreviewTakesStep
<1>2. nav.goal = "unsent" /\ Done = All - 1
  BY <1>0, InvGives DEF ChildInStage, StepsInOrder
<1>3. nav' \in Navs /\ nav'.pc = "evidence" /\ nav'.goal = "unsent"
  BY <1>0, <1>2, InvGives DEF Navs, Working, Ended
<1>4. StepsInOrder' /\ ChildInStage' /\ ResultTells'
  BY <1>0, <1>2, <1>3, InvGives DEF StepsInOrder, ChildInStage, ResultTells, Order, Done, All,
         Working, Ended
<1>5. MapIsCurrent'
  BY <1>0, <1>1, <1>3, InvGives DEF MapIsCurrent
<1>6. SentOnEvidence'
  BY <1>3 DEF SentOnEvidence
<1>7. QED  BY <1>0, <1>1, <1>3, <1>4, <1>5, <1>6, InvGives DEF FlowInv, Types, Flows

LEMMA SendGoalStep == ASSUME FlowInv, SendGoal PROVE FlowInv'
<1>0. /\ nav.pc = "evidence" /\ PreflightAllows /\ flow' = flow
      /\ nav' = [nav EXCEPT !.pc = "goal", !.goal = "sent"]
      /\ UNCHANGED healthVars /\ UNCHANGED previewVars
  BY DEF SendGoal
<1>1. HealthTypeOK' /\ HeardLive' /\ PreviewTypeOK' /\ mapFile' = mapFile /\ child' = child
  BY <1>0, InvGives, HealthStep, PreviewSame
<1>2. /\ nav' \in Navs /\ nav'.pc = "goal" /\ nav'.goal = "sent" /\ nav'.health = nav.health
      /\ flow.stage = "navigate"
  BY <1>0, InvGives DEF Navs, ChildInStage, Flows, Stages, Working, Ended
<1>3. StepsInOrder' /\ ChildInStage' /\ ResultTells' /\ MapIsCurrent'
  BY <1>0, <1>1, <1>2, InvGives
     DEF StepsInOrder, ChildInStage, ResultTells, MapIsCurrent, Order, Done, All, Working, Ended
<1>4. SentOnEvidence'
  BY <1>0, <1>1, <1>2 DEF SentOnEvidence, PreflightAllows, SafeToExecute, Intersects
<1>5. QED  BY <1>0, <1>1, <1>2, <1>3, <1>4, InvGives DEF FlowInv, Types, Flows

LEMMA Nav2AnswersStep == ASSUME FlowInv, Nav2Answers PROVE FlowInv'
<1>0. /\ nav.goal = "sent" /\ flow' = flow
      /\ \E a \in {"accepted", "rejected"} : nav' = [nav EXCEPT !.goal = a]
      /\ UNCHANGED healthVars /\ UNCHANGED previewVars
  BY DEF Nav2Answers
<1>1. HealthTypeOK' /\ HeardLive' /\ PreviewTypeOK' /\ mapFile' = mapFile /\ child' = child
  BY <1>0, InvGives, HealthStep, PreviewSame
<1>2. /\ nav' \in Navs /\ nav'.pc = nav.pc /\ nav'.health = nav.health
      /\ nav'.goal \in {"accepted", "rejected"}
  BY <1>0, InvGives DEF Navs
<1>3. StepsInOrder' /\ ChildInStage' /\ MapIsCurrent'
  BY <1>0, <1>1, <1>2, InvGives DEF StepsInOrder, ChildInStage, MapIsCurrent, Order, Done, All
<1>4. ResultTells'
  <2>1. flow.result.motion \in BOOLEAN
    BY InvGives DEF Flows, Results
  <2>2. QED  BY <1>0, <1>2, <2>1, InvGives DEF ResultTells, Order, Done, All
<1>5. SentOnEvidence'
  BY <1>0, <1>1, <1>2, InvGives DEF SentOnEvidence, Intersects
<1>6. QED  BY <1>0, <1>1, <1>2, <1>3, <1>4, <1>5, InvGives DEF FlowInv, Types, Flows

LEMMA AnswerArrivesStep == ASSUME FlowInv, AnswerArrives PROVE FlowInv'
<1>0. /\ nav.pc = "goal" /\ nav.goal = "accepted" /\ flow' = flow
      /\ nav' = [nav EXCEPT !.pc = "watching"]
      /\ UNCHANGED healthVars /\ UNCHANGED previewVars
  BY DEF AnswerArrives
<1>1. HealthTypeOK' /\ HeardLive' /\ PreviewTypeOK' /\ mapFile' = mapFile /\ child' = child
  BY <1>0, InvGives, HealthStep, PreviewSame
<1>2. /\ nav' \in Navs /\ nav'.pc = "watching" /\ nav'.goal = nav.goal /\ nav'.health = nav.health
      /\ flow.stage = "navigate"
  BY <1>0, InvGives DEF Navs, ChildInStage, Flows, Stages, Working, Ended
<1>3. StepsInOrder' /\ ChildInStage' /\ ResultTells' /\ MapIsCurrent'
  BY <1>0, <1>1, <1>2, InvGives
     DEF StepsInOrder, ChildInStage, ResultTells, MapIsCurrent, Order, Done, All, Working, Ended
<1>4. SentOnEvidence'
  BY <1>0, <1>1, <1>2, InvGives DEF SentOnEvidence, Intersects
<1>5. QED  BY <1>0, <1>1, <1>2, <1>3, <1>4, InvGives DEF FlowInv, Types, Flows

\* the child ends with a result; what it says of the motion is its caller's business
LEMMA NavigationStopsStep ==
  ASSUME FlowInv, nav.pc \in Working, NEW how \in Ended \ {"raised"},
         NEW reached \in BOOLEAN, NEW motion \in BOOLEAN, NavigationStops(how, reached, motion),
         motion <=> how = "watched", reached => motion,
         how = "watched" => nav.pc = "watching",
         how = "rejected" => nav.pc = "evidence",
         how = "refused" => nav.goal = "rejected"
  PROVE  FlowInv'
<1>0. /\ Stop("navigate_to_approved_pose", reached, motion)
      /\ nav' = [nav EXCEPT !.pc = how]
      /\ UNCHANGED healthVars /\ UNCHANGED previewVars
  BY DEF NavigationStops, NavigationEnds
<1>1. HealthTypeOK' /\ HeardLive' /\ PreviewTypeOK' /\ mapFile' = mapFile /\ child' = child
  BY <1>0, InvGives, HealthStep, PreviewSame
<1>2. /\ nav' \in Navs /\ nav'.pc = how /\ nav'.goal = nav.goal /\ nav'.health = nav.health
      /\ flow.stage = "navigate" /\ Done = All - 1 /\ flow \in Flows
  BY <1>0, InvGives DEF Navs, ChildInStage, StepsInOrder, Flows, Stages, Working, Ended
<1>3. /\ flow' \in Flows /\ SameOrder /\ OneMore /\ SameEvidence
      /\ flow'.stage = "returned"
      /\ flow'.result.state = IF reached THEN "succeeded" ELSE "aborted"
      /\ flow'.result.reached = reached /\ flow'.result.motion = motion
  <2>1. Done + 1 = All
    BY <1>2, InvGives
  <2>2. Done < All /\ "navigate_to_approved_pose" = Order[Done + 1] /\ StepsInOrder
    BY <1>2, <2>1, InvGives, OrderIs
  <2>3. QED  BY <1>0, <1>2, <2>2, Stopped
<1>4. StepsInOrder'
  <2>1. Done' = All /\ Done' \in 0..All
    BY <1>2, <1>3, InvGives DEF OneMore
  <2>2. QED  BY <1>2, <1>3, <2>1, InvGives DEF StepsInOrder, SameOrder, OneMore
<1>5. ChildInStage' /\ MapIsCurrent'
  BY <1>1, <1>2, <1>3, InvGives
     DEF ChildInStage, MapIsCurrent, SameEvidence, SameOrder, Working, Ended
<1>6. ResultTells'
  <2>1. Done' = All /\ All' = All
    BY <1>2, <1>3, InvGives DEF OneMore, SameOrder
  <2>2. QED  BY <1>2, <1>3, <2>1 DEF ResultTells
<1>7. SentOnEvidence'
  BY <1>1, <1>2, <1>3, InvGives DEF SentOnEvidence, SameEvidence, Intersects
<1>8. QED  BY <1>1, <1>2, <1>3, <1>4, <1>5, <1>6, <1>7 DEF FlowInv, Types

LEMMA NavigationEndsStep ==
  ASSUME FlowInv, RosFails \/ RejectGoal \/ GoalNotAccepted \/ NavigationReturns
  PROVE  FlowInv'
<1>1. CASE RosFails
  BY <1>1, NavigationStopsStep DEF RosFails, Ended
<1>2. CASE RejectGoal
  BY <1>2, NavigationStopsStep DEF RejectGoal, Working, Ended
<1>3. CASE GoalNotAccepted
  BY <1>3, NavigationStopsStep DEF GoalNotAccepted, Working, Ended
<1>4. CASE NavigationReturns
  <2>1. PICK reached \in BOOLEAN : NavigationStops("watched", reached, TRUE)
    BY <1>4 DEF NavigationReturns
  <2>2. nav.pc = "watching"
    BY <1>4 DEF NavigationReturns
  <2>3. QED  BY <2>1, <2>2, NavigationStopsStep DEF Working, Ended
<1>5. QED  BY <1>1, <1>2, <1>3, <1>4

LEMMA NavigationRaisesStep == ASSUME FlowInv, NavigationRaises PROVE FlowInv'
<1>0. /\ nav.pc \in Working /\ Fail /\ nav' = [nav EXCEPT !.pc = "raised"]
      /\ UNCHANGED healthVars /\ UNCHANGED previewVars
  BY DEF NavigationRaises, NavigationEnds
<1>1. HealthTypeOK' /\ HeardLive' /\ PreviewTypeOK' /\ mapFile' = mapFile /\ child' = child
  BY <1>0, InvGives, HealthStep, PreviewSame
<1>2. /\ nav' \in Navs /\ nav'.pc = "raised" /\ nav'.goal = nav.goal /\ nav'.health = nav.health
      /\ flow.stage = "navigate" /\ Done = All - 1 /\ flow \in Flows
  BY <1>0, InvGives DEF Navs, ChildInStage, StepsInOrder, Flows, Stages, Working, Ended
<1>3. /\ flow' \in Flows /\ SameOrder /\ SameEvidence /\ flow'.steps = flow.steps /\ Done' = Done
      /\ flow'.stage = "returned" /\ flow'.result.state = "failed"
      /\ flow'.result.reached = FALSE /\ flow'.result.motion = FALSE
  BY <1>0, <1>2, Failed
<1>4. StepsInOrder'
  BY <1>2, <1>3, InvGives DEF StepsInOrder, SameOrder
<1>5. ChildInStage' /\ MapIsCurrent'
  BY <1>1, <1>2, <1>3, InvGives DEF ChildInStage, MapIsCurrent, SameEvidence, SameOrder,
                               Working, Ended
<1>6. ResultTells'
  BY <1>2, <1>3 DEF ResultTells, SameOrder
<1>7. SentOnEvidence'
  BY <1>1, <1>2, <1>3, InvGives DEF SentOnEvidence, SameEvidence, Intersects
<1>8. QED  BY <1>1, <1>2, <1>3, <1>4, <1>5, <1>6, <1>7 DEF FlowInv, Types

LEMMA CollectHealthStep == ASSUME FlowInv, CollectHealth PROVE FlowInv'
<1>0. Collect /\ flow' = flow /\ nav' = nav /\ UNCHANGED previewVars
  BY DEF CollectHealth
<1>1. HealthTypeOK' /\ HeardLive' /\ PreviewTypeOK' /\ mapFile' = mapFile /\ child' = child
  BY <1>0, InvGives, HealthStep, PreviewSame
<1>2. StepsInOrder' /\ ChildInStage' /\ ResultTells' /\ MapIsCurrent' /\ SentOnEvidence'
  BY <1>0, <1>1, InvGives
     DEF StepsInOrder, ChildInStage, ResultTells, MapIsCurrent, SentOnEvidence, Intersects,
         Order, Done, All
<1>3. QED  BY <1>0, <1>1, <1>2, InvGives DEF FlowInv, Types, Flows, Navs

LEMMA EnvironmentStep == ASSUME FlowInv, Environment PROVE FlowInv'
<1>0. /\ nav.goal = "unsent" /\ flow' = flow /\ nav' = nav /\ UNCHANGED healthVars
      /\ MapIsRewritten \/ CostmapFollows
  BY DEF Environment
<1>1. HealthTypeOK' /\ HeardLive'
  BY <1>0, InvGives, HealthStep
<1>2. /\ child' = child /\ mapFile' \in MapFiles /\ mapFile'.version >= mapFile.version
      /\ costmap' \in 1..MaxMapVersion
  <2>1. mapFile \in MapFiles /\ costmap \in 1..MaxMapVersion
    BY InvGives, PreviewTypeIs
  <2>2. CASE MapIsRewritten
    <3>1. PICK s \in {"ok", "foreign_frame", "missing", "corrupt", "no_record", "bad_record"} :
            mapFile' = [state |-> s, version |-> mapFile.version + 1]
      BY <2>2 DEF MapIsRewritten
    <3>2. mapFile.version < MaxMapVersion /\ costmap' = costmap /\ child' = child
      BY <2>2 DEF MapIsRewritten
    <3>3. mapFile.version + 1 \in 1..MaxMapVersion
      BY <2>1, <3>2, PreviewAssumption DEF MapFiles
    <3>4. QED  BY <2>1, <3>1, <3>2, <3>3 DEF MapFiles
  <2>3. CASE CostmapFollows
    BY <2>1, <2>3 DEF CostmapFollows, MapFiles
  <2>4. QED  BY <1>0, <2>2, <2>3
<1>3. PreviewTypeOK'
  <2>1. child \in Children
    BY InvGives
  <2>2. QED  BY <1>2, <2>1 DEF PreviewTypeOK, MapFiles, Children
<1>4. StepsInOrder' /\ ChildInStage' /\ ResultTells' /\ SentOnEvidence'
  BY <1>0, InvGives DEF StepsInOrder, ChildInStage, ResultTells, SentOnEvidence, Order, Done, All
<1>5. MapIsCurrent'
  <2>1. mapFile'.version \in Nat
    BY <1>2, PreviewAssumption DEF MapFiles
  <2>2. QED  BY <1>0, <1>2, <2>1, InvGives DEF MapIsCurrent
<1>6. QED  BY <1>0, <1>1, <1>3, <1>4, <1>5, InvGives DEF FlowInv, Types, Flows, Navs

LEMMA FlowStart == ASSUME FlowInit PROVE FlowInv
<1>1. HealthTypeOK /\ HeardLive
  <2>1. now = Start /\ safe = Unseen /\ node = Deaf
    BY DEF FlowInit, HealthInit
  <2>2. Start \in Moments
    BY HealthAssumption DEF Moments, Deadline
  <2>3. QED  BY <2>1, <2>2, DeafIsNode, UnseenIsHistory, HealthTypeIs DEF HeardLive, Deaf
<1>2. PreviewTypeOK /\ child.pc = "off" /\ mapFile.version = 1
  <2>1. mapFile \in [state : {"ok", "missing"}, version : {1}] /\ costmap = 1 /\ child = Idle
    BY DEF FlowInit, PreviewInit
  <2>2. mapFile \in MapFiles /\ costmap \in 1..MaxMapVersion /\ mapFile.version = 1
    BY <2>1, PreviewAssumption DEF MapFiles
  <2>3. QED  BY <2>1, <2>2, IdleIsChild, PreviewTypeIs DEF Idle
<1>3. nav \in Navs /\ nav.pc = "none" /\ nav.goal = "unsent"
  BY DEF FlowInit, Unstarted, Navs
<1>4. /\ flow.mode \in {Observe, ReturnHome} /\ flow.stage = "start" /\ flow.steps = <<>>
      /\ flow.observed = 0 /\ flow.result.state = "none" /\ flow \in Flows
  <2>1. Pending \in Results /\ Pending.state = "none"
    BY DEF Pending, Results
  <2>2. NoApproval \in [path : Path \cup {NoPath}, map : 0..MaxMapVersion]
    BY PreviewAssumption DEF NoApproval
  <2>3. <<>> \in Seq(StepNames) /\ 0 \in 0..MaxMapVersion
    BY PreviewAssumption
  <2>4. PICK mode \in {Observe, ReturnHome} :
          flow = [mode |-> mode, stage |-> "start", steps |-> <<>>, observed |-> 0,
                  approved |-> NoApproval, result |-> Pending]
    BY DEF FlowInit
  <2>5. QED  BY <2>1, <2>2, <2>3, <2>4 DEF Flows, Stages
<1>5. StepsInOrder
  <2>1. Done = 0 /\ All \in {4, 5}
    BY <1>4, OrderIs DEF Done
  <2>2. SubSeq(Order, 1, 0) = <<>>
    BY SubSeqEmpty
  <2>3. QED  BY <1>3, <1>4, <2>1, <2>2 DEF StepsInOrder
<1>6. ChildInStage /\ MapIsCurrent /\ SentOnEvidence /\ ResultTells
  BY <1>2, <1>3, <1>4 DEF ChildInStage, MapIsCurrent, SentOnEvidence, ResultTells
<1>7. QED  BY <1>1, <1>2, <1>3, <1>4, <1>5, <1>6 DEF FlowInv, Types

LEMMA FlowStep ==
  ASSUME FlowInv, [FlowNext]_workflowVars
  PROVE  FlowInv'
<1>1. CASE Invoke
  BY <1>1, InvokeHealthStep, HealthPassesStep, HealthBlocksStep, ObservationUpdatesStep, QueryStep,
     InvokePreviewStep, PreviewPassesStep, PreviewBlocksStep, StageRaisesStep DEF Invoke
<1>2. CASE Navigate
  BY <1>2, InvokeNavigationStep, SendGoalStep, Nav2AnswersStep, AnswerArrivesStep,
     NavigationEndsStep, NavigationRaisesStep DEF Navigate
<1>3. CASE UNCHANGED workflowVars
  <2>1. flow' = flow /\ nav' = nav /\ UNCHANGED healthVars /\ UNCHANGED previewVars
    BY <1>3 DEF workflowVars
  <2>2. HealthTypeOK' /\ HeardLive' /\ PreviewTypeOK' /\ mapFile' = mapFile /\ child' = child
    BY <2>1, InvGives, HealthStep, PreviewSame
  <2>3. StepsInOrder' /\ ChildInStage' /\ ResultTells' /\ MapIsCurrent' /\ SentOnEvidence'
    BY <2>1, <2>2, InvGives
       DEF StepsInOrder, ChildInStage, ResultTells, MapIsCurrent, SentOnEvidence, Intersects,
           Order, Done, All
  <2>4. QED  BY <2>1, <2>2, <2>3, InvGives DEF FlowInv, Types, Flows, Navs
<1>4. QED
  BY <1>1, <1>2, <1>3, CollectHealthStep, CollectPreviewStep, EnvironmentStep DEF FlowNext

-----------------------------------------------------------------------------
(***************************************************************************)
(* The inductive invariant of a composite call: where it is among its      *)
(* stages, what its child knows and what its result says agree (invoke and *)
(* _collect_result).                                                       *)
(***************************************************************************)
THEOREM FlowInvariant == FlowSpec => []FlowInv
<1>1. FlowInit => FlowInv
  BY FlowStart
<1>2. FlowInv /\ [FlowNext]_workflowVars => FlowInv'
  BY FlowStep
<1>3. QED  BY <1>1, <1>2, PTL DEF FlowSpec

(***************************************************************************)
(* Every record of the workflow, of the health node and of the preview     *)
(* keeps its type, and a call reports the steps of its mode in their       *)
(* order, without a gap.                                                   *)
(***************************************************************************)
THEOREM FlowTypes == FlowSpec => []FlowTypeOK
<1>1. FlowInv => FlowTypeOK
  <2> SUFFICES ASSUME FlowInv PROVE FlowTypeOK
    OBVIOUS
  <2>1. Done \in 0..5 /\ flow.steps = SubSeq(StageOrder(flow.mode), 1, Done)
    BY InvGives DEF StepsInOrder, Order
  <2>2. flow.stage = "returned" <=> flow.result.state # "none"
    BY InvGives DEF ResultTells
  <2>3. QED  BY <2>1, <2>2, InvGives DEF FlowTypeOK, Flows, Results, Navs
<1>2. QED  BY <1>1, FlowInvariant, PTL

(***************************************************************************)
(* A goal is sent only on evidence that agrees, for any number of map      *)
(* versions, any paths and any verdict of their geometry (invoke and       *)
(* evaluate_preflight).                                                    *)
(***************************************************************************)
THEOREM MotionAlwaysGrounded == FlowSpec => []MotionIsGrounded
<1>1. FlowInv => MotionIsGrounded
  <2> SUFFICES ASSUME FlowInv, nav.goal # "unsent"
               PROVE  /\ nav.health = "healthy"
                      /\ \E n \in {Len(StageOrder(flow.mode)) - 1, Len(StageOrder(flow.mode))} :
                           flow.steps = SubSeq(StageOrder(flow.mode), 1, n)
                      /\ child.map = flow.approved.map
                      /\ child.path = flow.approved.path
                      /\ <<child.path, child.map>> \in Clear
                      /\ child.lethal
                      /\ flow.mode = Observe => flow.observed > 0 /\ child.map >= flow.observed
    BY DEF MotionIsGrounded
  <2>1. nav.pc # "none"
    BY InvGives DEF ChildInStage
  <2>2. Done \in {All - 1, All} /\ flow.steps = SubSeq(Order, 1, Done)
    BY <2>1, InvGives DEF StepsInOrder
  <2>3. /\ nav.health = "healthy" /\ child.map = flow.approved.map
        /\ child.path = flow.approved.path /\ <<child.path, child.map>> \in Clear
        /\ child.lethal /\ child.pc = "done"
    BY InvGives DEF SentOnEvidence, Intersects
  <2>4. flow.mode = Observe => flow.observed > 0 /\ child.map >= flow.observed
    BY <2>1, <2>3, InvGives DEF MapIsCurrent
  <2>5. QED  BY <2>2, <2>3, <2>4 DEF All, Order
<1>2. QED  BY <1>1, FlowInvariant, PTL

(***************************************************************************)
(* A result that claims a motion speaks of an accepted goal, and one that  *)
(* denies a motion which may yet happen shows how navigation ended, even   *)
(* when Nav2 accepts the goal after the call (invoke, execute_goal).       *)
(***************************************************************************)
THEOREM ResultAlwaysAdmitsMotion == FlowSpec => []ResultAdmitsMotion
<1>1. FlowInv => ResultAdmitsMotion
  <2> SUFFICES ASSUME FlowInv PROVE ResultAdmitsMotion
    OBVIOUS
  <2>1. ResultTells
    BY InvGives
  <2>2. /\ nav.pc \in {"none"} \cup Working \cup Ended
        /\ flow.stage = "returned" => nav.pc \notin Working
        /\ nav.pc \in {"none", "evidence", "rejected"} => nav.goal = "unsent"
        /\ nav.pc \in {"watching", "watched"} => nav.goal = "accepted"
        /\ nav.pc = "refused" => nav.goal = "rejected"
    BY InvGives DEF Navs, ChildInStage
  <2>3. ASSUME flow.stage = "returned", MayMove, ~flow.result.motion
        PROVE  nav.pc \in {"raised", "unanswered", "unavailable"}
    BY <2>1, <2>2, <2>3 DEF ResultTells, MayMove, Ended
  <2>4. QED  BY <2>1, <2>2, <2>3 DEF ResultAdmitsMotion, ResultTells, At, Order, All, Done
<1>2. QED  BY <1>1, FlowInvariant, PTL

(***************************************************************************)
(* A verdict "healthy" was true of the robot within the collection by the  *)
(* topic and within max_diagnostic_age_sec by the diagnostic, for any time *)
(* limits and any sensors (evaluate_health_snapshot).                      *)
(***************************************************************************)
THEOREM HealthyAlwaysRecent == FlowSpec => HealthyIsRecent
<1> DEFINE Recent == /\ \E t \in (now - CollectionTimeout)..now : safe[t]
                     /\ \E t \in (now - MaxDiagnosticAge)..now : safe[t]
<1>1. ASSUME FlowInv, Evaluate("healthy")  PROVE Recent
  <2>1. PICK silent \in SUBSET Sensor : HealthState(silent) = "healthy"
    BY <1>1 DEF Evaluate
  <2>2. SemanticSafetyCheck
    BY <2>1 DEF HealthState
  <2>3. /\ now \in Nat /\ now <= Start + CollectionTimeout /\ Start \in Nat
        /\ CollectionTimeout \in Nat /\ MaxDiagnosticAge \in Nat
    BY <1>1, InvGives, HealthAssumption DEF HealthTypeOK, Deadline
  <2>4. node.topic \in Start..now /\ safe[node.topic]
    BY <1>1, <2>2, InvGives DEF SemanticSafetyCheck, HeardLive
  <2>5. node.topic \in (now - CollectionTimeout)..now
    BY <2>3, <2>4
  <2>6. node.diagnostic \in Int /\ safe[node.diagnostic]
    BY <1>1, <2>2, InvGives, HealthAssumption
       DEF SemanticSafetyCheck, HealthTypeOK, Stamp, Unheard, Deadline
  <2>7. node.diagnostic \in (now - MaxDiagnosticAge)..now
    BY <2>2, <2>3, <2>6 DEF SemanticSafetyCheck, StampFails
  <2>8. QED  BY <2>4, <2>5, <2>6, <2>7
<1>2. FlowInv => [Evaluate("healthy") => Recent]_node
  BY <1>1
<1>3. QED  BY <1>2, FlowInvariant, PTL DEF HealthyIsRecent
=============================================================================
