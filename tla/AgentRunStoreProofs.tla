------------------------ MODULE AgentRunStoreProofs ------------------------
(***************************************************************************)
(* The run store keeps legal, complete histories and final decisions for   *)
(* any runs, traces and plans, whichever processes write it.  The          *)
(* inductive invariant adds to the properties of AgentRunStore where the   *)
(* plan of a run stands relative to its state.                             *)
(***************************************************************************)
EXTENDS AgentRunStore, TLAPS

\* a plan is stored exactly from VALIDATING on, and the late states were entered in order
PlanBehind(r) ==
  /\ runs[r].plan # NoPlan <=> Entered(r, "VALIDATING")
  /\ runs[r].state \in {"IDLE", "RETRIEVING", "PLANNING"} => runs[r].plan = NoPlan
  /\ Entered(r, "EXECUTING") => runs[r].plan # NoPlan
  /\ runs[r].state \in {"EXECUTING", "VERIFYING", "SUCCEEDED"} => Entered(r, "EXECUTING")
  /\ runs[r].state \in {"VERIFYING", "SUCCEEDED"} => Entered(r, "VERIFYING")

RunInv(r) == HistoryOf(r) /\ PlanBehind(r)

RunsInv ==
  /\ RunsTypeOK
  /\ \A r \in RunId : RunInv(r)

RunEvent == [from : AgentStates \cup {"NONE"}, to : AgentStates]

-----------------------------------------------------------------------------
LEMMA StatesApart ==
  /\ "ABSENT" \notin AgentStates
  /\ TerminalStates \subseteq AgentStates /\ ActiveStates \subseteq AgentStates
  /\ {"IDLE", "VALIDATING", "EXECUTING", "VERIFYING", "SUCCEEDED", "ABORTED"} \subseteq AgentStates
BY DEF AgentStates, TerminalStates, ActiveStates

LEMMA RunsInitially == RunsInit => RunsInv
<1> SUFFICES ASSUME RunsInit PROVE RunsInv
  OBVIOUS
<1>1. RunsTypeOK
  BY DEF RunsInit, RunsTypeOK
<1>2. ASSUME NEW r \in RunId PROVE RunInv(r)
  <2>1. runs[r] = NoRun /\ agentEvents[r] = <<>> /\ Len(agentEvents[r]) = 0
    BY DEF RunsInit
  <2>2. ~ Exists(r) /\ runs[r].plan = NoPlan /\ runs[r].state = "ABSENT"
    BY <2>1 DEF Exists, NoRun
  <2>3. \A i : i \notin 1..0 /\ i \notin 1..(0 - 1)
    OBVIOUS
  <2>4. HistoryOf(r)
    BY <2>1, <2>2, <2>3 DEF HistoryOf
  <2>5. \A state : ~ Entered(r, state)
    BY <2>1, <2>3 DEF Entered
  <2>6. PlanBehind(r)
    BY <2>2, <2>5 DEF PlanBehind
  <2> QED BY <2>4, <2>6 DEF RunInv
<1> QED BY <1>1, <1>2 DEF RunsInv

-----------------------------------------------------------------------------
(***************************************************************************)
(* One event more.                                                         *)
(***************************************************************************)
Recorded(r, event) == agentEvents'[r] = Append(agentEvents[r], event)

LEMMA RecordedTrail ==
  ASSUME RunsTypeOK, NEW r \in RunId, NEW event \in RunEvent, Recorded(r, event)
  PROVE  LET n == Len(agentEvents[r]) IN
         /\ n \in Nat /\ Len(agentEvents'[r]) = n + 1
         /\ agentEvents'[r] # <<>>
         /\ \A i \in 1..n : agentEvents'[r][i] = agentEvents[r][i]
         /\ agentEvents'[r][n + 1] = event
<1>1. agentEvents[r] \in Seq(RunEvent)
  BY DEF RunsTypeOK, RunEvent
<1> QED BY <1>1 DEF Recorded

LEMMA RecordedEnters ==
  ASSUME RunsTypeOK, NEW r \in RunId, NEW event \in RunEvent, Recorded(r, event), NEW state
  PROVE  Entered(r, state)' <=> Entered(r, state) \/ event.to = state
<1> DEFINE n == Len(agentEvents[r])
<1>1. /\ n \in Nat /\ Len(agentEvents'[r]) = n + 1
      /\ \A i \in 1..n : agentEvents'[r][i] = agentEvents[r][i]
      /\ agentEvents'[r][n + 1] = event
  BY RecordedTrail
<1>2. Entered(r, state) <=> \E i \in 1..n : agentEvents[r][i].to = state
  BY DEF Entered
<1>3. Entered(r, state)' <=> \E i \in 1..(n + 1) : agentEvents'[r][i].to = state
  BY <1>1 DEF Entered
<1> HIDE DEF n
<1>4. ASSUME Entered(r, state) PROVE Entered(r, state)'
  <2>1. PICK i \in 1..n : agentEvents[r][i].to = state
    BY <1>2, <1>4
  <2>2. i \in 1..(n + 1) /\ agentEvents'[r][i].to = state
    BY <1>1, <2>1
  <2> QED BY <1>3, <2>2
<1>5. ASSUME event.to = state PROVE Entered(r, state)'
  <2>1. n + 1 \in 1..(n + 1)
    BY <1>1
  <2> QED BY <1>1, <1>3, <1>5, <2>1
<1>6. ASSUME Entered(r, state)' PROVE Entered(r, state) \/ event.to = state
  <2>1. PICK i \in 1..(n + 1) : agentEvents'[r][i].to = state
    BY <1>3, <1>6
  <2>2. CASE i = n + 1
    BY <1>1, <2>1, <2>2
  <2>3. CASE i # n + 1
    <3>1. i \in 1..n
      BY <1>1, <2>3
    <3> QED BY <1>1, <1>2, <2>1, <3>1
  <2> QED BY <2>2, <2>3
<1> QED BY <1>4, <1>5, <1>6

-----------------------------------------------------------------------------
(***************************************************************************)
(* A run moves along an edge, with one event: transition and each of the   *)
(* runs that recovery aborts are of this form.                             *)
(***************************************************************************)
RunMoves(r, target, plan) ==
  /\ Exists(r)
  /\ runs[r].state \notin TerminalStates
  /\ Edge(runs[r].state, target)
  /\ PlanRules(r, target, plan)
  /\ runs'[r] = [runs[r] EXCEPT !.state = target, !.plan = IF plan = NoPlan THEN @ ELSE plan]
  /\ Recorded(r, [from |-> runs[r].state, to |-> target])

LEMMA MovedRow ==
  ASSUME RunsTypeOK, NEW r \in RunId, NEW target \in AgentStates,
         NEW plan \in Plan \cup {NoPlan}, RunMoves(r, target, plan)
  PROVE  /\ runs[r] \in StoredRun /\ runs'[r] \in StoredRun
         /\ runs'[r].state = target /\ runs'[r].trace = runs[r].trace
         /\ plan = NoPlan => runs'[r].plan = runs[r].plan
         /\ plan # NoPlan => runs'[r].plan = plan
         /\ Exists(r)'
         /\ [from |-> runs[r].state, to |-> target] \in RunEvent
<1>1. runs[r] \in StoredRun
  BY DEF RunsTypeOK, RunMoves, Exists, NoRun
<1>2. /\ runs'[r] \in StoredRun
      /\ runs'[r].state = target /\ runs'[r].trace = runs[r].trace
      /\ plan = NoPlan => runs'[r].plan = runs[r].plan
      /\ plan # NoPlan => runs'[r].plan = plan
  BY <1>1 DEF StoredRun, RunMoves
<1>3. Exists(r)'
  BY <1>2, StatesApart DEF Exists
<1>4. [from |-> runs[r].state, to |-> target] \in RunEvent
  BY <1>1 DEF StoredRun, RunEvent
<1> QED BY <1>1, <1>2, <1>3, <1>4

LEMMA MoveKeepsHistory ==
  ASSUME RunsInv, NEW r \in RunId, NEW target \in AgentStates,
         NEW plan \in Plan \cup {NoPlan}, RunMoves(r, target, plan)
  PROVE  HistoryOf(r)'
<1> DEFINE n == Len(agentEvents[r])
           event == [from |-> runs[r].state, to |-> target]
<1>1. RunsTypeOK /\ HistoryOf(r)
  BY DEF RunsInv, RunInv
<1>2. event \in RunEvent /\ runs'[r].state = target /\ Exists(r)'
  BY <1>1, MovedRow
<1>3. /\ n \in Nat /\ Len(agentEvents'[r]) = n + 1
      /\ agentEvents'[r] # <<>>
      /\ \A i \in 1..n : agentEvents'[r][i] = agentEvents[r][i]
      /\ agentEvents'[r][n + 1] = event
  BY <1>1, <1>2, RecordedTrail DEF RunMoves
<1>4. agentEvents[r] # <<>> /\ runs[r].state = agentEvents[r][n].to
  BY <1>1 DEF HistoryOf, RunMoves
<1>5. n \in 1..n
  <2>1. agentEvents[r] \in Seq(RunEvent)
    BY <1>1 DEF RunsTypeOK, RunEvent
  <2>2. n # 0
    BY <1>4, <2>1
  <2> HIDE DEF n
  <2> QED BY <1>3, <2>2
<1>6. /\ agentEvents[r][1] = [from |-> "NONE", to |-> "IDLE"]
      /\ \A i \in 1..(n - 1) : /\ agentEvents[r][i + 1].from = agentEvents[r][i].to
                               /\ agentEvents[r][i].to \notin TerminalStates
                               /\ Edge(agentEvents[r][i].to, agentEvents[r][i + 1].to)
  BY <1>1, <1>4 DEF HistoryOf
<1> HIDE DEF n
<1>7. ASSUME NEW i \in 1..n
      PROVE  /\ agentEvents'[r][i + 1].from = agentEvents'[r][i].to
             /\ agentEvents'[r][i].to \notin TerminalStates
             /\ Edge(agentEvents'[r][i].to, agentEvents'[r][i + 1].to)
  <2>1. CASE i = n
    <3>1. event.from = agentEvents[r][n].to /\ event.to = target
      BY <1>4
    <3> QED BY <2>1, <3>1, <1>3, <1>4, <1>5 DEF RunMoves
  <2>2. CASE i # n
    <3>1. i \in 1..(n - 1) /\ i + 1 \in 1..n
      BY <2>2, <1>3
    <3> QED BY <3>1, <1>3, <1>6
  <2> QED BY <2>1, <2>2
<1>8. Len(agentEvents'[r]) - 1 = n
  BY <1>3
<1>9. agentEvents'[r][1] = [from |-> "NONE", to |-> "IDLE"]
  BY <1>3, <1>5, <1>6
<1>10. runs'[r].state = agentEvents'[r][Len(agentEvents'[r])].to
  BY <1>2, <1>3
<1> QED BY <1>2, <1>3, <1>7, <1>8, <1>9, <1>10 DEF HistoryOf, Edge

LEMMA MoveKeepsPlan ==
  ASSUME RunsInv, NEW r \in RunId, NEW target \in AgentStates,
         NEW plan \in Plan \cup {NoPlan}, RunMoves(r, target, plan)
  PROVE  PlanBehind(r)'
<1> DEFINE event == [from |-> runs[r].state, to |-> target]
<1>1. RunsTypeOK /\ PlanBehind(r)
  BY DEF RunsInv, RunInv
<1>2. /\ event \in RunEvent
      /\ runs'[r].state = target
      /\ plan = NoPlan => runs'[r].plan = runs[r].plan
      /\ plan # NoPlan => runs'[r].plan = plan
  BY <1>1, MovedRow
<1>3. ASSUME NEW state PROVE Entered(r, state)' <=> Entered(r, state) \/ target = state
  BY <1>1, <1>2, RecordedEnters DEF RunMoves
<1>4. Edge(runs[r].state, target) /\ PlanRules(r, target, plan)
  BY DEF RunMoves
<1>5. CASE target = "VALIDATING"
  <2>1. runs'[r].plan # NoPlan
    BY <1>2, <1>4, <1>5 DEF PlanRules
  <2> QED BY <2>1, <1>2, <1>3, <1>5 DEF PlanBehind
<1>6. CASE target # "VALIDATING"
  <2>1. runs'[r].plan = runs[r].plan
    BY <1>2, <1>4, <1>6 DEF PlanRules
  <2>2. target = "EXECUTING" => runs[r].plan # NoPlan
    BY <1>4 DEF PlanRules
  <2>3. target \in {"IDLE", "RETRIEVING", "PLANNING"} =>
          runs[r].state \in {"IDLE", "RETRIEVING", "PLANNING"}
    BY <1>4 DEF Edge, ForwardTransitions
  <2>4. /\ target = "VERIFYING" => runs[r].state = "EXECUTING"
        /\ target = "SUCCEEDED" => runs[r].state = "VERIFYING"
    BY <1>4 DEF Edge, ForwardTransitions
  <2> QED BY <1>1, <1>2, <1>3, <1>6, <2>1, <2>2, <2>3, <2>4 DEF PlanBehind
<1> QED BY <1>5, <1>6

LEMMA RunUnchanged ==
  ASSUME NEW r \in RunId, RunInv(r), runs'[r] = runs[r], agentEvents'[r] = agentEvents[r]
  PROVE  RunInv(r)'
<1>1. HistoryOf(r)'
  BY DEF RunInv, HistoryOf, Exists, Edge
<1>2. \A state : Entered(r, state)' <=> Entered(r, state)
  BY DEF Entered
<1>3. PlanBehind(r)'
  BY <1>2 DEF RunInv, PlanBehind
<1> QED BY <1>1, <1>3 DEF RunInv

-----------------------------------------------------------------------------
(* One lemma for each operation of the store *)

LEMMA CreateKeepsInv ==
  ASSUME RunsInv, NEW r \in RunId, NEW t \in TraceId, CreateRun(r, t)
  PROVE  RunsInv'
<1> DEFINE row == [state |-> "IDLE", trace |-> t, plan |-> NoPlan]
           event == [from |-> "NONE", to |-> "IDLE"]
<1>1. RunsTypeOK /\ RunInv(r)
  BY DEF RunsInv
<1>2. row \in StoredRun /\ event \in RunEvent
  BY StatesApart DEF StoredRun, RunEvent
<1>3. /\ runs' = [runs EXCEPT ![r] = row]
      /\ agentEvents' = [agentEvents EXCEPT ![r] = Append(@, event)]
      /\ ~ Exists(r)
  BY DEF CreateRun, RecordRunEvent
<1>4. runs'[r] = row /\ Recorded(r, event)
  BY <1>1, <1>3 DEF RunsTypeOK, Recorded
<1>5. \A q \in RunId \ {r} : runs'[q] = runs[q] /\ agentEvents'[q] = agentEvents[q]
  BY <1>1, <1>3 DEF RunsTypeOK
<1>6. RunsTypeOK'
  <2>1. runs' \in [RunId -> StoredRun \cup {NoRun}]
    BY <1>1, <1>2, <1>3 DEF RunsTypeOK
  <2>2. agentEvents' \in [RunId -> Seq(RunEvent)]
    <3>1. agentEvents \in [RunId -> Seq(RunEvent)]
      BY <1>1 DEF RunsTypeOK, RunEvent
    <3>2. Append(agentEvents[r], event) \in Seq(RunEvent)
      BY <1>2, <3>1
    <3> QED BY <1>3, <3>1, <3>2
  <2> QED BY <2>1, <2>2 DEF RunsTypeOK, RunEvent
<1>7. RunInv(r)'
  <2>1. agentEvents[r] = <<>> /\ Len(agentEvents[r]) = 0
    BY <1>1, <1>3 DEF RunInv, HistoryOf
  <2>2. Len(agentEvents'[r]) = 1 /\ agentEvents'[r][1] = event /\ agentEvents'[r] # <<>>
    <3> DEFINE n == Len(agentEvents[r])
    <3>1. /\ Len(agentEvents'[r]) = n + 1 /\ agentEvents'[r] # <<>>
          /\ agentEvents'[r][n + 1] = event
      BY <1>1, <1>2, <1>4, RecordedTrail
    <3>2. n + 1 = 1
      BY <2>1
    <3> QED BY <3>1, <3>2
  <2>3. Exists(r)' /\ runs'[r].state = "IDLE" /\ runs'[r].plan = NoPlan
    BY <1>4 DEF Exists
  <2>4. \A i : i \notin 1..(1 - 1)
    OBVIOUS
  <2>5. HistoryOf(r)'
    BY <2>2, <2>3, <2>4 DEF HistoryOf
  <2>6. ASSUME NEW state PROVE Entered(r, state)' <=> state = "IDLE"
    <3>1. ~ Entered(r, state)
      BY <2>1 DEF Entered
    <3> QED BY <1>1, <1>2, <1>4, <3>1, RecordedEnters
  <2>7. PlanBehind(r)'
    BY <2>3, <2>6 DEF PlanBehind
  <2> QED BY <2>5, <2>7 DEF RunInv
<1>8. \A q \in RunId : RunInv(q)'
  BY <1>5, <1>7, RunUnchanged DEF RunsInv
<1> QED BY <1>6, <1>8 DEF RunsInv

LEMMA AllowedIsEdge ==
  ASSUME NEW current, NEW target, TransitionAllowed(current, target)
  PROVE  current \notin TerminalStates /\ Edge(current, target)
BY DEF TransitionAllowed, Edge

LEMMA TransitionMoves ==
  ASSUME RunsTypeOK, NEW r \in RunId, NEW target \in AgentStates, NEW expected \in AgentStates,
         NEW plan \in Plan \cup {NoPlan}, Transition(r, target, expected, plan)
  PROVE  /\ RunMoves(r, target, plan)
         /\ \A q \in RunId \ {r} : runs'[q] = runs[q] /\ agentEvents'[q] = agentEvents[q]
<1>1. runs'[r] = [runs[r] EXCEPT !.state = target, !.plan = IF plan = NoPlan THEN @ ELSE plan]
  BY DEF RunsTypeOK, Transition
<1>2. Recorded(r, [from |-> runs[r].state, to |-> target])
  BY DEF RunsTypeOK, Transition, RecordRunEvent, Recorded
<1>3. \A q \in RunId \ {r} : runs'[q] = runs[q] /\ agentEvents'[q] = agentEvents[q]
  BY DEF RunsTypeOK, Transition, RecordRunEvent
<1>4. runs[r].state \notin TerminalStates /\ Edge(runs[r].state, target)
  BY AllowedIsEdge DEF Transition, MayTransition
<1> QED BY <1>1, <1>2, <1>3, <1>4 DEF RunMoves, Transition, MayTransition

LEMMA TransitionKeepsInv ==
  ASSUME RunsInv, NEW r \in RunId, NEW target \in AgentStates, NEW expected \in AgentStates,
         NEW plan \in Plan \cup {NoPlan}, Transition(r, target, expected, plan)
  PROVE  RunsInv'
<1>1. RunsTypeOK
  BY DEF RunsInv
<1>2. /\ RunMoves(r, target, plan)
      /\ \A q \in RunId \ {r} : runs'[q] = runs[q] /\ agentEvents'[q] = agentEvents[q]
  BY <1>1, TransitionMoves
<1>3. /\ runs'[r] \in StoredRun /\ runs'[r].trace = runs[r].trace /\ Exists(r)
      /\ [from |-> runs[r].state, to |-> target] \in RunEvent
  BY <1>1, <1>2, MovedRow DEF RunMoves
<1>4. RunsTypeOK'
  <2>1. runs' \in [RunId -> StoredRun \cup {NoRun}]
    <3>1. runs' = [runs EXCEPT ![r] = runs'[r]]
      BY <1>1 DEF RunsTypeOK, Transition
    <3> QED BY <1>1, <1>3, <3>1 DEF RunsTypeOK
  <2>2. agentEvents' \in [RunId -> Seq(RunEvent)]
    <3>1. agentEvents \in [RunId -> Seq(RunEvent)]
      BY <1>1 DEF RunsTypeOK, RunEvent
    <3>2. Append(agentEvents[r], [from |-> runs[r].state, to |-> target]) \in Seq(RunEvent)
      BY <1>3, <3>1
    <3> QED BY <3>1, <3>2 DEF Transition, RecordRunEvent
  <2> QED BY <2>1, <2>2 DEF RunsTypeOK, RunEvent
<1>5. RunInv(r)'
  BY <1>2, MoveKeepsHistory, MoveKeepsPlan DEF RunInv
<1>6. \A q \in RunId : RunInv(q)'
  BY <1>2, <1>5, RunUnchanged DEF RunsInv
<1> QED BY <1>4, <1>6 DEF RunsInv

LEMMA RecoveryMoves ==
  ASSUME RunsTypeOK, FailClosedRecover, NEW r \in RunId
  PROVE  /\ r \in ActiveRuns => RunMoves(r, "ABORTED", NoPlan)
         /\ r \notin ActiveRuns => runs'[r] = runs[r] /\ agentEvents'[r] = agentEvents[r]
<1>1. CASE r \in ActiveRuns
  <2>1. /\ runs[r].state \in ActiveStates
        /\ runs'[r] = [runs[r] EXCEPT !.state = "ABORTED"]
        /\ Recorded(r, [from |-> runs[r].state, to |-> "ABORTED"])
    BY <1>1 DEF FailClosedRecover, ActiveRuns, Recorded
  <2>2. Exists(r) /\ runs[r].state \notin TerminalStates /\ Edge(runs[r].state, "ABORTED")
    BY <2>1 DEF ActiveStates, AgentStates, TerminalStates, Exists, Edge
  <2>3. runs[r] \in StoredRun
    BY <2>2 DEF RunsTypeOK, Exists, NoRun
  <2>4. runs'[r] = [runs[r] EXCEPT !.state = "ABORTED",
                                   !.plan = IF NoPlan = NoPlan THEN @ ELSE NoPlan]
    BY <2>1, <2>3 DEF StoredRun
  <2>5. PlanRules(r, "ABORTED", NoPlan)
    BY DEF PlanRules
  <2> QED BY <1>1, <2>1, <2>2, <2>4, <2>5 DEF RunMoves
<1>2. CASE r \notin ActiveRuns
  BY <1>2 DEF FailClosedRecover
<1> QED BY <1>1, <1>2

LEMMA RecoveryKeepsInv ==
  ASSUME RunsInv, FailClosedRecover
  PROVE  RunsInv'
<1>1. RunsTypeOK
  BY DEF RunsInv
<1>2. ASSUME NEW r \in RunId
      PROVE  /\ RunInv(r)'
             /\ runs'[r] \in StoredRun \cup {NoRun}
             /\ agentEvents'[r] \in Seq(RunEvent)
  <2>1. agentEvents[r] \in Seq(RunEvent) /\ runs[r] \in StoredRun \cup {NoRun} /\ RunInv(r)
    BY <1>1 DEF RunsTypeOK, RunEvent, RunsInv
  <2>2. CASE r \in ActiveRuns
    <3>1. RunMoves(r, "ABORTED", NoPlan)
      BY <1>1, <2>2, RecoveryMoves
    <3>2. "ABORTED" \in AgentStates
      BY StatesApart
    <3>3. RunInv(r)'
      BY <3>1, <3>2, MoveKeepsHistory, MoveKeepsPlan DEF RunInv
    <3>4. /\ runs'[r] \in StoredRun /\ runs'[r].trace = runs[r].trace /\ Exists(r)
          /\ [from |-> runs[r].state, to |-> "ABORTED"] \in RunEvent
      BY <1>1, <3>1, <3>2, MovedRow DEF RunMoves
    <3>5. agentEvents'[r] \in Seq(RunEvent)
      BY <2>1, <3>1, <3>4 DEF RunMoves, Recorded
    <3> QED BY <3>3, <3>4, <3>5
  <2>3. CASE r \notin ActiveRuns
    <3>1. runs'[r] = runs[r] /\ agentEvents'[r] = agentEvents[r]
      BY <1>1, <2>3, RecoveryMoves
    <3> QED BY <2>1, <3>1, RunUnchanged DEF Exists
  <2> QED BY <2>2, <2>3
<1>3. RunsTypeOK'
  <2>1. /\ runs' = [r \in RunId |-> runs'[r]]
        /\ agentEvents' = [r \in RunId |-> agentEvents'[r]]
    BY DEF FailClosedRecover
  <2>2. runs' \in [RunId -> StoredRun \cup {NoRun}]
    BY <1>2, <2>1
  <2>3. agentEvents' \in [RunId -> Seq(RunEvent)]
    BY <1>2, <2>1
  <2> QED BY <2>2, <2>3 DEF RunsTypeOK, RunEvent
<1> QED BY <1>2, <1>3 DEF RunsInv

-----------------------------------------------------------------------------
LEMMA RunsStep == RunsInv /\ [RunsNext]_runVars => RunsInv'
<1> SUFFICES ASSUME RunsInv, [RunsNext]_runVars PROVE RunsInv'
  OBVIOUS
<1>1. ASSUME NEW r \in RunId, NEW t \in TraceId, CreateRun(r, t)
      PROVE  RunsInv'
  BY <1>1, CreateKeepsInv
<1>2. ASSUME NEW r \in RunId, NEW target \in AgentStates, NEW expected \in AgentStates,
             NEW plan \in Plan \cup {NoPlan}, Transition(r, target, expected, plan)
      PROVE  RunsInv'
  BY <1>2, TransitionKeepsInv
<1>3. CASE FailClosedRecover
  BY <1>3, RecoveryKeepsInv
<1>4. CASE UNCHANGED runVars
  <2>1. runs' = runs /\ agentEvents' = agentEvents
    BY <1>4 DEF runVars
  <2>2. \A r \in RunId : RunInv(r)'
    BY <2>1, RunUnchanged DEF RunsInv
  <2> QED BY <2>1, <2>2 DEF RunsInv, RunsTypeOK
<1> QED BY <1>1, <1>2, <1>3, <1>4 DEF RunsNext

(***************************************************************************)
(* The inductive invariant holds in every reachable state of the store.    *)
(***************************************************************************)
THEOREM RunsInvariant == RunsSpec => []RunsInv
BY RunsInitially, RunsStep, PTL DEF RunsSpec

\* The tables always hold rows of their types.
THEOREM RunsTypes == RunsSpec => []RunsTypeOK
<1>1. RunsInv => RunsTypeOK
  BY DEF RunsInv
<1> QED BY <1>1, RunsInvariant, PTL

\* Whoever writes a run, its events are its whole life along documented edges.
THEOREM HistoryAlwaysLegal == RunsSpec => []HistoryIsLegal
<1>1. RunsInv => HistoryIsLegal
  BY DEF RunsInv, RunInv, HistoryIsLegal
<1> QED BY <1>1, RunsInvariant, PTL

\* Nothing executes without a plan that was validated, nothing succeeds unverified.
THEOREM PlanAlwaysFirst == RunsSpec => []PlanBeforeExecution
<1>1. RunsInv => PlanBeforeExecution
  BY DEF RunsInv, RunInv, PlanBehind, PlanBeforeExecution, PlannedFirst
<1> QED BY <1>1, RunsInvariant, PTL

\* A move starts from an undecided run and keeps what must be kept.
LEMMA MoveIsFinal ==
  ASSUME RunsTypeOK, NEW r \in RunId, PlanBehind(r), NEW target \in AgentStates,
         NEW plan \in Plan \cup {NoPlan}, RunMoves(r, target, plan)
  PROVE  /\ runs[r].state \notin TerminalStates
         /\ runs'[r].state # "ABSENT" /\ runs'[r].trace = runs[r].trace
         /\ runs[r].plan # NoPlan => runs'[r].plan = runs[r].plan
<1>1. /\ runs'[r].state = target /\ runs'[r].trace = runs[r].trace
      /\ plan = NoPlan => runs'[r].plan = runs[r].plan
  BY MovedRow
<1>2. plan # NoPlan => runs[r].state = "PLANNING"
  BY DEF RunMoves, PlanRules, Edge, ForwardTransitions
<1>3. plan # NoPlan => runs[r].plan = NoPlan
  BY <1>2 DEF PlanBehind
<1>4. runs[r].state \notin TerminalStates /\ target # "ABSENT"
  BY StatesApart DEF RunMoves
<1> QED BY <1>1, <1>3, <1>4

\* What every step leaves to run r.
Final(r) ==
  /\ runs[r].state \in TerminalStates => runs'[r] = runs[r]
  /\ Exists(r) => runs'[r].state # "ABSENT" /\ runs'[r].trace = runs[r].trace
  /\ runs[r].plan # NoPlan => runs'[r].plan = runs[r].plan

LEMMA FinalStep ==
  ASSUME RunsInv, RunsNext
  PROVE  \A r \in RunId : Final(r)
<1> USE DEF Final
<1>1. RunsTypeOK /\ \A r \in RunId : PlanBehind(r)
  BY DEF RunsInv, RunInv
<1>2. ASSUME NEW r \in RunId, NEW t \in TraceId, CreateRun(r, t) PROVE \A q \in RunId : Final(q)
  <2>1. \A q \in RunId \ {r} : runs'[q] = runs[q]
    BY <1>1, <1>2 DEF RunsTypeOK, CreateRun
  <2>2. ~ Exists(r) /\ runs'[r].plan = NoPlan
    BY <1>1, <1>2 DEF RunsTypeOK, CreateRun
  <2>3. runs[r].state \notin TerminalStates /\ runs[r].plan = NoPlan
    BY <1>1, <2>2, StatesApart DEF RunsTypeOK, StoredRun, Exists, NoRun
  <2> QED BY <2>1, <2>2, <2>3 DEF Exists
<1>3. ASSUME NEW r \in RunId, NEW target \in AgentStates, NEW expected \in AgentStates,
             NEW plan \in Plan \cup {NoPlan}, Transition(r, target, expected, plan)
      PROVE  \A q \in RunId : Final(q)
  <2>1. RunMoves(r, target, plan) /\ \A q \in RunId \ {r} : runs'[q] = runs[q]
    BY <1>1, <1>3, TransitionMoves
  <2> QED BY <1>1, <2>1, MoveIsFinal DEF Exists
<1>4. CASE FailClosedRecover
  <2>1. "ABORTED" \in AgentStates
    BY StatesApart
  <2> QED BY <1>1, <1>4, <2>1, MoveIsFinal, RecoveryMoves DEF Exists
<1> QED BY <1>2, <1>3, <1>4 DEF RunsNext

(***************************************************************************)
(* No step revises a decided run, deletes one or replaces its plan.        *)
(***************************************************************************)
THEOREM DecisionsAreFinal == RunsSpec => DecidedIsFinal
<1>1. RunsInv /\ [RunsNext]_runVars => [\A r \in RunId : Final(r)]_runVars
  BY FinalStep
<1> QED BY <1>1, RunsInvariant, PTL DEF RunsSpec, DecidedIsFinal, Final
=============================================================================
