-------------------------- MODULE AgentLoopsProofs --------------------------
(***************************************************************************)
(* The agent loops keep their promises for any number of loops of either   *)
(* kind, any plans and any recordings: results name what is stored, no     *)
(* step is taken past its evidence, a diagnosis is about one recording     *)
(* and its report is whole.  The inductive invariant follows, for every    *)
(* loop, the lease it holds, the shape of its call, its run in the store   *)
(* and the versions its steps are about; for every server, what it has     *)
(* read and written.                                                       *)
(***************************************************************************)
EXTENDS AgentLoops, AgentRunStoreProofs, SequenceTheorems

Places ==
  { "start", "recover", "create", "retrieve", "resolve", "plan", "validate", "check", "step",
    "serving", "judge", "finish", "handler", "returned", "raised", "dead" }

Calls ==
  [pc : Places, run : RunId \cup {"none"}, current : AgentStates, plan : Plan \cup {NoPlan},
   steps : Seq(StepRecord), status : Statuses \cup {"none"}, safe : BOOLEAN]

\* the calls that have a run of their own
Running ==
  { "retrieve", "resolve", "plan", "validate", "check", "step", "serving", "judge", "finish",
    "handler", "returned" }

Unplanned ==
  {"start", "recover", "create", "retrieve", "resolve", "plan", "raised", "dead"}

Working == {"step", "serving", "judge", "finish"}

Taken(p) == Len(loop[p].steps)
Steps(p) == Len(loop[p].plan.steps)

\* the lock file names exactly the calls that are between acquiring and leaving
LeaseHeld(p) == lease[LeaseOf(p)] = p <=> loop[p].pc \notin Outside

\* the steps are those of the plan, from its start, and only the last may have a bad gate
StepsFollowPlan(p) ==
  /\ loop[p].plan = NoPlan => loop[p].steps = <<>>
  /\ loop[p].plan # NoPlan =>
       /\ Taken(p) <= Steps(p)
       /\ \A i \in 1..Taken(p) : loop[p].steps[i].tool = loop[p].plan.steps[i]
  /\ \A i \in 1..Taken(p) :
       i < Taken(p) => loop[p].steps[i].succeeded /\ loop[p].steps[i].gate

\* what must hold of the plan and of the steps for a call to be at a place
Stands(p, pc) ==
  /\ pc \in Unplanned => loop[p].plan = NoPlan
  /\ pc \in {"validate", "check"} => loop[p].plan # NoPlan /\ loop[p].steps = <<>>
  /\ pc \in Working => loop[p].plan # NoPlan
  /\ pc \in Working \/ loop[p].steps # <<>> => PlanIsValid(p)
  /\ pc \in {"step", "serving"} =>
       /\ Taken(p) < Steps(p)
       /\ \A i \in 1..Taken(p) : loop[p].steps[i].succeeded /\ loop[p].steps[i].gate
  /\ pc = "judge" => Taken(p) > 0
  /\ pc = "finish" =>
       /\ Taken(p) = Steps(p)
       /\ LastStep(p).succeeded
       /\ p \in DiagnosisLoop => LastStep(p).gate
  /\ pc = "serving" => p \in DiagnosisLoop

PlaceTells(p) == Stands(p, loop[p].pc)

\* Evidenced, of a result that is about to say whether it is safe to continue
EvidencedBy(p, safe) ==
  LET steps == loop[p].steps IN
  /\ loop[p].plan # NoPlan
  /\ Taken(p) = Steps(p)
  /\ \A i \in 1..Taken(p) :
       /\ steps[i].tool = loop[p].plan.steps[i]
       /\ steps[i].succeeded
       /\ i < Taken(p) => steps[i].gate
  /\ safe <=> LastStep(p).gate
  /\ p \in ReadOnlyLoop => \A i \in 1..Taken(p) : steps[i].tool \in ReadOnlySkills
  /\ p \in DiagnosisLoop => safe

ResultSpeaks(p) ==
  /\ loop[p].pc = "returned" <=> loop[p].status # "none"
  /\ loop[p].safe => loop[p].status = "succeeded"
  /\ loop[p].status = "succeeded" => loop[p].plan # NoPlan /\ Evidenced(p)

\* a result names what is stored
RunIsStored(p) ==
  /\ loop[p].pc \in Running => loop[p].run \in RunId
  /\ loop[p].pc = "returned" =>
       /\ runs[loop[p].run].state = loop[p].current
       /\ loop[p].current \in TerminalStates
       /\ loop[p].current = "SUCCEEDED" <=> loop[p].status = "succeeded"

\* the recordings a diagnosis has seen, in the order of its tools
VersionsFollow(p) ==
  LET steps == loop[p].steps
      named == [sources |-> steps[5].sources, content |-> steps[5].content] IN
  /\ \A i \in 1..Taken(p) : steps[i].content <= data
  /\ Taken(p) >= 3 =>
       /\ steps[3].sources <= steps[3].content
       /\ steps[3].gate => steps[3].sources = steps[2].sources
  /\ Taken(p) >= 5 =>
       /\ steps[3].content <= steps[5].sources
       /\ steps[5].gate => steps[5].sources = steps[3].sources /\ steps[5].content = steps[3].content
       /\ named \in Analysis /\ BundleFile \in written[named]
  /\ loop[p].pc = "serving" =>
       /\ server[p].job = NextTool(p)
       /\ \A i \in 1..Taken(p) : steps[i].content <= server[p].sources

\* what a server has read is no newer than the disk, and its files are in their place
ServerFollows(s) ==
  server[s].job # "none" =>
    /\ server[s].sources <= data /\ server[s].content <= data
    /\ server[s].content = 0 => server[s].files = 0
    /\ server[s].content # 0 =>
         /\ server[s].sources <= server[s].content
         /\ \A k \in 1..server[s].files : WriteOrder[k] \in written[Directory(s)]

ToolsInv ==
  /\ ToolsTypeOK
  /\ \A s \in Server : ServerFollows(s)
  /\ BundleSealsReport

Leases == {"agent_loop.lock", "diagnosis_agent.lock"}

LoopInv(p) ==
  /\ LeaseHeld(p) /\ StepsFollowPlan(p) /\ PlaceTells(p) /\ ResultSpeaks(p) /\ RunIsStored(p)
  /\ p \in DiagnosisLoop => VersionsFollow(p)

AgentsInv ==
  /\ RunsInv /\ ToolsInv
  /\ lease \in [Leases -> Loop \cup {NoLoop}]
  /\ loop \in [Loop -> Calls]
  /\ \A p \in Loop : LoopInv(p)

-----------------------------------------------------------------------------
(***************************************************************************)
(* The diagnosis tools and their servers                                   *)
(***************************************************************************)
Jobs ==
  [job : {"analyze_experiment_run", "materialize_diagnosis_report"}, sources : 1..MaxVersion,
   content : 0..MaxVersion, files : 0..Len(WriteOrder)]

Files == ReportFiles \cup {BundleFile}

LEMMA ToolsTypeIs ==
  ToolsTypeOK <=> /\ data \in 1..MaxVersion
                  /\ server \in [Server -> {Off} \cup Jobs]
                  /\ written \in [Analysis -> SUBSET Files]
  BY DEF ToolsTypeOK, Jobs, Files

LEMMA TheWriteOrder ==
  /\ Len(WriteOrder) = 6
  /\ WriteOrder[6] = BundleFile
  /\ ReportFiles = {WriteOrder[1], WriteOrder[2], WriteOrder[3], WriteOrder[4]}
  /\ \A k \in 1..6 : WriteOrder[k] \in Files
  /\ \A k \in 1..5 : WriteOrder[k] # BundleFile
  BY DEF WriteOrder, ReportFiles, BundleFile, Files

LEMMA TheToolOrder ==
  /\ Len(ToolOrder) = 5
  /\ ToolOrder[1] = "list_experiment_runs" /\ ToolOrder[2] = "inspect_experiment_run"
  /\ ToolOrder[3] = "analyze_experiment_run" /\ ToolOrder[4] = "retrieve_robotics_knowledge"
  /\ ToolOrder[5] = "materialize_diagnosis_report"
  BY DEF ToolOrder

LEMMA OffIsIdle == Off.job = "none" /\ \A j \in Jobs : j.job # "none"
  BY DEF Off, Jobs

\* what no step of the tools takes away
ToolsGrow ==
  /\ data <= data'
  /\ \A a \in Analysis : written[a] \subseteq written'[a]

\* a server whose own row is unchanged keeps what it has
LEMMA ServerKeeps ==
  ASSUME NEW s \in Server, ToolsTypeOK, ToolsTypeOK', ServerFollows(s), server'[s] = server[s],
         ToolsGrow
  PROVE  ServerFollows(s)'
<1>1. CASE server[s].job = "none"
  BY <1>1 DEF ServerFollows
<1>2. CASE server[s].job # "none"
  <2>1. server[s] \in Jobs /\ data \in Nat /\ data' \in Nat
    BY <1>2, ToolsTypeIs, OffIsIdle, MaxVersionAssumption DEF ToolsTypeOK
  <2>2. /\ server[s].sources \in Nat /\ server[s].content \in Nat /\ server[s].files \in Nat
        /\ server[s].content # 0 => Directory(s) \in Analysis
    BY <2>1, TheWriteOrder DEF Jobs, Directory, Analysis
  <2>3. Directory(s)' = Directory(s)
    BY DEF Directory
  <2>4. QED  BY <1>2, <2>1, <2>2, <2>3 DEF ServerFollows, ToolsGrow
<1>3. QED  BY <1>1, <1>2

LEMMA VerifyStep ==
  ASSUME ToolsInv, NEW s \in Server, NEW tool, Verify(s, tool)
  PROVE  /\ ToolsInv' /\ ToolsGrow
         /\ server' \in [Server -> {Off} \cup Jobs] /\ \A o \in Server \ {s} : server'[o] = server[o]
         /\ server'[s].job = tool /\ server'[s].sources = data
<1> DEFINE job == [job |-> tool, sources |-> data, content |-> 0, files |-> 0]
<1>1. /\ server' = [server EXCEPT ![s] = job] /\ data' = data /\ written' = written
      /\ tool \in {"analyze_experiment_run", "materialize_diagnosis_report"}
  BY DEF Verify
<1>2. /\ data \in 1..MaxVersion /\ server \in [Server -> {Off} \cup Jobs]
      /\ written \in [Analysis -> SUBSET Files]
  BY ToolsTypeIs DEF ToolsInv
<1>3. job \in Jobs /\ job.job = tool /\ job.sources = data /\ job.content = 0 /\ job.files = 0
  BY <1>1, <1>2, MaxVersionAssumption, TheWriteOrder DEF Jobs
<1> HIDE DEF job
<1>4. /\ server' \in [Server -> {Off} \cup Jobs] /\ server'[s] = job
      /\ \A o \in Server \ {s} : server'[o] = server[o]
  BY <1>1, <1>2, <1>3
<1>5. ToolsTypeOK' /\ ToolsGrow
  BY <1>1, <1>2, <1>4, MaxVersionAssumption DEF ToolsTypeOK, Jobs, Files, ToolsGrow
<1>6. ServerFollows(s)'
  BY <1>1, <1>2, <1>3, <1>4, MaxVersionAssumption DEF ServerFollows
<1>7. \A o \in Server : ServerFollows(o)'
  BY <1>4, <1>5, <1>6, ServerKeeps DEF ToolsInv
<1>8. BundleSealsReport'
  BY <1>1 DEF ToolsInv, BundleSealsReport
<1>9. QED  BY <1>3, <1>4, <1>5, <1>7, <1>8 DEF ToolsInv

LEMMA ReadSamplesStep ==
  ASSUME ToolsInv, NEW s \in Server, ReadSamples(s)
  PROVE  /\ ToolsInv' /\ ToolsGrow
         /\ \A o \in Server \ {s} : server'[o] = server[o]
         /\ server'[s].job = server[s].job /\ server'[s].sources = server[s].sources
<1>1. /\ server' = [server EXCEPT ![s].content = data] /\ data' = data /\ written' = written
      /\ server[s].job # "none" /\ server[s].content = 0
  BY DEF ReadSamples
<1>2. /\ data \in 1..MaxVersion /\ server \in [Server -> {Off} \cup Jobs]
      /\ written \in [Analysis -> SUBSET Files]
  BY ToolsTypeIs DEF ToolsInv
<1>3. server[s] \in Jobs
  BY <1>1, <1>2, OffIsIdle
<1>4. /\ server'[s] = [server[s] EXCEPT !.content = data]
      /\ \A o \in Server \ {s} : server'[o] = server[o]
  BY <1>1, <1>2
<1>5. /\ server'[s] \in Jobs /\ server'[s].content = data /\ server'[s].files = server[s].files
      /\ server'[s].job = server[s].job /\ server'[s].sources = server[s].sources
  BY <1>2, <1>3, <1>4, MaxVersionAssumption DEF Jobs
<1>6. server' \in [Server -> {Off} \cup Jobs]
  BY <1>1, <1>2, <1>4, <1>5
<1>7. ToolsTypeOK' /\ ToolsGrow
  BY <1>1, <1>2, <1>6, MaxVersionAssumption DEF ToolsTypeOK, Jobs, Files, ToolsGrow
<1>8. ServerFollows(s)'
  <2>1. server[s].files = 0 /\ server[s].sources <= data
    BY <1>1 DEF ToolsInv, ServerFollows
  <2>2. QED  BY <1>1, <1>2, <1>5, <2>1, MaxVersionAssumption DEF ServerFollows
<1>9. \A o \in Server : ServerFollows(o)'
  BY <1>4, <1>7, <1>8, ServerKeeps DEF ToolsInv
<1>10. BundleSealsReport'
  BY <1>1 DEF ToolsInv, BundleSealsReport
<1>11. QED  BY <1>4, <1>5, <1>7, <1>9, <1>10 DEF ToolsInv

LEMMA WriteStep ==
  ASSUME ToolsInv, NEW s \in Server, Write(s)
  PROVE  /\ ToolsInv' /\ ToolsGrow
         /\ \A o \in Server \ {s} : server'[o] = server[o]
         /\ server'[s].job = server[s].job /\ server'[s].sources = server[s].sources
<1> DEFINE n == server[s].files + 1
           here == Directory(s)
<1>1. /\ server' = [server EXCEPT ![s].files = @ + 1] /\ data' = data
      /\ written' = [written EXCEPT ![here] = @ \cup {WriteOrder[n]}]
      /\ server[s].job = "materialize_diagnosis_report" /\ server[s].content # 0
      /\ server[s].files < Len(WriteOrder)
  BY DEF Write
<1>2. /\ data \in 1..MaxVersion /\ server \in [Server -> {Off} \cup Jobs]
      /\ written \in [Analysis -> SUBSET Files]
  BY ToolsTypeIs DEF ToolsInv
<1>3. server[s] \in Jobs
  BY <1>1, <1>2, OffIsIdle
<1>4. n \in 1..6 /\ here \in Analysis /\ server[s].files \in Nat
  BY <1>1, <1>3, TheWriteOrder DEF Jobs, Directory, Analysis
<1>5. /\ server'[s] = [server[s] EXCEPT !.files = n]
      /\ \A o \in Server \ {s} : server'[o] = server[o]
  BY <1>1, <1>2
<1>6. /\ server'[s] \in Jobs /\ server'[s].files = n /\ server'[s].content = server[s].content
      /\ server'[s].job = server[s].job /\ server'[s].sources = server[s].sources
  BY <1>3, <1>4, <1>5, TheWriteOrder DEF Jobs
<1>7. server' \in [Server -> {Off} \cup Jobs]
  BY <1>1, <1>2, <1>5, <1>6
<1>8. /\ written'[here] = written[here] \cup {WriteOrder[n]}
      /\ \A a \in Analysis \ {here} : written'[a] = written[a]
      /\ written' \in [Analysis -> SUBSET Files]
  <2>1. WriteOrder[n] \in Files
    BY <1>4, TheWriteOrder
  <2> HIDE DEF n, here
  <2>2. QED  BY <1>1, <1>2, <1>4, <2>1
<1>9. ToolsTypeOK' /\ ToolsGrow
  BY <1>1, <1>2, <1>7, <1>8, MaxVersionAssumption DEF ToolsTypeOK, Jobs, Files, ToolsGrow
<1>10. ServerFollows(s) /\ BundleSealsReport
  BY DEF ToolsInv
<1>11. \A k \in 1..server[s].files : WriteOrder[k] \in written[here]
  BY <1>1, <1>10 DEF ServerFollows
<1>12. ServerFollows(s)'
  <2>1. Directory(s)' = here
    BY <1>6 DEF Directory
  <2>2. \A k \in 1..n : WriteOrder[k] \in written'[here]
    <3>1. \A k \in 1..n : k = n \/ k \in 1..server[s].files
      BY <1>4
    <3> HIDE DEF n, here
    <3>2. QED  BY <1>8, <1>11, <3>1
  <2> HIDE DEF n, here
  <2>3. QED  BY <1>1, <1>6, <1>10, <2>1, <2>2 DEF ServerFollows
<1>13. \A o \in Server : ServerFollows(o)'
  BY <1>5, <1>9, <1>12, ServerKeeps DEF ToolsInv
<1>14. BundleSealsReport'
  <2> SUFFICES ASSUME NEW a \in Analysis, BundleFile \in written'[a]
               PROVE  ReportFiles \subseteq written'[a]
    BY DEF BundleSealsReport
  <2>1. CASE BundleFile \in written[a]
    BY <2>1, <1>9, <1>10 DEF BundleSealsReport, ToolsGrow
  <2>2. CASE BundleFile \notin written[a]
    <3>1. a = here /\ BundleFile = WriteOrder[n]
      BY <2>2, <1>8
    <3>2. n = 6
      BY <3>1, <1>4, TheWriteOrder
    <3>3. 1 \in 1..server[s].files /\ 2 \in 1..server[s].files /\ 3 \in 1..server[s].files
          /\ 4 \in 1..server[s].files
      BY <3>2, <1>4
    <3>4. /\ WriteOrder[1] \in written[here] /\ WriteOrder[2] \in written[here]
          /\ WriteOrder[3] \in written[here] /\ WriteOrder[4] \in written[here]
      BY <3>3, <1>11
    <3>5. ReportFiles \subseteq written[here]
      BY <3>4, TheWriteOrder
    <3>6. QED  BY <3>1, <3>5, <1>8
  <2>3. QED  BY <2>1, <2>2
<1>15. QED  BY <1>5, <1>6, <1>9, <1>13, <1>14 DEF ToolsInv

LEMMA ExitsStep ==
  ASSUME ToolsInv, NEW s \in Server, Exits(s)
  PROVE  ToolsInv' /\ ToolsGrow /\ \A o \in Server \ {s} : server'[o] = server[o]
<1>1. server' = [server EXCEPT ![s] = Off] /\ data' = data /\ written' = written
  BY DEF Exits
<1>2. /\ data \in 1..MaxVersion /\ server \in [Server -> {Off} \cup Jobs]
      /\ written \in [Analysis -> SUBSET Files]
  BY ToolsTypeIs DEF ToolsInv
<1>3. /\ server' \in [Server -> {Off} \cup Jobs] /\ server'[s] = Off
      /\ \A o \in Server \ {s} : server'[o] = server[o]
  BY <1>1, <1>2
<1>4. ToolsTypeOK' /\ ToolsGrow
  BY <1>1, <1>2, <1>3, MaxVersionAssumption DEF ToolsTypeOK, Jobs, Files, ToolsGrow
<1>5. ServerFollows(s)'
  BY <1>3, OffIsIdle DEF ServerFollows
<1>6. \A o \in Server : ServerFollows(o)'
  BY <1>3, <1>4, <1>5, ServerKeeps DEF ToolsInv
<1>7. BundleSealsReport'
  BY <1>1 DEF ToolsInv, BundleSealsReport
<1>8. QED  BY <1>3, <1>4, <1>6, <1>7 DEF ToolsInv

LEMMA DiskStep ==
  ASSUME ToolsInv, Rerecorded \/ UNCHANGED toolVars
  PROVE  ToolsInv' /\ ToolsGrow /\ server' = server
<1>1. /\ data' = data \/ (data < MaxVersion /\ data' = data + 1)
      /\ server' = server /\ written' = written
  BY DEF Rerecorded, toolVars
<1>2. /\ data \in 1..MaxVersion /\ server \in [Server -> {Off} \cup Jobs]
      /\ written \in [Analysis -> SUBSET Files]
  BY ToolsTypeIs DEF ToolsInv
<1>3. data' \in 1..MaxVersion /\ data <= data'
  BY <1>1, <1>2, MaxVersionAssumption
<1>4. ToolsTypeOK' /\ ToolsGrow
  BY <1>1, <1>2, <1>3 DEF ToolsTypeOK, Jobs, Files, ToolsGrow
<1>5. \A o \in Server : ServerFollows(o)'
  BY <1>1, <1>4, ServerKeeps DEF ToolsInv
<1>6. BundleSealsReport'
  BY <1>1 DEF ToolsInv, BundleSealsReport
<1>7. QED  BY <1>1, <1>4, <1>5, <1>6 DEF ToolsInv

-----------------------------------------------------------------------------
(***************************************************************************)
(* What a step of one loop leaves to the others                            *)
(***************************************************************************)
LEMMA InvGives ==
  ASSUME AgentsInv
  PROVE  /\ RunsInv /\ RunsTypeOK /\ ToolsInv /\ ToolsTypeOK
         /\ lease \in [Leases -> Loop \cup {NoLoop}] /\ loop \in [Loop -> Calls]
         /\ \A p \in Loop :
              /\ loop[p] \in Calls /\ LeaseHeld(p) /\ StepsFollowPlan(p) /\ PlaceTells(p)
              /\ ResultSpeaks(p) /\ RunIsStored(p) /\ (p \in DiagnosisLoop => VersionsFollow(p))
  BY DEF AgentsInv, LoopInv, RunsInv, ToolsInv

LEMMA LoopsApart ==
  /\ NoLoop \notin Loop
  /\ \A p \in Loop : LeaseOf(p) \in Leases
  /\ \A p \in DiagnosisLoop : p \in Loop /\ p \in Server /\ p \notin ReadOnlyLoop
  /\ \A p \in Loop : p \in ReadOnlyLoop \/ p \in DiagnosisLoop
  /\ \A s \in Server : s \in DiagnosisLoop
  BY LoopAssumption DEF Loop, LeaseOf, Leases

\* the store and the tools move on as they may
World == RunsInv' /\ (\A r \in RunId : Final(r)) /\ ToolsInv' /\ ToolsGrow

LEMMA StoreStep ==
  ASSUME RunsInv, RunsNext \/ UNCHANGED runVars
  PROVE  RunsInv' /\ \A r \in RunId : Final(r)
<1>1. RunsInv'
  BY RunsStep
<1>2. CASE RunsNext
  BY <1>1, <1>2, FinalStep
<1>3. CASE UNCHANGED runVars
  BY <1>1, <1>3 DEF Final, Exists, runVars
<1>4. QED  BY <1>2, <1>3

LEMMA NextOfCall ==
  ASSUME NEW p \in Loop, loop'[p] = loop[p]
  PROVE  /\ StepsFollowPlan(p)' <=> StepsFollowPlan(p)
         /\ PlaceTells(p)' <=> PlaceTells(p)
         /\ ResultSpeaks(p)' <=> ResultSpeaks(p)
  BY DEF StepsFollowPlan, PlaceTells, Stands, ResultSpeaks, PlanIsValid, LastStep, Evidenced, Taken, Steps

\* the versions seen by a call whose steps and server are as they were
LEMMA VersionsKept ==
  ASSUME AgentsInv, NEW q \in DiagnosisLoop, World, loop'[q].steps = loop[q].steps,
         loop'[q].pc # "serving" \/ (loop'[q].pc = loop[q].pc /\ loop'[q].plan = loop[q].plan
                                     /\ server'[q].job = server[q].job
                                     /\ server'[q].sources = server[q].sources)
  PROVE  VersionsFollow(q)'
<1> DEFINE steps == loop[q].steps
           named == [sources |-> steps[5].sources, content |-> steps[5].content]
<1>1. /\ steps \in Seq(StepRecord) /\ VersionsFollow(q) /\ data \in Nat /\ data' \in Nat
      /\ data <= data'
  BY InvGives, LoopsApart, ToolsTypeIs, MaxVersionAssumption
     DEF Calls, World, ToolsGrow, ToolsInv, ToolsTypeOK
<1>2. Taken(q)' = Taken(q) /\ Taken(q) \in Nat
  BY <1>1, LenProperties DEF Taken
<1>3. \A i \in 1..Taken(q) : steps[i].content \in Nat /\ steps[i].content <= data'
  <2>1. \A i \in 1..Taken(q) : steps[i] \in StepRecord
    BY <1>1, LenProperties DEF Taken
  <2>2. \A i \in 1..Taken(q) : steps[i].content \in Nat
    BY <2>1, MaxVersionAssumption DEF StepRecord
  <2>3. \A i \in 1..Taken(q) : steps[i].content <= data
    BY <1>1 DEF VersionsFollow
  <2> HIDE DEF steps
  <2>4. QED  BY <2>2, <2>3, <1>1
<1>4. Taken(q) >= 5 => named \in Analysis /\ BundleFile \in written'[named]
  <2>1. Taken(q) >= 5 => named \in Analysis /\ BundleFile \in written[named]
    BY <1>1 DEF VersionsFollow
  <2> HIDE DEF named
  <2>2. QED  BY <2>1 DEF World, ToolsGrow
<1>5. loop'[q].pc = "serving" =>
        /\ server'[q].job = NextTool(q)'
        /\ \A i \in 1..Taken(q) : steps[i].content <= server'[q].sources
  BY <1>1 DEF VersionsFollow, NextTool
<1>6. QED  BY <1>1, <1>2, <1>3, <1>4, <1>5 DEF VersionsFollow

KeepsOthers(p) ==
  \A q \in Loop \ {p} : /\ lease'[LeaseOf(q)] = q <=> lease[LeaseOf(q)] = q
                        /\ q \in DiagnosisLoop => server'[q] = server[q]

LEMMA OthersKeep ==
  ASSUME AgentsInv, World, NEW q \in Loop, loop'[q] = loop[q],
         lease'[LeaseOf(q)] = q <=> lease[LeaseOf(q)] = q,
         q \in DiagnosisLoop => /\ server'[q].job = server[q].job
                                /\ server'[q].sources = server[q].sources
  PROVE  LoopInv(q)'
<1>1. LeaseHeld(q)'
  BY InvGives DEF LeaseHeld, LeaseOf
<1>2. StepsFollowPlan(q)' /\ PlaceTells(q)' /\ ResultSpeaks(q)'
  BY InvGives, NextOfCall
<1>3. RunIsStored(q)'
  <2>1. RunIsStored(q) /\ \A r \in RunId : Final(r)
    BY InvGives DEF World
  <2>2. "returned" \in Running
    BY DEF Running
  <2>3. QED  BY <2>1, <2>2 DEF RunIsStored, Final
<1>4. q \in DiagnosisLoop => VersionsFollow(q)'
  BY VersionsKept
<1>5. QED  BY <1>1, <1>2, <1>3, <1>4 DEF LoopInv

LEMMA SetsCall ==
  ASSUME loop \in [Loop -> Calls], NEW p \in Loop, NEW call \in Calls,
         loop' = [loop EXCEPT ![p] = call]
  PROVE  /\ loop' \in [Loop -> Calls] /\ loop'[p] = call
         /\ \A q \in Loop \ {p} : loop'[q] = loop[q]
  OBVIOUS

\* a step of the loop p: its own part of the invariant is what is left to show
LEMMA OwnStep ==
  ASSUME AgentsInv, NEW p \in Loop, World, NEW call \in Calls, loop' = [loop EXCEPT ![p] = call],
         lease' \in [Leases -> Loop \cup {NoLoop}], KeepsOthers(p), LoopInv(p)'
  PROVE  AgentsInv'
<1>1. /\ loop' \in [Loop -> Calls] /\ loop'[p] = call
      /\ \A q \in Loop \ {p} : loop'[q] = loop[q]
  BY InvGives, SetsCall
<1>2. ASSUME NEW q \in Loop \ {p}  PROVE LoopInv(q)'
  <2>1. /\ lease'[LeaseOf(q)] = q <=> lease[LeaseOf(q)] = q
        /\ q \in DiagnosisLoop => /\ server'[q].job = server[q].job
                                  /\ server'[q].sources = server[q].sources
    BY DEF KeepsOthers
  <2>2. QED  BY <1>1, <2>1, OthersKeep
<1>3. \A q \in Loop : LoopInv(q)'
  BY <1>2
<1>4. QED  BY <1>1, <1>3 DEF AgentsInv, World

\* a step of the tools, the disk or an operator: no loop moves
LEMMA NoLoopMoves ==
  ASSUME AgentsInv, World, loop' = loop, lease' = lease,
         \A q \in DiagnosisLoop : /\ server'[q].job = server[q].job
                                  /\ server'[q].sources = server[q].sources
  PROVE  AgentsInv'
<1>1. \A q \in Loop : LoopInv(q)'
  BY OthersKeep DEF LeaseOf
<1>2. QED  BY <1>1, InvGives DEF AgentsInv, World, Calls, Leases

-----------------------------------------------------------------------------
(***************************************************************************)
(* The ways a loop moves                                                   *)
(***************************************************************************)
Live == Running \ {"returned"}

LEMMA LiveIsInside ==
  ASSUME NEW pc \in Live
  PROVE  pc \in Places /\ pc \notin Outside /\ pc \in Running /\ pc # "returned"
  BY DEF Live, Running, Places, Outside

LEMMA QuietWorld ==
  ASSUME AgentsInv, RunsNext \/ UNCHANGED runVars, UNCHANGED toolVars
  PROVE  World /\ server' = server
<1>1. RunsInv' /\ \A r \in RunId : Final(r)
  BY InvGives, StoreStep
<1>2. ToolsInv' /\ ToolsGrow /\ server' = server
  BY InvGives, DiskStep
<1>3. QED  BY <1>1, <1>2 DEF World

LEMMA LeaseSame ==
  ASSUME AgentsInv, NEW p \in Loop, lease' = lease,
         loop[p].pc \in Outside <=> loop'[p].pc \in Outside, server' = server
  PROVE  LeaseHeld(p)' /\ lease' \in [Leases -> Loop \cup {NoLoop}] /\ KeepsOthers(p)
<1>1. LeaseHeld(p)'
  BY InvGives DEF LeaseHeld, LeaseOf
<1>2. QED  BY <1>1, InvGives DEF KeepsOthers

LEMMA LeaseReleased ==
  ASSUME AgentsInv, NEW p \in Loop, Release(p), loop[p].pc \notin Outside,
         loop'[p].pc \in Outside, server' = server
  PROVE  LeaseHeld(p)' /\ lease' \in [Leases -> Loop \cup {NoLoop}] /\ KeepsOthers(p)
<1>1. lease' = [lease EXCEPT ![LeaseOf(p)] = NoLoop] /\ lease[LeaseOf(p)] = p
  BY InvGives DEF Release, LeaseHeld
<1>2. lease \in [Leases -> Loop \cup {NoLoop}] /\ LeaseOf(p) \in Leases
  BY InvGives, LoopsApart
<1>3. /\ lease' \in [Leases -> Loop \cup {NoLoop}] /\ lease'[LeaseOf(p)] = NoLoop
      /\ \A f \in Leases : f # LeaseOf(p) => lease'[f] = lease[f]
  BY <1>1, <1>2
<1>4. LeaseHeld(p)'
  BY <1>3, LoopsApart DEF LeaseHeld, LeaseOf
<1>5. KeepsOthers(p)
  <2> SUFFICES ASSUME NEW q \in Loop \ {p}
               PROVE  lease'[LeaseOf(q)] = q <=> lease[LeaseOf(q)] = q
    BY DEF KeepsOthers
  <2>1. CASE LeaseOf(q) = LeaseOf(p)
    BY <2>1, <1>1, <1>3, LoopsApart
  <2>2. CASE LeaseOf(q) # LeaseOf(p)
    BY <2>2, <1>3, LoopsApart
  <2>3. QED  BY <2>1, <2>2
<1>6. QED  BY <1>3, <1>4, <1>5

LEMMA SamePlan ==
  ASSUME NEW p \in Loop, loop'[p].plan = loop[p].plan, loop'[p].steps = loop[p].steps
  PROVE  /\ Taken(p)' = Taken(p) /\ Steps(p)' = Steps(p) /\ LastStep(p)' = LastStep(p)
         /\ PlanIsValid(p)' <=> PlanIsValid(p)
         /\ StepsFollowPlan(p)' <=> StepsFollowPlan(p)
         /\ PlaceTells(p)' <=> Stands(p, loop'[p].pc)
<1>1. /\ Taken(p)' = Taken(p) /\ Steps(p)' = Steps(p) /\ LastStep(p)' = LastStep(p)
      /\ PlanIsValid(p)' <=> PlanIsValid(p)
  BY DEF Taken, Steps, LastStep, PlanIsValid
<1>2. StepsFollowPlan(p)' <=> StepsFollowPlan(p)
  BY <1>1 DEF StepsFollowPlan
<1>3. PlaceTells(p)' <=> Stands(p, loop'[p].pc)
  BY <1>1 DEF PlaceTells, Stands
<1>4. QED  BY <1>1, <1>2, <1>3

\* a loop may always give up
LEMMA HandlerStands ==
  ASSUME AgentsInv, NEW p \in Loop
  PROVE  Stands(p, "handler")
  BY InvGives DEF PlaceTells, Stands, Unplanned, Working

\* to another place with the same plan and steps
LEMMA Shift ==
  ASSUME AgentsInv, NEW p \in Loop, RunsNext \/ UNCHANGED runVars, UNCHANGED toolVars, lease' = lease,
         loop[p].pc \notin Outside, NEW pc \in Places \ Outside, pc # "serving",
         pc \in Running => loop[p].pc \in Running,
         NEW current \in AgentStates, Stands(p, pc),
         loop' = [loop EXCEPT ![p] = [loop[p] EXCEPT !.pc = pc, !.current = current]]
  PROVE  AgentsInv'
<1> DEFINE call == [loop[p] EXCEPT !.pc = pc, !.current = current]
<1>1. World /\ server' = server
  BY QuietWorld
<1>2. loop[p] \in Calls /\ loop[p].pc # "returned" /\ pc # "returned"
  BY InvGives DEF Outside
<1>3. /\ call \in Calls /\ call.pc = pc /\ call.current = current /\ call.run = loop[p].run
      /\ call.plan = loop[p].plan /\ call.steps = loop[p].steps
      /\ call.status = loop[p].status /\ call.safe = loop[p].safe
  BY <1>2 DEF Calls
<1> HIDE DEF call
<1>4. loop'[p] = call
  BY <1>3, InvGives, SetsCall DEF call
<1>5. LeaseHeld(p)' /\ lease' \in [Leases -> Loop \cup {NoLoop}] /\ KeepsOthers(p)
  BY <1>1, <1>3, <1>4, LeaseSame
<1>6. StepsFollowPlan(p)' /\ PlaceTells(p)'
  BY <1>3, <1>4, InvGives, SamePlan
<1>7. ResultSpeaks(p)'
  <2>1. loop[p].status = "none" /\ loop[p].safe = FALSE
    BY <1>2, InvGives DEF ResultSpeaks, Calls
  <2>2. QED  BY <1>2, <1>3, <1>4, <2>1 DEF ResultSpeaks
<1>8. RunIsStored(p)'
  BY <1>2, <1>3, <1>4, InvGives DEF RunIsStored
<1>9. p \in DiagnosisLoop => VersionsFollow(p)'
  BY <1>1, <1>3, <1>4, VersionsKept
<1>10. LoopInv(p)'
  BY <1>5, <1>6, <1>7, <1>8, <1>9 DEF LoopInv
<1>11. QED  BY <1>1, <1>3, <1>5, <1>10, OwnStep DEF call

LEMMA GotoStep ==
  ASSUME AgentsInv, NEW p \in Loop, RunsNext \/ UNCHANGED runVars, UNCHANGED toolVars, lease' = lease,
         loop[p].pc \notin Outside, NEW pc \in Places \ Outside, pc # "serving",
         pc \in Running => loop[p].pc \in Running, Stands(p, pc), Goto(p, pc)
  PROVE  AgentsInv'
<1>1. loop[p] \in Calls /\ loop[p].current \in AgentStates
  BY InvGives DEF Calls
<1>2. [loop[p] EXCEPT !.pc = pc] = [loop[p] EXCEPT !.pc = pc, !.current = loop[p].current]
  BY <1>1 DEF Calls
<1>3. loop' = [loop EXCEPT ![p] = [loop[p] EXCEPT !.pc = pc, !.current = loop[p].current]]
  BY <1>2 DEF Goto
<1>4. QED  BY <1>1, <1>3, Shift

LEMMA TransitionIsStep ==
  ASSUME NEW r \in RunId, NEW target \in AgentStates, NEW expected \in AgentStates,
         NEW plan \in Plan \cup {NoPlan}, Transition(r, target, expected, plan)
  PROVE  RunsNext
  BY DEF RunsNext

LEMMA MoveStep ==
  ASSUME AgentsInv, NEW p \in Loop, loop[p].pc \in Live, NEW target \in AgentStates,
         NEW plan \in Plan \cup {NoPlan}, NEW pc \in Live, pc # "serving", Stands(p, pc),
         Move(p, target, plan, pc)
  PROVE  AgentsInv'
<1>1. /\ loop[p].run \in RunId /\ loop[p].current \in AgentStates
      /\ loop[p].pc \notin Outside /\ loop[p].pc \in Running
  BY InvGives, LiveIsInside DEF RunIsStored, Calls
<1>2. lease' = lease /\ UNCHANGED toolVars
  BY DEF Move
<1>3. RunsNext \/ UNCHANGED runVars
  BY <1>1, TransitionIsStep DEF Move, StoreRefuses
<1>4. \/ loop' = [loop EXCEPT ![p].pc = pc, ![p].current = target]
      \/ Goto(p, "handler")
  BY DEF Move
<1>5. CASE loop' = [loop EXCEPT ![p].pc = pc, ![p].current = target]
  <2>1. loop \in [Loop -> Calls]
    BY InvGives
  <2>2. loop' = [loop EXCEPT ![p] = [loop[p] EXCEPT !.pc = pc, !.current = target]]
    BY <1>5, <2>1
  <2>3. pc \in Places \ Outside
    BY LiveIsInside
  <2>4. QED  BY <1>1, <1>2, <1>3, <2>2, <2>3, Shift
<1>6. CASE Goto(p, "handler")
  <2>1. "handler" \in Places \ Outside /\ Stands(p, "handler")
    BY HandlerStands DEF Places, Outside
  <2>2. QED  BY <1>1, <1>2, <1>3, <1>6, <2>1, GotoStep
<1>7. QED  BY <1>4, <1>5, <1>6

LEMMA GivesUp ==
  ASSUME AgentsInv, NEW p \in Loop, loop[p].pc \in Live, Goto(p, "handler"),
         RunsNext \/ UNCHANGED runVars, UNCHANGED toolVars, lease' = lease
  PROVE  AgentsInv'
<1>1. "handler" \in Places \ Outside /\ Stands(p, "handler")
  BY HandlerStands DEF Places, Outside
<1>2. loop[p].pc \notin Outside /\ loop[p].pc \in Running
  BY LiveIsInside
<1>3. QED  BY <1>1, <1>2, GotoStep

LEMMA FreshIsCall ==
  ASSUME NEW pc \in {"start", "raised", "dead"}
  PROVE  LET call == [Fresh EXCEPT !.pc = pc] IN
         /\ call \in Calls /\ call.pc = pc /\ call.plan = NoPlan /\ call.steps = <<>>
         /\ call.status = "none" /\ call.safe = FALSE
<1>1. "start" \in Places /\ pc \in Places /\ "IDLE" \in AgentStates /\ <<>> \in Seq(StepRecord)
  BY DEF Places, AgentStates
<1>2. Fresh \in Calls
  BY <1>1 DEF Fresh, Calls
<1>3. Fresh.plan = NoPlan /\ Fresh.steps = <<>> /\ Fresh.status = "none" /\ Fresh.safe = FALSE
  BY DEF Fresh
<1>4. QED  BY <1>1, <1>2, <1>3 DEF Calls

\* a call that has not begun, or is gone, has nothing to answer for
LEMMA EmptyCall ==
  ASSUME NEW p \in Loop, loop[p].pc \in {"start", "raised", "dead"}, loop[p].plan = NoPlan,
         loop[p].steps = <<>>, loop[p].status = "none", loop[p].safe = FALSE
  PROVE  /\ StepsFollowPlan(p) /\ PlaceTells(p) /\ ResultSpeaks(p) /\ RunIsStored(p)
         /\ VersionsFollow(p)
<1>1. Taken(p) = 0 /\ \A i : i \notin 1..0
  BY DEF Taken
<1>2. StepsFollowPlan(p)
  BY <1>1 DEF StepsFollowPlan
<1>3. PlaceTells(p)
  BY <1>1 DEF PlaceTells, Stands, Unplanned, Working
<1>4. ResultSpeaks(p)
  BY DEF ResultSpeaks
<1>5. RunIsStored(p)
  BY DEF RunIsStored, Running
<1>6. VersionsFollow(p)
  BY <1>1 DEF VersionsFollow
<1>7. QED  BY <1>2, <1>3, <1>4, <1>5, <1>6

LEMMA LeavesStep ==
  ASSUME AgentsInv, NEW p \in Loop, RunsNext \/ UNCHANGED runVars, UNCHANGED toolVars,
         loop[p].pc \notin Outside, NEW pc \in {"raised", "dead"}, Release(p),
         loop' = [loop EXCEPT ![p] = [Fresh EXCEPT !.pc = pc]]
  PROVE  AgentsInv'
<1> DEFINE call == [Fresh EXCEPT !.pc = pc]
<1>1. World /\ server' = server
  BY QuietWorld
<1>2. /\ call \in Calls /\ call.pc = pc /\ call.plan = NoPlan /\ call.steps = <<>>
      /\ call.status = "none" /\ call.safe = FALSE
  BY FreshIsCall
<1> HIDE DEF call
<1>3. loop'[p] = call /\ pc \in Outside
  BY <1>2, InvGives, SetsCall DEF call, Outside
<1>4. LeaseHeld(p)' /\ lease' \in [Leases -> Loop \cup {NoLoop}] /\ KeepsOthers(p)
  BY <1>1, <1>2, <1>3, LeaseReleased
<1>5. StepsFollowPlan(p)' /\ PlaceTells(p)' /\ ResultSpeaks(p)' /\ RunIsStored(p)' /\ VersionsFollow(p)'
  <2>1. /\ loop'[p].pc \in {"start", "raised", "dead"} /\ loop'[p].plan = NoPlan
        /\ loop'[p].steps = <<>> /\ loop'[p].status = "none" /\ loop'[p].safe = FALSE
    BY <1>2, <1>3
  <2>2. Taken(p)' = 0 /\ \A i : i \notin 1..0
    BY <2>1 DEF Taken
  <2>3. StepsFollowPlan(p)'
    BY <2>1, <2>2 DEF StepsFollowPlan
  <2>4. PlaceTells(p)'
    BY <2>1, <2>2 DEF PlaceTells, Stands, Unplanned, Working
  <2>5. ResultSpeaks(p)'
    BY <2>1 DEF ResultSpeaks
  <2>6. RunIsStored(p)'
    BY <2>1 DEF RunIsStored, Running
  <2>7. VersionsFollow(p)'
    BY <2>1, <2>2 DEF VersionsFollow
  <2>8. QED  BY <2>3, <2>4, <2>5, <2>6, <2>7
<1>6. LoopInv(p)'
  BY <1>4, <1>5 DEF LoopInv
<1>7. QED  BY <1>1, <1>2, <1>4, <1>6, OwnStep DEF call

LEMMA RaiseStep ==
  ASSUME AgentsInv, NEW p \in Loop, RunsNext \/ UNCHANGED runVars, UNCHANGED toolVars,
         loop[p].pc \notin Outside, Raise(p)
  PROVE  AgentsInv'
  BY LeavesStep DEF Raise

\* the row is in the state the result names
LEMMA StoredState ==
  ASSUME RunsTypeOK, NEW r \in RunId, NEW target, NEW expected, NEW plan,
         Transition(r, target, expected, plan)
  PROVE  runs'[r].state = target
  BY StatesApart DEF Transition, MayTransition, Exists, RunsTypeOK, StoredRun, NoRun

LEMMA ReturnStep ==
  ASSUME AgentsInv, NEW p \in Loop, loop[p].pc \in Live, NEW target \in TerminalStates,
         NEW status \in Statuses, NEW safe \in BOOLEAN,
         target = "SUCCEEDED" <=> status = "succeeded", safe => status = "succeeded",
         status = "succeeded" => EvidencedBy(p, safe),
         Transition(loop[p].run, target, loop[p].current, NoPlan),
         Return(p, status, target, safe), UNCHANGED toolVars
  PROVE  AgentsInv'
<1> DEFINE call == [loop[p] EXCEPT !.pc = "returned", !.status = status, !.current = target,
                                   !.safe = safe]
<1>1. /\ loop[p] \in Calls /\ loop[p].run \in RunId /\ loop[p].current \in AgentStates
      /\ loop[p].pc \notin Outside /\ target \in AgentStates
  BY InvGives, LiveIsInside, StatesApart DEF RunIsStored, Calls
<1>2. World /\ server' = server
  BY <1>1, TransitionIsStep, QuietWorld
<1>3. runs'[loop[p].run].state = target
  BY <1>1, InvGives, StoredState
<1>4. /\ call \in Calls /\ call.pc = "returned" /\ call.current = target /\ call.run = loop[p].run
      /\ call.plan = loop[p].plan /\ call.steps = loop[p].steps
      /\ call.status = status /\ call.safe = safe
  BY <1>1 DEF Calls, Places
<1>5. loop' = [loop EXCEPT ![p] = call]
  BY InvGives DEF Return
<1> HIDE DEF call
<1>6. loop'[p] = call
  BY <1>4, <1>5, InvGives, SetsCall
<1>7. LeaseHeld(p)' /\ lease' \in [Leases -> Loop \cup {NoLoop}] /\ KeepsOthers(p)
  BY <1>1, <1>2, <1>4, <1>6, LeaseReleased DEF Return, Outside
<1>8. StepsFollowPlan(p)' /\ PlaceTells(p)'
  <2>1. Stands(p, "handler")
    BY HandlerStands
  <2>2. Stands(p, "returned")
    BY <2>1 DEF Stands, Unplanned, Working
  <2>3. QED  BY <1>4, <1>6, <2>2, InvGives, SamePlan
<1>9. ResultSpeaks(p)'
  <2>1. status # "none"
    BY DEF Statuses
  <2>2. EvidencedBy(p, safe) => loop'[p].plan # NoPlan /\ Evidenced(p)'
    BY <1>4, <1>6 DEF EvidencedBy, Evidenced, Taken, Steps, LastStep
  <2>3. QED  BY <1>4, <1>6, <2>1, <2>2 DEF ResultSpeaks
<1>10. RunIsStored(p)'
  BY <1>1, <1>3, <1>4, <1>6 DEF RunIsStored
<1>11. p \in DiagnosisLoop => VersionsFollow(p)'
  BY <1>2, <1>4, <1>6, VersionsKept
<1>12. LoopInv(p)'
  BY <1>7, <1>8, <1>9, <1>10, <1>11 DEF LoopInv
<1>13. QED  BY <1>2, <1>4, <1>5, <1>7, <1>12, OwnStep

LEMMA ConcludeStep ==
  ASSUME AgentsInv, NEW p \in Loop, loop[p].pc \in Live, NEW target \in TerminalStates,
         NEW status \in Statuses, NEW safe \in BOOLEAN,
         target = "SUCCEEDED" <=> status = "succeeded", safe => status = "succeeded",
         status = "succeeded" => EvidencedBy(p, safe),
         Conclude(p, target, status, safe)
  PROVE  AgentsInv'
<1>1. loop[p].run \in RunId /\ loop[p].current \in AgentStates /\ target \in AgentStates
  BY InvGives, LiveIsInside, StatesApart DEF RunIsStored, Calls
<1>2. CASE Transition(loop[p].run, target, loop[p].current, NoPlan) /\ Return(p, status, target, safe)
  <2>1. UNCHANGED toolVars
    BY DEF Conclude
  <2>2. QED  BY <1>2, <2>1, ReturnStep
<1>3. CASE /\ Transition(loop[p].run, target, loop[p].current, NoPlan)
           /\ Goto(p, "handler") /\ UNCHANGED lease
  BY <1>1, <1>3, TransitionIsStep, GivesUp DEF Conclude
<1>4. CASE StoreRefuses(p, target, NoPlan) /\ Goto(p, "handler") /\ UNCHANGED lease
  BY <1>4, GivesUp DEF Conclude, StoreRefuses
<1>5. QED  BY <1>2, <1>3, <1>4 DEF Conclude

-----------------------------------------------------------------------------
(***************************************************************************)
(* One lemma for each action                                               *)
(***************************************************************************)
LEMMA AcquireLeaseStep ==
  ASSUME AgentsInv, NEW p \in Loop, AcquireLease(p)
  PROVE  AgentsInv'
<1>0. loop[p].pc = "start" /\ UNCHANGED runVars /\ UNCHANGED toolVars
  BY DEF AcquireLease, At
<1>1. World /\ server' = server
  BY <1>0, QuietWorld
<1>2. PICK pc \in {"recover", "raised"} :
        /\ Goto(p, pc)
        /\ pc = "recover" => /\ lease[LeaseOf(p)] = NoLoop
                             /\ lease' = [lease EXCEPT ![LeaseOf(p)] = p]
        /\ pc = "raised" => lease' = lease
  BY DEF AcquireLease
<1> DEFINE call == [loop[p] EXCEPT !.pc = pc]
<1>3. loop[p] \in Calls /\ loop[p].pc \in Outside /\ loop[p].status = "none" /\ loop[p].safe = FALSE
  BY <1>0, InvGives DEF ResultSpeaks, Calls, Outside
<1>4. /\ call \in Calls /\ call.pc = pc /\ call.plan = loop[p].plan /\ call.steps = loop[p].steps
      /\ call.status = "none" /\ call.safe = FALSE
  BY <1>3 DEF Calls, Places
<1>5. loop' = [loop EXCEPT ![p] = call]
  BY <1>2, InvGives DEF Goto
<1> HIDE DEF call
<1>6. loop'[p] = call
  BY <1>4, <1>5, InvGives, SetsCall
<1>7. LeaseHeld(p)' /\ lease' \in [Leases -> Loop \cup {NoLoop}] /\ KeepsOthers(p)
  <2>1. CASE pc = "raised"
    BY <2>1, <1>1, <1>2, <1>3, <1>4, <1>6, LeaseSame DEF Outside
  <2>2. CASE pc = "recover"
    <3>1. lease[LeaseOf(p)] = NoLoop /\ lease' = [lease EXCEPT ![LeaseOf(p)] = p]
      BY <2>2, <1>2
    <3>2. lease \in [Leases -> Loop \cup {NoLoop}] /\ LeaseOf(p) \in Leases
      BY InvGives, LoopsApart
    <3>3. /\ lease' \in [Leases -> Loop \cup {NoLoop}] /\ lease'[LeaseOf(p)] = p
          /\ \A f \in Leases : f # LeaseOf(p) => lease'[f] = lease[f]
      BY <3>1, <3>2
    <3>4. LeaseHeld(p)'
      BY <2>2, <1>4, <1>6, <3>3 DEF LeaseHeld, LeaseOf, Outside
    <3>5. ASSUME NEW q \in Loop \ {p}  PROVE lease'[LeaseOf(q)] = q <=> lease[LeaseOf(q)] = q
      <4>1. CASE LeaseOf(q) = LeaseOf(p)
        BY <4>1, <3>1, <3>3, LoopsApart
      <4>2. CASE LeaseOf(q) # LeaseOf(p)
        BY <4>2, <3>3, LoopsApart
      <4>3. QED  BY <4>1, <4>2
    <3>6. QED  BY <3>3, <3>4, <3>5, <1>1 DEF KeepsOthers
  <2>3. QED  BY <2>1, <2>2
<1>8. StepsFollowPlan(p)' /\ PlaceTells(p)'
  <2>1. Stands(p, "start") /\ "start" \in Unplanned
    BY <1>0, InvGives DEF PlaceTells, Unplanned
  <2>2. Stands(p, pc)
    BY <2>1 DEF Stands, Unplanned, Working
  <2>3. QED  BY <1>4, <1>6, <2>2, InvGives, SamePlan
<1>9. ResultSpeaks(p)' /\ RunIsStored(p)'
  BY <1>4, <1>6 DEF ResultSpeaks, RunIsStored, Running
<1>10. p \in DiagnosisLoop => VersionsFollow(p)'
  BY <1>1, <1>4, <1>6, VersionsKept
<1>11. LoopInv(p)'
  BY <1>7, <1>8, <1>9, <1>10 DEF LoopInv
<1>12. QED  BY <1>1, <1>4, <1>5, <1>7, <1>11, OwnStep

LEMMA RecoverStep ==
  ASSUME AgentsInv, NEW p \in Loop, RecoverUnfinishedRuns(p)
  PROVE  AgentsInv'
<1>1. /\ loop[p].pc = "recover" /\ Goto(p, "create") /\ lease' = lease /\ UNCHANGED toolVars
      /\ RunsNext \/ UNCHANGED runVars
  BY DEF RecoverUnfinishedRuns, At, RunsNext
<1>2. Stands(p, "create")
  <2>1. Stands(p, "recover")
    BY <1>1, InvGives DEF PlaceTells
  <2>2. QED  BY <2>1 DEF Stands, Unplanned, Working
<1>3. /\ "create" \in Places \ Outside /\ "create" \notin Running
      /\ "recover" \notin Outside
  BY DEF Places, Outside, Running
<1>4. QED  BY <1>1, <1>2, <1>3, GotoStep

LEMMA OpenRunStep ==
  ASSUME AgentsInv, NEW p \in Loop, NEW r \in RunId, NEW t \in TraceId, OpenRun(p, r, t)
  PROVE  AgentsInv'
<1>1. /\ loop[p].pc = "create" /\ UNCHANGED toolVars /\ loop[p].pc \notin Outside
      /\ RunsNext \/ UNCHANGED runVars
  BY DEF OpenRun, At, Outside, RunsNext
<1>2. CASE Raise(p)
  BY <1>1, <1>2, RaiseStep
<1>3. CASE loop' = [loop EXCEPT ![p].pc = "retrieve", ![p].run = r] /\ UNCHANGED lease
  <2> DEFINE call == [loop[p] EXCEPT !.pc = "retrieve", !.run = r]
  <2>1. World /\ server' = server
    BY <1>1, QuietWorld
  <2>2. loop[p] \in Calls /\ loop[p].status = "none" /\ loop[p].safe = FALSE
    BY <1>1, InvGives DEF ResultSpeaks, Calls
  <2>3. /\ call \in Calls /\ call.pc = "retrieve" /\ call.run = r
        /\ call.plan = loop[p].plan /\ call.steps = loop[p].steps
        /\ call.status = "none" /\ call.safe = FALSE
    BY <2>2 DEF Calls, Places
  <2>4. loop' = [loop EXCEPT ![p] = call]
    BY <1>3, InvGives
  <2> HIDE DEF call
  <2>5. loop'[p] = call
    BY <2>3, <2>4, InvGives, SetsCall
  <2>6. LeaseHeld(p)' /\ lease' \in [Leases -> Loop \cup {NoLoop}] /\ KeepsOthers(p)
    BY <1>1, <1>3, <2>1, <2>3, <2>5, LeaseSame DEF Outside
  <2>7. StepsFollowPlan(p)' /\ PlaceTells(p)'
    <3>1. Stands(p, "create")
      BY <1>1, InvGives DEF PlaceTells
    <3>2. Stands(p, "retrieve")
      BY <3>1 DEF Stands, Unplanned, Working
    <3>3. QED  BY <2>3, <2>5, <3>2, InvGives, SamePlan
  <2>8. ResultSpeaks(p)' /\ RunIsStored(p)'
    BY <2>3, <2>5 DEF ResultSpeaks, RunIsStored
  <2>9. p \in DiagnosisLoop => VersionsFollow(p)'
    BY <2>1, <2>3, <2>5, VersionsKept
  <2>10. LoopInv(p)'
    BY <2>6, <2>7, <2>8, <2>9 DEF LoopInv
  <2>11. QED  BY <2>1, <2>3, <2>4, <2>6, <2>10, OwnStep
<1>4. QED  BY <1>2, <1>3 DEF OpenRun

LEMMA EnterStep ==
  ASSUME AgentsInv, NEW p \in Loop, EnterRetrieving(p) \/ EnterPlanning(p) \/ EnterValidating(p)
  PROVE  AgentsInv'
<1>1. NoPlan \in Plan \cup {NoPlan} /\ {"RETRIEVING", "PLANNING", "VALIDATING"} \subseteq AgentStates
      /\ {"retrieve", "resolve", "plan", "validate", "check"} \subseteq Live
  BY DEF AgentStates, Live, Running
<1>2. Stands(p, loop[p].pc)
  BY InvGives DEF PlaceTells
<1>3. CASE EnterRetrieving(p)
  <2>1. loop[p].pc = "retrieve" /\ Move(p, "RETRIEVING", NoPlan, "resolve")
    BY <1>3 DEF EnterRetrieving, At
  <2>2. Stands(p, "resolve")
    BY <1>2, <2>1 DEF Stands, Unplanned, Working
  <2>3. QED  BY <1>1, <2>1, <2>2, MoveStep
<1>4. CASE EnterPlanning(p)
  <2>1. loop[p].pc = "resolve" /\ Move(p, "PLANNING", NoPlan, "plan")
    BY <1>4 DEF EnterPlanning, At
  <2>2. Stands(p, "plan")
    BY <1>2, <2>1 DEF Stands, Unplanned, Working
  <2>3. QED  BY <1>1, <2>1, <2>2, MoveStep
<1>5. CASE EnterValidating(p)
  <2>1. loop[p].pc = "validate" /\ Move(p, "VALIDATING", loop[p].plan, "check")
    BY <1>5 DEF EnterValidating, At
  <2>2. Stands(p, "check")
    BY <1>2, <2>1 DEF Stands, Unplanned, Working
  <2>3. loop[p].plan \in Plan \cup {NoPlan}
    BY InvGives DEF Calls
  <2>4. QED  BY <1>1, <2>1, <2>2, <2>3, MoveStep
<1>6. QED  BY <1>3, <1>4, <1>5

LEMMA PlanHasSteps ==
  ASSUME NEW plan \in Plan
  PROVE  /\ plan # NoPlan /\ plan.steps \in Seq(STRING) /\ Len(plan.steps) \in Nat
         /\ Len(plan.steps) > 0
         /\ \A i \in 1..Len(plan.steps) : plan.steps[i] \in STRING
<1>1. plan.steps \in Seq(STRING) /\ plan.steps # <<>>
  BY PlanAssumption
<1>2. QED  BY <1>1, NoPlanAssumption, LenProperties, EmptySeq

LEMMA PlannedStep ==
  ASSUME AgentsInv, NEW p \in Loop, NEW plan \in Plan, Planned(p, plan)
  PROVE  AgentsInv'
<1> DEFINE call == [loop[p] EXCEPT !.pc = "validate", !.plan = plan]
<1>1. /\ loop[p].pc = "plan" /\ lease' = lease /\ UNCHANGED toolVars /\ UNCHANGED runVars
      /\ loop' = [loop EXCEPT ![p] = call]
  BY InvGives DEF Planned, At
<1>2. World /\ server' = server
  BY <1>1, QuietWorld
<1>3. /\ loop[p] \in Calls /\ loop[p].status = "none" /\ loop[p].safe = FALSE
      /\ loop[p].run \in RunId /\ loop[p].plan = NoPlan /\ loop[p].steps = <<>>
  BY <1>1, InvGives
     DEF ResultSpeaks, RunIsStored, Running, PlaceTells, Stands, Unplanned, StepsFollowPlan, Calls
<1>4. /\ call \in Calls /\ call.pc = "validate" /\ call.run \in RunId
      /\ call.plan = plan /\ call.steps = <<>> /\ call.status = "none" /\ call.safe = FALSE
  BY <1>3 DEF Calls, Places
<1> HIDE DEF call
<1>5. loop'[p] = call
  BY <1>1, <1>4, InvGives, SetsCall
<1>6. LeaseHeld(p)' /\ lease' \in [Leases -> Loop \cup {NoLoop}] /\ KeepsOthers(p)
  BY <1>1, <1>2, <1>4, <1>5, LeaseSame DEF Outside
<1>7. Taken(p)' = 0 /\ \A i : i \notin 1..0
  BY <1>4, <1>5 DEF Taken
<1>8. StepsFollowPlan(p)'
  <2>1. Steps(p)' \in Nat /\ plan # NoPlan
    BY <1>4, <1>5, PlanHasSteps DEF Steps
  <2>2. QED  BY <1>4, <1>5, <1>7, <2>1 DEF StepsFollowPlan
<1>9. PlaceTells(p)'
  BY <1>4, <1>5, PlanHasSteps DEF PlaceTells, Stands, Unplanned, Working
<1>10. ResultSpeaks(p)' /\ RunIsStored(p)'
  BY <1>4, <1>5 DEF ResultSpeaks, RunIsStored
<1>11. VersionsFollow(p)'
  BY <1>4, <1>5, <1>7 DEF VersionsFollow
<1>12. LoopInv(p)'
  BY <1>6, <1>8, <1>9, <1>10, <1>11 DEF LoopInv
<1>13. QED  BY <1>1, <1>2, <1>4, <1>6, <1>12, OwnStep

LEMMA NotPlannedStep ==
  ASSUME AgentsInv, NEW p \in Loop, NotPlanned(p)
  PROVE  AgentsInv'
<1>1. loop[p].pc \in Live
  BY DEF NotPlanned, At, Live, Running
<1>2. /\ {"ABORTED", "FAILED"} \subseteq TerminalStates
      /\ {"clarification_required", "refused", "failed"} \subseteq Statuses
      /\ "ABORTED" # "SUCCEEDED" /\ "FAILED" # "SUCCEEDED"
  BY DEF TerminalStates, Statuses
<1>3. CASE Conclude(p, "ABORTED", "clarification_required", FALSE)
  BY <1>1, <1>2, <1>3, ConcludeStep
<1>4. CASE Conclude(p, "ABORTED", "refused", FALSE)
  BY <1>1, <1>2, <1>4, ConcludeStep
<1>5. CASE Conclude(p, "FAILED", "failed", FALSE)
  BY <1>1, <1>2, <1>5, ConcludeStep
<1>6. QED  BY <1>3, <1>4, <1>5 DEF NotPlanned

LEMMA EnterExecutingStep ==
  ASSUME AgentsInv, NEW p \in Loop, EnterExecuting(p)
  PROVE  AgentsInv'
<1>1. loop[p].pc = "check" /\ loop[p].pc \in Live
  BY DEF EnterExecuting, At, Live, Running
<1>2. CASE PlanIsValid(p) /\ Move(p, "EXECUTING", NoPlan, "step")
  <2>1. Stands(p, "check") /\ loop[p].plan \in Plan /\ loop[p].steps = <<>>
    BY <1>1, InvGives DEF PlaceTells, Stands, Calls
  <2>2. Taken(p) = 0 /\ Taken(p) < Steps(p) /\ \A i : i \notin 1..0
    BY <2>1, PlanHasSteps DEF Taken, Steps
  <2>3. Stands(p, "step")
    BY <1>2, <2>1, <2>2, PlanHasSteps DEF Stands, Unplanned
  <2>4. NoPlan \in Plan \cup {NoPlan} /\ "EXECUTING" \in AgentStates /\ "step" \in Live
    BY DEF AgentStates, Live, Running
  <2>5. QED  BY <1>1, <1>2, <2>3, <2>4, MoveStep
<1>3. CASE ~ PlanIsValid(p) /\ Goto(p, "handler") /\ UNCHANGED <<lease, runVars, toolVars>>
  BY <1>1, <1>3, GivesUp
<1>4. QED  BY <1>2, <1>3 DEF EnterExecuting

-----------------------------------------------------------------------------
(***************************************************************************)
(* A step is taken: what it must bring for the invariant to hold of it     *)
(***************************************************************************)
NextFollows(p, gate, sources, content) ==
  LET steps == loop[p].steps
      named == [sources |-> sources, content |-> content] IN
  /\ content <= data
  /\ Taken(p) = 2 => sources <= content /\ (gate => sources = steps[2].sources)
  /\ Taken(p) = 4 =>
       /\ steps[3].content <= sources
       /\ gate => sources = steps[3].sources /\ content = steps[3].content
       /\ named \in Analysis /\ BundleFile \in written[named]

LEMMA PlaceOfStep ==
  ASSUME AgentsInv, NEW p \in Loop, loop[p].pc \in {"step", "serving"}
  PROVE  /\ loop[p] \in Calls /\ loop[p].plan \in Plan /\ loop[p].steps \in Seq(StepRecord)
         /\ Taken(p) \in Nat /\ Steps(p) \in Nat /\ Taken(p) < Steps(p) /\ PlanIsValid(p)
         /\ \A i \in 1..Taken(p) :
              /\ loop[p].steps[i] \in StepRecord /\ loop[p].steps[i].succeeded /\ loop[p].steps[i].gate
              /\ loop[p].steps[i].tool = loop[p].plan.steps[i]
         /\ NextTool(p) \in STRING /\ loop[p].pc \in Live
         /\ loop[p].run \in RunId /\ loop[p].status = "none" /\ loop[p].safe = FALSE
<1>1. /\ loop[p] \in Calls /\ loop[p].steps \in Seq(StepRecord) /\ PlaceTells(p)
      /\ StepsFollowPlan(p) /\ ResultSpeaks(p) /\ RunIsStored(p)
  BY InvGives DEF Calls
<1>2. loop[p].pc \in Live /\ loop[p].pc \in Working
  BY DEF Live, Running, Working
<1>3. /\ loop[p].plan \in Plan /\ loop[p].plan # NoPlan /\ PlanIsValid(p) /\ Taken(p) < Steps(p)
      /\ \A i \in 1..Taken(p) : loop[p].steps[i].succeeded /\ loop[p].steps[i].gate
  BY <1>1, <1>2 DEF PlaceTells, Stands, Calls
<1>4. /\ Taken(p) \in Nat /\ Steps(p) \in Nat
      /\ \A i \in 1..Taken(p) : loop[p].steps[i] \in StepRecord
  BY <1>1, <1>3, LenProperties, PlanHasSteps DEF Taken, Steps
<1>5. NextTool(p) \in STRING
  <2>1. Taken(p) + 1 \in 1..Steps(p)
    BY <1>3, <1>4
  <2>2. QED  BY <1>3, <2>1, PlanHasSteps DEF NextTool, Taken, Steps
<1>6. \A i \in 1..Taken(p) : loop[p].steps[i].tool = loop[p].plan.steps[i]
  BY <1>1, <1>3 DEF StepsFollowPlan
<1>7. loop[p].run \in RunId
  BY <1>1, <1>2, LiveIsInside DEF RunIsStored
<1>8. loop[p].status = "none" /\ loop[p].safe = FALSE
  <2>1. loop[p].pc # "returned" /\ loop[p].safe \in BOOLEAN
    BY <1>1 DEF Calls
  <2>2. QED  BY <1>1, <2>1 DEF ResultSpeaks
<1>9. QED  BY <1>1, <1>2, <1>3, <1>4, <1>5, <1>6, <1>7, <1>8

LEMMA StepTaken ==
  ASSUME AgentsInv, NEW p \in Loop, loop[p].pc \in {"step", "serving"}, World, lease' = lease,
         \A q \in DiagnosisLoop \ {p} : server'[q] = server[q],
         NEW succeeded \in BOOLEAN, NEW gate \in BOOLEAN,
         NEW sources \in 0..MaxVersion, NEW content \in 0..MaxVersion,
         StepDone(p, succeeded, gate, sources, content),
         p \in DiagnosisLoop => NextFollows(p, gate, sources, content)
  PROVE  AgentsInv'
<1> DEFINE n == Taken(p) + 1
           step == [tool |-> NextTool(p), succeeded |-> succeeded, gate |-> gate,
                    sources |-> sources, content |-> content]
           old == loop[p].steps
           new == Append(old, step)
           call == [loop[p] EXCEPT !.pc = "judge", !.steps = new]
<1>1. /\ loop[p] \in Calls /\ loop[p].plan \in Plan /\ old \in Seq(StepRecord)
      /\ Taken(p) \in Nat /\ Steps(p) \in Nat /\ Taken(p) < Steps(p) /\ PlanIsValid(p)
      /\ \A i \in 1..Taken(p) : /\ old[i] \in StepRecord /\ old[i].succeeded /\ old[i].gate
                                /\ old[i].tool = loop[p].plan.steps[i]
      /\ NextTool(p) \in STRING /\ loop[p].pc \in Live
      /\ loop[p].run \in RunId /\ loop[p].status = "none" /\ loop[p].safe = FALSE
  BY PlaceOfStep
<1>2. /\ step \in StepRecord /\ step.tool = loop[p].plan.steps[n] /\ step.gate = gate
      /\ step.sources = sources /\ step.content = content
  BY <1>1 DEF StepRecord, NextTool, Taken
<1>3. loop' = [loop EXCEPT ![p] = call]
  BY InvGives DEF StepDone
<1> HIDE DEF step
<1>4. /\ new \in Seq(StepRecord) /\ Len(new) = n /\ new[n] = step
      /\ \A i \in 1..Taken(p) : new[i] = old[i]
  BY <1>1, <1>2, AppendProperties DEF Taken
<1> HIDE DEF new
<1>5. /\ call \in Calls /\ call.pc = "judge" /\ call.plan = loop[p].plan /\ call.steps = new
      /\ call.run = loop[p].run /\ call.status = "none" /\ call.safe = FALSE
  BY <1>1, <1>4 DEF Calls, Places
<1> HIDE DEF call
<1>6. loop'[p] = call
  BY <1>3, <1>5, InvGives, SetsCall
<1>7. LeaseHeld(p)' /\ KeepsOthers(p) /\ lease' \in [Leases -> Loop \cup {NoLoop}]
  <2>1. loop[p].pc \notin Outside /\ loop'[p].pc \notin Outside
    BY <1>1, <1>5, <1>6 DEF Outside
  <2>2. LeaseHeld(p)'
    BY <2>1, InvGives DEF LeaseHeld, LeaseOf
  <2>3. QED  BY <2>2, InvGives DEF KeepsOthers
<1>8. /\ Taken(p)' = n /\ Steps(p)' = Steps(p) /\ (PlanIsValid(p)' <=> PlanIsValid(p))
  BY <1>4, <1>5, <1>6 DEF Taken, Steps, PlanIsValid
<1>9. \A i \in 1..n : i \in 1..Taken(p) \/ i = n
  BY <1>1
<1>10. \A i \in 1..n : i < n => i \in 1..Taken(p)
  BY <1>1
<1>11. StepsFollowPlan(p)'
  <2>1. n <= Steps(p) /\ n > 0 /\ loop[p].plan # NoPlan
    BY <1>1, PlanHasSteps
  <2>2. \A i \in 1..n : new[i].tool = loop[p].plan.steps[i]
    BY <1>1, <1>2, <1>4, <1>9
  <2>3. \A i \in 1..n : i < n => new[i].succeeded /\ new[i].gate
    BY <1>1, <1>4, <1>10
  <2> HIDE DEF n
  <2>4. QED  BY <1>5, <1>6, <1>8, <2>1, <2>2, <2>3 DEF StepsFollowPlan
<1>12. PlaceTells(p)'
  <2>1. n > 0 /\ loop[p].plan # NoPlan
    BY <1>1, PlanHasSteps
  <2> HIDE DEF n
  <2>2. QED  BY <1>1, <1>5, <1>6, <1>8, <2>1 DEF PlaceTells, Stands, Unplanned, Working
<1>13. ResultSpeaks(p)' /\ RunIsStored(p)'
  BY <1>1, <1>5, <1>6 DEF ResultSpeaks, RunIsStored
<1>14. ASSUME p \in DiagnosisLoop  PROVE VersionsFollow(p)'
  <2> DEFINE named == [sources |-> new[5].sources, content |-> new[5].content]
             known == [sources |-> old[5].sources, content |-> old[5].content]
             names == [sources |-> sources, content |-> content]
  <2>1. /\ NextFollows(p, gate, sources, content) /\ VersionsFollow(p) /\ data <= data'
        /\ data \in Nat /\ data' \in Nat /\ sources \in Nat /\ content \in Nat
    BY <1>14, InvGives, ToolsTypeIs, MaxVersionAssumption DEF World, ToolsGrow, ToolsInv, ToolsTypeOK
  <2>2. \A i \in 1..Taken(p) : old[i].content <= data /\ old[i].content \in Nat
    <3>1. \A i \in 1..Taken(p) : old[i].content <= data
      BY <2>1 DEF VersionsFollow
    <3>2. \A s \in StepRecord : s.content \in Nat
      BY MaxVersionAssumption DEF StepRecord
    <3>3. QED  BY <1>1, <3>1, <3>2
  <2>3. content <= data
    BY <2>1 DEF NextFollows
  <2>4. \A i \in 1..n : new[i].content <= data'
    <3>1. \A i \in 1..Taken(p) : new[i].content <= data'
      BY <1>4, <2>1, <2>2
    <3>2. new[n].content <= data'
      BY <1>2, <1>4, <2>1, <2>3
    <3>3. QED  BY <1>9, <3>1, <3>2
  <2>5. n >= 3 => /\ new[3].sources <= new[3].content
                  /\ new[3].gate => new[3].sources = new[2].sources
    <3>1. CASE Taken(p) >= 3
      <4>1. 2 \in 1..Taken(p) /\ 3 \in 1..Taken(p)
        BY <1>1, <3>1
      <4>2. QED  BY <1>4, <2>1, <3>1, <4>1 DEF VersionsFollow
    <3>2. CASE Taken(p) = 2
      <4>1. n = 3 /\ 2 \in 1..Taken(p)
        BY <3>2
      <4>2. new[3] = step /\ new[2] = old[2]
        BY <1>4, <4>1
      <4>3. QED  BY <1>2, <2>1, <3>2, <4>2 DEF NextFollows
    <3>3. QED  BY <1>1, <3>1, <3>2
  <2>6. n >= 5 => /\ new[3].content <= new[5].sources
                  /\ new[5].gate => new[5].sources = new[3].sources /\ new[5].content = new[3].content
                  /\ named \in Analysis /\ BundleFile \in written'[named]
    <3>1. CASE Taken(p) >= 5
      <4>1. 5 \in 1..Taken(p) /\ 3 \in 1..Taken(p)
        BY <1>1, <3>1
      <4>2. new[5] = old[5] /\ new[3] = old[3] /\ named = known
        BY <1>4, <4>1
      <4>3. /\ old[3].content <= old[5].sources
            /\ old[5].gate => old[5].sources = old[3].sources /\ old[5].content = old[3].content
            /\ known \in Analysis /\ BundleFile \in written[known]
        BY <2>1, <3>1 DEF VersionsFollow
      <4> HIDE DEF named, known
      <4>4. QED  BY <4>2, <4>3 DEF World, ToolsGrow
    <3>2. CASE Taken(p) = 4
      <4>1. n = 5 /\ 3 \in 1..Taken(p)
        BY <3>2
      <4>2. new[5] = step /\ new[3] = old[3]
        BY <1>4, <4>1
      <4>3. named = names
        BY <4>2, <1>2
      <4>4. /\ old[3].content <= sources
            /\ gate => sources = old[3].sources /\ content = old[3].content
            /\ names \in Analysis /\ BundleFile \in written[names]
        BY <2>1, <3>2 DEF NextFollows
      <4> HIDE DEF named, names
      <4>5. QED  BY <1>2, <4>2, <4>3, <4>4 DEF World, ToolsGrow
    <3>3. QED  BY <1>1, <3>1, <3>2
  <2> HIDE DEF n
  <2>7. QED  BY <1>5, <1>6, <1>8, <2>4, <2>5, <2>6 DEF VersionsFollow
<1>15. LoopInv(p)'
  BY <1>7, <1>11, <1>12, <1>13, <1>14 DEF LoopInv
<1>16. QED  BY <1>3, <1>5, <1>7, <1>15, OwnStep

LEMMA StepIs ==
  ASSUME NEW p
  PROVE  /\ StepOf(p, "inspect_experiment_run") = loop[p].steps[2]
         /\ StepOf(p, "analyze_experiment_run") = loop[p].steps[3]
         /\ StepOf(p, "materialize_diagnosis_report") = loop[p].steps[5]
<1> DEFINE place(tool) == CHOOSE i \in 1..Len(ToolOrder) : ToolOrder[i] = tool
<1>1. /\ \A i \in 1..Len(ToolOrder) : ToolOrder[i] = "inspect_experiment_run" <=> i = 2
      /\ \A i \in 1..Len(ToolOrder) : ToolOrder[i] = "analyze_experiment_run" <=> i = 3
      /\ \A i \in 1..Len(ToolOrder) : ToolOrder[i] = "materialize_diagnosis_report" <=> i = 5
      /\ 2 \in 1..Len(ToolOrder) /\ 3 \in 1..Len(ToolOrder) /\ 5 \in 1..Len(ToolOrder)
  BY TheToolOrder
<1>2. place("inspect_experiment_run") = 2
  BY <1>1
<1>3. place("analyze_experiment_run") = 3
  BY <1>1
<1>4. place("materialize_diagnosis_report") = 5
  BY <1>1
<1>5. QED  BY <1>2, <1>3, <1>4 DEF StepOf

\* a diagnosis plan is the tools in their order
LEMMA DiagnosisPlan ==
  ASSUME AgentsInv, NEW p \in DiagnosisLoop, loop[p].pc \in {"step", "serving"}
  PROVE  /\ p \in Loop /\ p \in Server /\ Taken(p) < 5 /\ Taken(p) \in Nat
         /\ NextTool(p) = ToolOrder[Taken(p) + 1] /\ NextTool(p) # "none"
         /\ Taken(p) = 2 <=> NextTool(p) = "analyze_experiment_run"
         /\ Taken(p) = 4 <=> NextTool(p) = "materialize_diagnosis_report"
<1>1. p \in Loop /\ p \in Server /\ p \notin ReadOnlyLoop
  BY LoopsApart
<1>2. Taken(p) \in Nat /\ Steps(p) \in Nat /\ Taken(p) < Steps(p) /\ PlanIsValid(p)
  BY <1>1, PlaceOfStep
<1>3. loop[p].plan.steps = ToolOrder
  BY <1>1, <1>2 DEF PlanIsValid
<1>4. Taken(p) < 5 /\ NextTool(p) = ToolOrder[Taken(p) + 1]
  BY <1>2, <1>3, TheToolOrder DEF Steps, NextTool, Taken
<1>5. Taken(p) \in {0, 1, 2, 3, 4}
  BY <1>2, <1>4
<1>6. QED  BY <1>1, <1>2, <1>4, <1>5, TheToolOrder

LEMMA ExecuteSkillStep ==
  ASSUME AgentsInv, NEW p \in Loop, NEW succeeded \in BOOLEAN, NEW favourable \in BOOLEAN,
         ExecuteSkill(p, succeeded, favourable)
  PROVE  AgentsInv'
<1> DEFINE gate == favourable /\ NextTool(p) \in EvidenceSkills
<1>1. /\ p \notin DiagnosisLoop /\ loop[p].pc = "step" /\ lease' = lease
      /\ UNCHANGED runVars /\ UNCHANGED toolVars /\ StepDone(p, succeeded, gate, 0, 0)
  BY LoopsApart DEF ExecuteSkill, At
<1>2. gate \in BOOLEAN
  OBVIOUS
<1>3. World /\ server' = server /\ 0 \in 0..MaxVersion
  BY <1>1, QuietWorld, MaxVersionAssumption
<1> HIDE DEF gate
<1>4. QED  BY <1>1, <1>2, <1>3, StepTaken

LEMMA CallToolStep ==
  ASSUME AgentsInv, NEW p \in DiagnosisLoop, NEW answer, CallTool(p, answer)
  PROVE  AgentsInv'
<1> DEFINE gate == EvidenceGate(p, NextTool(p), answer)
<1>1. /\ loop[p].pc = "step" /\ lease' = lease /\ UNCHANGED runVars /\ UNCHANGED toolVars
      /\ StepDone(p, TRUE, gate, answer.sources, answer.content)
      /\ Reads(NextTool(p), loop[p].plan.padded, answer)
  BY DEF CallTool, At
<1>2. gate \in BOOLEAN
  BY DEF EvidenceGate
<1>3. World /\ server' = server
  BY <1>1, QuietWorld
<1>4. data \in 1..MaxVersion /\ MaxVersion \in Nat
  BY InvGives, MaxVersionAssumption DEF ToolsTypeOK
<1>5. answer.content = 0 /\ answer.sources \in 0..MaxVersion /\ 0 \in 0..MaxVersion /\ 0 <= data
  BY <1>1, <1>4 DEF Reads
<1>6. p \in Loop /\ Taken(p) # 2 /\ Taken(p) # 4
  BY <1>1, DiagnosisPlan DEF Reads
<1>7. NextFollows(p, gate, answer.sources, 0)
  BY <1>5, <1>6 DEF NextFollows
<1> HIDE DEF gate
<1>8. StepDone(p, TRUE, gate, answer.sources, 0)
  BY <1>1, <1>5
<1>9. QED  BY <1>1, <1>2, <1>3, <1>5, <1>6, <1>7, <1>8, StepTaken

LEMMA ServerAnswersStep ==
  ASSUME AgentsInv, NEW p \in DiagnosisLoop, ServerAnswers(p)
  PROVE  AgentsInv'
<1> DEFINE answer == AnswerOf(p, loop[p].plan.padded)
           gate == EvidenceGate(p, NextTool(p), answer)
           sources == server[p].sources
           content == server[p].content
           steps == loop[p].steps
           named == [sources |-> sources, content |-> content]
<1>1. /\ loop[p].pc = "serving" /\ lease' = lease /\ UNCHANGED runVars /\ Exits(p) /\ Finished(p)
      /\ StepDone(p, TRUE, gate, answer.sources, answer.content)
  BY DEF ServerAnswers, At
<1>2. answer.sources = sources /\ answer.content = content
  BY DEF AnswerOf
<1>3. /\ p \in Loop /\ p \in Server /\ Taken(p) \in Nat /\ NextTool(p) # "none"
      /\ Taken(p) = 2 <=> NextTool(p) = "analyze_experiment_run"
      /\ Taken(p) = 4 <=> NextTool(p) = "materialize_diagnosis_report"
  BY <1>1, DiagnosisPlan
<1>4. ToolsInv' /\ ToolsGrow /\ \A o \in Server \ {p} : server'[o] = server[o]
  BY <1>1, <1>3, InvGives, ExitsStep
<1>5. World
  BY <1>1, <1>4, InvGives, StoreStep DEF World
<1>6. /\ server[p].job = NextTool(p) /\ \A i \in 1..Taken(p) : steps[i].content <= sources
  BY <1>1, InvGives, <1>3 DEF VersionsFollow
<1>7. server[p] \in Jobs
  BY <1>3, <1>6, InvGives, ToolsTypeIs, OffIsIdle
<1>8. /\ sources \in 1..MaxVersion /\ content \in 1..MaxVersion /\ MaxVersion \in Nat
      /\ sources \in 0..MaxVersion /\ content \in 0..MaxVersion
  BY <1>1, <1>7, MaxVersionAssumption DEF Jobs, Finished
<1>9. ServerFollows(p)
  BY <1>3, InvGives DEF ToolsInv
<1>10. content <= data /\ sources <= content
  BY <1>3, <1>6, <1>8, <1>9 DEF ServerFollows
<1>11. gate \in BOOLEAN
  BY DEF EvidenceGate
<1>12. Taken(p) = 2 => (gate => sources = steps[2].sources)
  BY <1>2, <1>3, StepIs DEF EvidenceGate
<1>13. Taken(p) = 4 =>
         /\ steps[3].content <= sources
         /\ gate => sources = steps[3].sources /\ content = steps[3].content
  <2>1. Taken(p) = 4 => 3 \in 1..Taken(p)
    BY <1>3
  <2>2. QED  BY <1>2, <1>3, <1>6, <2>1, StepIs DEF EvidenceGate
<1>14. Taken(p) = 4 => named \in Analysis /\ BundleFile \in written[named]
  <2>1. ASSUME Taken(p) = 4  PROVE BundleFile \in written[named]
    <3>1. server[p].files = Len(WriteOrder)
      BY <2>1, <1>1, <1>3, <1>6 DEF Finished
    <3>2. 6 \in 1..server[p].files
      BY <3>1, TheWriteOrder
    <3>3. WriteOrder[6] \in written[Directory(p)]
      BY <1>3, <1>6, <1>8, <1>9, <3>2 DEF ServerFollows
    <3>4. QED  BY <3>3, TheWriteOrder DEF Directory
  <2>2. named \in Analysis
    BY <1>8 DEF Analysis
  <2>3. QED  BY <2>1, <2>2
<1>15. NextFollows(p, gate, sources, content)
  BY <1>10, <1>12, <1>13, <1>14 DEF NextFollows
<1>16. StepDone(p, TRUE, gate, sources, content)
  BY <1>1, <1>2
<1>17. \A q \in DiagnosisLoop \ {p} : server'[q] = server[q]
  BY <1>4, LoopsApart
<1> HIDE DEF gate, sources, content, answer
<1>18. QED  BY <1>1, <1>3, <1>5, <1>8, <1>11, <1>15, <1>16, <1>17, StepTaken

LEMMA CallServerStep ==
  ASSUME AgentsInv, NEW p \in DiagnosisLoop, CallServer(p)
  PROVE  AgentsInv'
<1> DEFINE call == [loop[p] EXCEPT !.pc = "serving"]
<1>1. /\ loop[p].pc = "step" /\ lease' = lease /\ UNCHANGED runVars
      /\ Verify(p, NextTool(p)) /\ Goto(p, "serving")
  BY DEF CallServer, At
<1>2. p \in Loop /\ p \in Server /\ loop[p].pc \in {"step", "serving"}
  BY <1>1, LoopsApart
<1>3. /\ ToolsInv' /\ ToolsGrow /\ \A o \in Server \ {p} : server'[o] = server[o]
      /\ server'[p].job = NextTool(p) /\ server'[p].sources = data
  BY <1>1, <1>2, InvGives, VerifyStep
<1>4. World
  BY <1>1, <1>3, InvGives, StoreStep DEF World
<1>5. loop[p] \in Calls /\ loop[p].run \in RunId /\ loop[p].status = "none" /\ loop[p].safe = FALSE
  BY <1>2, PlaceOfStep
<1>6. /\ call \in Calls /\ call.pc = "serving" /\ call.run = loop[p].run /\ call.plan = loop[p].plan
      /\ call.steps = loop[p].steps /\ call.status = "none" /\ call.safe = FALSE
  BY <1>5 DEF Calls, Places
<1>7. loop' = [loop EXCEPT ![p] = call]
  BY <1>1, InvGives DEF Goto
<1> HIDE DEF call
<1>8. loop'[p] = call
  BY <1>2, <1>6, <1>7, InvGives, SetsCall
<1>9. LeaseHeld(p)' /\ KeepsOthers(p) /\ lease' \in [Leases -> Loop \cup {NoLoop}]
  <2>1. loop[p].pc \notin Outside /\ loop'[p].pc \notin Outside
    BY <1>1, <1>6, <1>8 DEF Outside
  <2>2. LeaseHeld(p)'
    BY <1>1, <1>2, <2>1, InvGives DEF LeaseHeld, LeaseOf
  <2>3. QED  BY <1>1, <1>3, <2>2, InvGives, LoopsApart DEF KeepsOthers
<1>10. StepsFollowPlan(p)' /\ PlaceTells(p)'
  <2>1. Stands(p, "step")
    BY <1>1, <1>2, InvGives DEF PlaceTells
  <2>2. Stands(p, "serving")
    BY <2>1 DEF Stands, Unplanned, Working
  <2>3. QED  BY <1>2, <1>6, <1>8, <2>2, InvGives, SamePlan
<1>11. ResultSpeaks(p)' /\ RunIsStored(p)'
  BY <1>5, <1>6, <1>8 DEF ResultSpeaks, RunIsStored
<1>12. VersionsFollow(p)'
  <2> DEFINE steps == loop[p].steps
             named == [sources |-> steps[5].sources, content |-> steps[5].content]
  <2>1. VersionsFollow(p) /\ data' = data /\ written' = written
    BY <1>1, <1>2, InvGives DEF Verify
  <2>2. Taken(p)' = Taken(p) /\ NextTool(p)' = NextTool(p) /\ Taken(p) < 5
    BY <1>2, <1>6, <1>8, DiagnosisPlan DEF Taken, NextTool
  <2>3. /\ \A i \in 1..Taken(p) : steps[i].content <= data
        /\ Taken(p) >= 3 => /\ steps[3].sources <= steps[3].content
                            /\ steps[3].gate => steps[3].sources = steps[2].sources
    BY <2>1 DEF VersionsFollow
  <2>4. Taken(p) \in Nat
    BY <1>2, DiagnosisPlan
  <2>5. QED  BY <1>3, <1>6, <1>8, <2>1, <2>2, <2>3, <2>4 DEF VersionsFollow
<1>13. LoopInv(p)'
  BY <1>9, <1>10, <1>11, <1>12 DEF LoopInv
<1>14. QED  BY <1>2, <1>4, <1>6, <1>7, <1>9, <1>13, OwnStep

LEMMA ServerWorksStep ==
  ASSUME AgentsInv, NEW p \in DiagnosisLoop, ServerWorks(p)
  PROVE  AgentsInv'
<1>1. /\ ReadSamples(p) \/ Write(p)
      /\ lease' = lease /\ loop' = loop /\ UNCHANGED runVars
  BY DEF ServerWorks
<1>2. /\ ToolsInv' /\ ToolsGrow /\ \A o \in Server \ {p} : server'[o] = server[o]
      /\ server'[p].job = server[p].job /\ server'[p].sources = server[p].sources
  BY <1>1, LoopsApart, InvGives, ReadSamplesStep, WriteStep
<1>3. World
  BY <1>1, <1>2, InvGives, StoreStep DEF World
<1>4. ASSUME NEW q \in DiagnosisLoop
      PROVE  server'[q].job = server[q].job /\ server'[q].sources = server[q].sources
  BY <1>2, LoopsApart
<1>5. QED  BY <1>1, <1>3, <1>4, NoLoopMoves

\* a server nobody waits for: its caller's part of the invariant does not look at it
LEMMA StrayServerExits ==
  ASSUME AgentsInv, NEW p \in DiagnosisLoop, Exits(p), loop[p].pc # "serving", loop' = loop,
         lease' = lease, UNCHANGED runVars
  PROVE  AgentsInv'
<1>1. p \in Loop /\ p \in Server
  BY LoopsApart
<1>2. ToolsInv' /\ ToolsGrow /\ \A o \in Server \ {p} : server'[o] = server[o]
  BY <1>1, InvGives, ExitsStep
<1>3. World
  BY <1>2, InvGives, StoreStep DEF World
<1>4. LoopInv(p)'
  <2>1. LeaseHeld(p)'
    BY <1>1, InvGives DEF LeaseHeld, LeaseOf
  <2>2. StepsFollowPlan(p)' /\ PlaceTells(p)' /\ ResultSpeaks(p)'
    BY <1>1, InvGives, NextOfCall
  <2>3. RunIsStored(p)'
    BY <1>1, InvGives DEF RunIsStored, runVars
  <2>4. VersionsFollow(p)'
    BY <1>3, VersionsKept
  <2>5. QED  BY <2>1, <2>2, <2>3, <2>4 DEF LoopInv
<1>5. ASSUME NEW q \in Loop \ {p}  PROVE LoopInv(q)'
  <2>1. q \in DiagnosisLoop => server'[q] = server[q]
    BY <1>2, LoopsApart
  <2>2. loop'[q] = loop[q] /\ (lease'[LeaseOf(q)] = q <=> lease[LeaseOf(q)] = q)
    OBVIOUS
  <2>3. QED  BY <1>3, <2>1, <2>2, OthersKeep
<1>6. \A q \in Loop : LoopInv(q)'
  BY <1>4, <1>5
<1>7. QED  BY <1>3, <1>6, InvGives DEF AgentsInv, World, Calls, Leases

\* a step of the loop p and of its own server, to the handler
LEMMA ServerExitsStep ==
  ASSUME AgentsInv, NEW p \in DiagnosisLoop, ServerExits(p)
  PROVE  AgentsInv'
<1>1. /\ Exits(p) /\ lease' = lease /\ UNCHANGED runVars
      /\ (loop[p].pc = "serving" => Goto(p, "handler"))
      /\ (loop[p].pc # "serving" => loop' = loop)
  BY DEF ServerExits, At
<1>2. CASE loop[p].pc # "serving"
  BY <1>1, <1>2, StrayServerExits
<1>3. CASE loop[p].pc = "serving"
  <2> DEFINE call == [loop[p] EXCEPT !.pc = "handler"]
  <2>1. p \in Loop /\ p \in Server /\ loop[p].pc \in {"step", "serving"}
    BY <1>3, LoopsApart
  <2>2. ToolsInv' /\ ToolsGrow /\ \A o \in Server \ {p} : server'[o] = server[o]
    BY <1>1, <2>1, InvGives, ExitsStep
  <2>3. World
    BY <1>1, <2>2, InvGives, StoreStep DEF World
  <2>4. loop[p] \in Calls /\ loop[p].run \in RunId /\ loop[p].status = "none" /\ loop[p].safe = FALSE
    BY <2>1, PlaceOfStep
  <2>5. /\ call \in Calls /\ call.pc = "handler" /\ call.run = loop[p].run /\ call.plan = loop[p].plan
        /\ call.steps = loop[p].steps /\ call.status = "none" /\ call.safe = FALSE
    BY <2>4 DEF Calls, Places
  <2>6. loop' = [loop EXCEPT ![p] = call]
    BY <1>1, <1>3, InvGives DEF Goto
  <2> HIDE DEF call
  <2>7. loop'[p] = call
    BY <2>1, <2>5, <2>6, InvGives, SetsCall
  <2>8. LeaseHeld(p)' /\ KeepsOthers(p) /\ lease' \in [Leases -> Loop \cup {NoLoop}]
    <3>1. loop[p].pc \notin Outside /\ loop'[p].pc \notin Outside
      BY <1>3, <2>5, <2>7 DEF Outside
    <3>2. LeaseHeld(p)'
      BY <1>1, <2>1, <3>1, InvGives DEF LeaseHeld, LeaseOf
    <3>3. QED  BY <1>1, <2>2, <3>2, InvGives, LoopsApart DEF KeepsOthers
  <2>9. StepsFollowPlan(p)' /\ PlaceTells(p)'
    BY <2>1, <2>5, <2>7, HandlerStands, InvGives, SamePlan
  <2>10. ResultSpeaks(p)' /\ RunIsStored(p)'
    BY <2>4, <2>5, <2>7 DEF ResultSpeaks, RunIsStored
  <2>11. VersionsFollow(p)'
    BY <2>3, <2>5, <2>7, VersionsKept
  <2>12. LoopInv(p)'
    BY <2>8, <2>9, <2>10, <2>11 DEF LoopInv
  <2>13. QED  BY <2>1, <2>3, <2>5, <2>6, <2>8, <2>12, OwnStep
<1>4. QED  BY <1>2, <1>3

LEMMA RaisesStep ==
  ASSUME AgentsInv, NEW p \in Loop, StepRaises(p) \/ CallTimesOut(p)
  PROVE  AgentsInv'
<1>1. /\ loop[p].pc \in Live /\ Goto(p, "handler") /\ lease' = lease
      /\ UNCHANGED runVars /\ UNCHANGED toolVars
  BY DEF StepRaises, CallTimesOut, At, Live, Running
<1>2. QED  BY <1>1, GivesUp

LEMMA JudgeStep ==
  ASSUME AgentsInv, NEW p \in Loop, Judge(p)
  PROVE  AgentsInv'
<1>1. loop[p].pc = "judge" /\ loop[p].pc \in Live
  BY DEF Judge, At, Live, Running
<1>2. /\ {"ABORTED", "FAILED"} \subseteq TerminalStates
      /\ {"blocked_by_evidence", "failed"} \subseteq Statuses
      /\ "ABORTED" # "SUCCEEDED" /\ "FAILED" # "SUCCEEDED"
  BY DEF TerminalStates, Statuses
<1>3. CASE Conclude(p, "FAILED", "failed", FALSE)
  BY <1>1, <1>2, <1>3, ConcludeStep
<1>4. CASE Conclude(p, "ABORTED", "blocked_by_evidence", FALSE)
  BY <1>1, <1>2, <1>4, ConcludeStep
<1>5. /\ Stands(p, "judge") /\ StepsFollowPlan(p)
      /\ loop[p].plan \in Plan /\ loop[p].plan # NoPlan /\ loop[p].steps \in Seq(StepRecord)
  BY <1>1, InvGives DEF PlaceTells, Stands, Working, Calls
<1>6. /\ Taken(p) \in Nat /\ Steps(p) \in Nat /\ Taken(p) > 0 /\ Taken(p) <= Steps(p)
      /\ PlanIsValid(p) /\ LastStep(p) = loop[p].steps[Taken(p)]
      /\ \A i \in 1..Taken(p) : i < Taken(p) => loop[p].steps[i].succeeded /\ loop[p].steps[i].gate
      /\ HasLaterStep(p) <=> Taken(p) < Steps(p)
      /\ p \in DiagnosisLoop => p \notin ReadOnlyLoop
  BY <1>5, LenProperties, PlanHasSteps, LoopsApart
     DEF Stands, Working, StepsFollowPlan, Taken, Steps, LastStep, HasLaterStep
<1>7. CASE /\ LastStep(p).succeeded /\ ~ Blocked(p) /\ HasLaterStep(p)
           /\ Goto(p, "step") /\ UNCHANGED <<lease, runVars, toolVars>>
  <2>1. LastStep(p).gate
    BY <1>7 DEF Blocked
  <2>2. \A i \in 1..Taken(p) : i < Taken(p) \/ i = Taken(p)
    BY <1>6
  <2>3. \A i \in 1..Taken(p) : loop[p].steps[i].succeeded /\ loop[p].steps[i].gate
    BY <1>6, <1>7, <2>1, <2>2
  <2>4. Stands(p, "step")
    BY <1>5, <1>6, <1>7, <2>3 DEF Stands, Unplanned
  <2>5. "step" \in Places \ Outside /\ loop[p].pc \in Running /\ loop[p].pc \notin Outside
    BY <1>1, LiveIsInside DEF Places, Outside
  <2>6. QED  BY <1>7, <2>4, <2>5, GotoStep
<1>8. CASE /\ LastStep(p).succeeded /\ ~ Blocked(p) /\ ~ HasLaterStep(p)
           /\ Move(p, "VERIFYING", NoPlan, "finish")
  <2>1. Taken(p) = Steps(p) /\ (p \in DiagnosisLoop => LastStep(p).gate)
    BY <1>6, <1>8 DEF Blocked
  <2>2. Stands(p, "finish")
    BY <1>5, <1>6, <1>8, <2>1 DEF Stands, Unplanned
  <2>3. NoPlan \in Plan \cup {NoPlan} /\ "VERIFYING" \in AgentStates /\ "finish" \in Live
    BY DEF AgentStates, Live, Running
  <2>4. QED  BY <1>1, <1>8, <2>2, <2>3, MoveStep
<1>9. QED  BY <1>3, <1>4, <1>7, <1>8 DEF Judge

LEMMA FinishStep ==
  ASSUME AgentsInv, NEW p \in Loop, Finish(p)
  PROVE  AgentsInv'
<1> DEFINE safe == LastStep(p).gate
<1>1. /\ loop[p].pc = "finish" /\ loop[p].pc \in Live
      /\ Conclude(p, "SUCCEEDED", "succeeded", safe)
  BY DEF Finish, At, Live, Running
<1>2. /\ Stands(p, "finish") /\ StepsFollowPlan(p)
      /\ loop[p].plan \in Plan /\ loop[p].plan # NoPlan /\ loop[p].steps \in Seq(StepRecord)
  BY <1>1, InvGives DEF PlaceTells, Stands, Working, Calls
<1>3. /\ Taken(p) \in Nat /\ Taken(p) > 0 /\ Taken(p) = Steps(p) /\ PlanIsValid(p)
      /\ LastStep(p) = loop[p].steps[Taken(p)] /\ LastStep(p).succeeded
      /\ p \in DiagnosisLoop => LastStep(p).gate
      /\ \A i \in 1..Taken(p) :
           /\ i < Taken(p) => loop[p].steps[i].succeeded /\ loop[p].steps[i].gate
           /\ loop[p].steps[i].tool = loop[p].plan.steps[i]
  BY <1>2, LenProperties, PlanHasSteps DEF Stands, Working, StepsFollowPlan, Taken, Steps, LastStep
<1>4. safe \in BOOLEAN
  <2>1. loop[p].steps[Taken(p)] \in StepRecord
    BY <1>2, <1>3, LenProperties DEF Taken
  <2>2. QED  BY <1>3, <2>1 DEF StepRecord
<1>5. \A i \in 1..Taken(p) : loop[p].steps[i].succeeded
  <2>1. \A i \in 1..Taken(p) : i < Taken(p) \/ i = Taken(p)
    BY <1>3
  <2>2. QED  BY <1>3, <2>1
<1>6. p \in ReadOnlyLoop => \A i \in 1..Taken(p) : loop[p].steps[i].tool \in ReadOnlySkills
  <2>1. p \in ReadOnlyLoop => \A i \in 1..Taken(p) : loop[p].plan.steps[i] \in ReadOnlySkills
    BY <1>3 DEF PlanIsValid, Steps
  <2>2. QED  BY <1>3, <2>1
<1>7. EvidencedBy(p, safe)
  BY <1>2, <1>3, <1>5, <1>6 DEF EvidencedBy
<1>8. "SUCCEEDED" \in TerminalStates /\ "succeeded" \in Statuses
  BY DEF TerminalStates, Statuses
<1> HIDE DEF safe
<1>9. QED  BY <1>1, <1>4, <1>7, <1>8, ConcludeStep

LEMMA HandleErrorStep ==
  ASSUME AgentsInv, NEW p \in Loop, HandleError(p)
  PROVE  AgentsInv'
<1>1. /\ loop[p].pc = "handler" /\ loop[p].pc \in Live /\ UNCHANGED toolVars
      /\ "FAILED" \in TerminalStates /\ "FAILED" \in AgentStates /\ "failed" \in Statuses
  BY DEF HandleError, At, Live, Running, TerminalStates, Statuses, AgentStates
<1>2. /\ loop[p].run \in RunId /\ loop[p].current \in AgentStates /\ loop[p].pc \notin Outside
      /\ NoPlan \in Plan \cup {NoPlan}
  BY <1>1, InvGives, LiveIsInside DEF RunIsStored, Calls
<1>3. CASE /\ Transition(loop[p].run, "FAILED", loop[p].current, NoPlan)
           /\ Return(p, "failed", "FAILED", FALSE)
  BY <1>1, <1>3, ReturnStep
<1>4. CASE Transition(loop[p].run, "FAILED", loop[p].current, NoPlan) /\ Raise(p)
  <2>1. RunsNext
    BY <1>1, <1>2, <1>4, TransitionIsStep
  <2>2. QED  BY <1>1, <1>2, <1>4, <2>1, RaiseStep
<1>5. CASE Raise(p) /\ UNCHANGED runVars
  BY <1>1, <1>2, <1>5, RaiseStep
<1>6. QED  BY <1>3, <1>4, <1>5 DEF HandleError

LEMMA OperatorStopsStep ==
  ASSUME AgentsInv, NEW r \in RunId, OperatorStops(r)
  PROVE  AgentsInv'
<1>1. /\ Transition(r, "EMERGENCY_STOP", runs[r].state, NoPlan)
      /\ lease' = lease /\ loop' = loop /\ UNCHANGED toolVars
  BY DEF OperatorStops
<1>2. runs[r].state \in AgentStates /\ "EMERGENCY_STOP" \in AgentStates
  BY <1>1, InvGives, StatesApart
     DEF Transition, MayTransition, Exists, RunsTypeOK, StoredRun, NoRun, AgentStates
<1>3. World /\ server' = server
  BY <1>1, <1>2, TransitionIsStep, QuietWorld
<1>4. QED  BY <1>1, <1>3, NoLoopMoves

LEMMA RerecordsStep ==
  ASSUME AgentsInv, Rerecords
  PROVE  AgentsInv'
<1>1. Rerecorded /\ lease' = lease /\ loop' = loop /\ UNCHANGED runVars
  BY DEF Rerecords
<1>2. ToolsInv' /\ ToolsGrow /\ server' = server
  BY <1>1, InvGives, DiskStep
<1>3. World
  BY <1>1, <1>2, InvGives, StoreStep DEF World
<1>4. QED  BY <1>1, <1>2, <1>3, NoLoopMoves

LEMMA CrashStep ==
  ASSUME AgentsInv, NEW p \in Loop, Crash(p)
  PROVE  AgentsInv'
  BY LeavesStep DEF Crash

-----------------------------------------------------------------------------
(***************************************************************************)
(* The specification                                                       *)
(***************************************************************************)
LEMMA AgentsInitially == AgentsInit => AgentsInv
<1> SUFFICES ASSUME AgentsInit  PROVE AgentsInv
  OBVIOUS
<1>1. RunsInv
  BY RunsInitially DEF AgentsInit
<1>2. ToolsInv
  <2>1. data = 1 /\ server = [s \in Server |-> Off] /\ written = [a \in Analysis |-> {}]
    BY DEF AgentsInit, ToolsInit
  <2>2. ToolsTypeOK
    BY <2>1, MaxVersionAssumption, ToolsTypeIs
  <2>3. \A s \in Server : ServerFollows(s)
    BY <2>1, OffIsIdle DEF ServerFollows
  <2>4. BundleSealsReport
    BY <2>1 DEF BundleSealsReport
  <2>5. QED  BY <2>2, <2>3, <2>4 DEF ToolsInv
<1>3. /\ lease = [f \in Leases |-> NoLoop] /\ loop = [p \in Loop |-> Fresh]
  BY DEF AgentsInit, Leases
<1>4. /\ Fresh \in Calls /\ Fresh.pc = "start" /\ Fresh.plan = NoPlan /\ Fresh.steps = <<>>
      /\ Fresh.status = "none" /\ Fresh.safe = FALSE
  <2>1. "start" \in Places /\ "IDLE" \in AgentStates /\ <<>> \in Seq(StepRecord)
    BY DEF Places, AgentStates
  <2>2. QED  BY <2>1 DEF Fresh, Calls
<1>5. ASSUME NEW p \in Loop  PROVE LoopInv(p)
  <2>1. loop[p] = Fresh
    BY <1>3
  <2>2. StepsFollowPlan(p) /\ PlaceTells(p) /\ ResultSpeaks(p) /\ RunIsStored(p) /\ VersionsFollow(p)
    BY <1>4, <2>1, EmptyCall
  <2>3. LeaseHeld(p)
    BY <1>3, <1>4, <2>1, LoopsApart DEF LeaseHeld, Outside
  <2>4. QED  BY <2>2, <2>3 DEF LoopInv
<1>6. QED  BY <1>1, <1>2, <1>3, <1>4, <1>5 DEF AgentsInv

LEMMA TriesStep ==
  ASSUME AgentsInv, NEW p \in Loop, Tries(p)
  PROVE  AgentsInv'
  BY EnterStep, NotPlannedStep, EnterExecutingStep, JudgeStep, FinishStep DEF Tries

LEMMA LoopStep ==
  ASSUME AgentsInv, NEW p \in Loop,
         \/ AcquireLease(p) \/ RecoverUnfinishedRuns(p)
         \/ \E r \in RunId, t \in TraceId : OpenRun(p, r, t)
         \/ \E plan \in Plan : Planned(p, plan)
         \/ Tries(p) \/ StepRaises(p) \/ HandleError(p) \/ Crash(p)
         \/ \E succeeded, favourable \in BOOLEAN : ExecuteSkill(p, succeeded, favourable)
  PROVE  AgentsInv'
<1>1. CASE AcquireLease(p) \/ RecoverUnfinishedRuns(p)
  BY <1>1, AcquireLeaseStep, RecoverStep
<1>2. CASE \E r \in RunId, t \in TraceId : OpenRun(p, r, t)
  BY <1>2, OpenRunStep
<1>3. CASE \E plan \in Plan : Planned(p, plan)
  BY <1>3, PlannedStep
<1>4. CASE Tries(p) \/ StepRaises(p) \/ HandleError(p) \/ Crash(p)
  BY <1>4, TriesStep, RaisesStep, HandleErrorStep, CrashStep
<1>5. CASE \E succeeded, favourable \in BOOLEAN : ExecuteSkill(p, succeeded, favourable)
  BY <1>5, ExecuteSkillStep
<1>6. QED  BY <1>1, <1>2, <1>3, <1>4, <1>5

LEMMA DiagnosisStep ==
  ASSUME AgentsInv, NEW p \in DiagnosisLoop,
         \/ \E found, bound \in BOOLEAN, sources \in 0..MaxVersion :
              CallTool(p, [found |-> found, bound |-> bound, sources |-> sources, content |-> 0])
         \/ CallServer(p) \/ ServerWorks(p) \/ ServerAnswers(p) \/ ServerExits(p) \/ CallTimesOut(p)
  PROVE  AgentsInv'
<1>1. CASE \E found, bound \in BOOLEAN, sources \in 0..MaxVersion :
             CallTool(p, [found |-> found, bound |-> bound, sources |-> sources, content |-> 0])
  <2>1. PICK answer : CallTool(p, answer)
    BY <1>1
  <2>2. QED  BY <2>1, CallToolStep
<1>2. CASE CallServer(p)
  BY <1>2, CallServerStep
<1>3. CASE ServerWorks(p)
  BY <1>3, ServerWorksStep
<1>4. CASE ServerAnswers(p)
  BY <1>4, ServerAnswersStep
<1>5. CASE ServerExits(p)
  BY <1>5, ServerExitsStep
<1>6. CASE CallTimesOut(p)
  BY <1>6, LoopsApart, RaisesStep
<1>7. QED  BY <1>1, <1>2, <1>3, <1>4, <1>5, <1>6

LEMMA AgentsStep ==
  ASSUME AgentsInv, [AgentsNext]_agentVars
  PROVE  AgentsInv'
<1>1. CASE \E p \in Loop :
             \/ AcquireLease(p) \/ RecoverUnfinishedRuns(p)
             \/ \E r \in RunId, t \in TraceId : OpenRun(p, r, t)
             \/ \E plan \in Plan : Planned(p, plan)
             \/ Tries(p) \/ StepRaises(p) \/ HandleError(p) \/ Crash(p)
             \/ \E succeeded, favourable \in BOOLEAN : ExecuteSkill(p, succeeded, favourable)
  BY <1>1, LoopStep
<1>2. CASE \E p \in DiagnosisLoop :
             \/ \E found, bound \in BOOLEAN, sources \in 0..MaxVersion :
                  CallTool(p, [found |-> found, bound |-> bound, sources |-> sources, content |-> 0])
             \/ CallServer(p) \/ ServerWorks(p) \/ ServerAnswers(p) \/ ServerExits(p) \/ CallTimesOut(p)
  BY <1>2, DiagnosisStep
<1>3. CASE \E r \in RunId : OperatorStops(r)
  BY <1>3, OperatorStopsStep
<1>4. CASE Rerecords
  BY <1>4, RerecordsStep
<1>5. CASE UNCHANGED agentVars
  <2>1. lease' = lease /\ loop' = loop /\ UNCHANGED runVars /\ UNCHANGED toolVars
    BY <1>5 DEF agentVars
  <2>2. World /\ server' = server
    BY <2>1, QuietWorld
  <2>3. QED  BY <2>1, <2>2, NoLoopMoves
<1>6. QED  BY <1>1, <1>2, <1>3, <1>4, <1>5 DEF AgentsNext

(***************************************************************************)
(* The inductive invariant of the two agent loops, their shared database   *)
(* and the diagnosis tools, for any number of loops, any plans and any     *)
(* recordings (loop.py of both packages, store.py, tools.py).              *)
(***************************************************************************)
THEOREM AgentsInvariant == AgentsSpec => []AgentsInv
<1>1. AgentsInit => AgentsInv
  BY AgentsInitially
<1>2. AgentsInv /\ [AgentsNext]_agentVars => AgentsInv'
  BY AgentsStep
<1>3. QED  BY <1>1, <1>2, PTL DEF AgentsSpec

(***************************************************************************)
(* Every variable keeps its type, no call takes more steps than its plan   *)
(* has, and the lock file of a kind names the one call of it that is       *)
(* inside run() (loop.py:66-74, _exclusive_lease).                         *)
(***************************************************************************)
THEOREM AgentsTypes == AgentsSpec => []AgentsTypeOK
<1>1. AgentsInv => AgentsTypeOK
  <2> SUFFICES ASSUME AgentsInv  PROVE AgentsTypeOK
    OBVIOUS
  <2>1. /\ RunsTypeOK /\ ToolsTypeOK
        /\ lease \in [{"agent_loop.lock", "diagnosis_agent.lock"} -> Loop \cup {NoLoop}]
    BY InvGives DEF Leases
  <2>2. ASSUME NEW p \in Loop
        PROVE  /\ loop[p].run \in RunId \cup {"none"}
               /\ loop[p].current \in AgentStates
               /\ loop[p].plan \in Plan \cup {NoPlan}
               /\ loop[p].steps \in Seq(StepRecord)
               /\ loop[p].plan # NoPlan => Len(loop[p].steps) <= Len(loop[p].plan.steps)
               /\ loop[p].pc = "returned" <=> loop[p].status \in Statuses
               /\ loop[p].safe => loop[p].status = "succeeded"
               /\ lease[LeaseOf(p)] = p <=> loop[p].pc \notin Outside
    <3>1. loop[p] \in Calls /\ StepsFollowPlan(p) /\ ResultSpeaks(p) /\ LeaseHeld(p)
      BY InvGives
    <3>2. /\ loop[p].run \in RunId \cup {"none"} /\ loop[p].current \in AgentStates
          /\ loop[p].plan \in Plan \cup {NoPlan} /\ loop[p].steps \in Seq(StepRecord)
          /\ loop[p].status \in Statuses \cup {"none"} /\ "none" \notin Statuses
      BY <3>1 DEF Calls, Statuses
    <3>3. loop[p].plan # NoPlan => Len(loop[p].steps) <= Len(loop[p].plan.steps)
      BY <3>1 DEF StepsFollowPlan, Taken, Steps
    <3>4. QED  BY <3>1, <3>2, <3>3 DEF ResultSpeaks, LeaseHeld
  <2>3. QED  BY <2>1, <2>2 DEF AgentsTypeOK
<1>2. QED  BY <1>1, AgentsInvariant, PTL

(***************************************************************************)
(* No step is taken past evidence that forbids it, and a success is made   *)
(* of all the planned steps, each with its evidence (loop.py:233-323,      *)
(* diagnosis loop.py:211-268).                                             *)
(***************************************************************************)
THEOREM StepsAlwaysEvidenced == AgentsSpec => []StepsAreEvidenced
<1>1. AgentsInv => StepsAreEvidenced
  BY InvGives DEF StepsAreEvidenced, StepsFollowPlan, ResultSpeaks, Taken
<1>2. QED  BY <1>1, AgentsInvariant, PTL

(***************************************************************************)
(* A result names the state its run is in for good, whatever recovery,     *)
(* an operator or an unwritable trace did to the run on the way            *)
(* (loop.py:358-397, diagnosis loop.py:470-488).                           *)
(***************************************************************************)
THEOREM ResultAlwaysStored == AgentsSpec => []ResultNamesStoredState
<1>1. AgentsInv => ResultNamesStoredState
  BY InvGives DEF ResultNamesStoredState, RunIsStored, At
<1>2. QED  BY <1>1, AgentsInvariant, PTL

(***************************************************************************)
(* A successful diagnosis is about one recording of the experiment, though *)
(* each tool reads the files anew and the experiment may be recorded again *)
(* between any two of the reads (diagnosis loop.py:351-385): the hashes    *)
(* a tool verified are no newer than the samples it then read, the gates   *)
(* bind the hashes of the last tool to those of the first, and so all of   *)
(* them are of one version.                                                *)
(***************************************************************************)
THEOREM DiagnosisAlwaysOneExperiment == AgentsSpec => []DiagnosisIsOneExperiment
<1>1. AgentsInv => DiagnosisIsOneExperiment
  <2> SUFFICES ASSUME AgentsInv, NEW p \in DiagnosisLoop, loop[p].status = "succeeded"
               PROVE  LET report == loop[p].steps[5]
                          named == [sources |-> report.sources, content |-> report.content] IN
                      /\ report.sources = report.content
                      /\ report.sources = loop[p].steps[2].sources
                      /\ loop[p].steps[3].content = report.content
                      /\ BundleFile \in written[named]
    BY StepIs DEF DiagnosisIsOneExperiment
  <2> DEFINE steps == loop[p].steps
  <2>1. /\ p \in Loop /\ p \notin ReadOnlyLoop /\ steps \in Seq(StepRecord)
        /\ loop[p].plan \in Plan /\ Evidenced(p) /\ PlaceTells(p) /\ VersionsFollow(p)
    BY LoopsApart, InvGives DEF ResultSpeaks, Calls
  <2>2. /\ Taken(p) \in Nat /\ Taken(p) > 0 /\ Taken(p) = Steps(p)
        /\ \A i \in 1..Taken(p) : i < Taken(p) => steps[i].gate
        /\ steps[Taken(p)].gate
    BY <2>1, PlanHasSteps, LenProperties DEF Evidenced, Taken, Steps
  <2>3. steps # <<>>
    BY <2>2 DEF Taken
  <2>4. Taken(p) = 5
    BY <2>1, <2>2, <2>3, TheToolOrder DEF PlaceTells, Stands, PlanIsValid, Steps
  <2>5. steps[3].gate /\ steps[5].gate /\ steps[3] \in StepRecord /\ steps[5] \in StepRecord
    <3>1. 3 \in 1..Taken(p) /\ 5 \in 1..Taken(p) /\ 3 < Taken(p)
      BY <2>4
    <3>2. \A i \in 1..Taken(p) : steps[i] \in StepRecord
      BY <2>1, LenProperties DEF Taken
    <3> HIDE DEF steps
    <3>3. QED  BY <2>2, <2>4, <3>1, <3>2
  <2>6. /\ steps[3].sources \in Nat /\ steps[3].content \in Nat
        /\ steps[5].sources \in Nat /\ steps[5].content \in Nat
    BY <2>5, MaxVersionAssumption DEF StepRecord
  <2>7. /\ steps[3].sources <= steps[3].content /\ steps[3].sources = steps[2].sources
        /\ steps[3].content <= steps[5].sources
        /\ steps[5].sources = steps[3].sources /\ steps[5].content = steps[3].content
        /\ BundleFile \in written[[sources |-> steps[5].sources, content |-> steps[5].content]]
    BY <2>1, <2>4, <2>5 DEF VersionsFollow
  <2>8. QED  BY <2>6, <2>7
<1>2. QED  BY <1>1, AgentsInvariant, PTL

(***************************************************************************)
(* The bundle file seals a report directory, wherever a server was killed  *)
(* and however many of them write the same report (tools.py:402-412).      *)
(***************************************************************************)
THEOREM BundleAlwaysSeals == AgentsSpec => []BundleSealsReport
<1>1. AgentsInv => BundleSealsReport
  BY DEF AgentsInv, ToolsInv
<1>2. QED  BY <1>1, AgentsInvariant, PTL

\* only a server writes reports, and it adds to them
LEMMA ReportsGrow ==
  ASSUME AgentsInv, AgentsNext, NEW a \in Analysis
  PROVE  written[a] \subseteq written'[a]
<1>1. CASE \E p \in DiagnosisLoop : ServerWorks(p)
  <2>1. PICK p \in DiagnosisLoop : ReadSamples(p) \/ Write(p)
    BY <1>1 DEF ServerWorks
  <2>2. CASE Write(p)
    BY <2>2, LoopsApart, InvGives, WriteStep DEF ToolsGrow
  <2>3. CASE ReadSamples(p)
    BY <2>3 DEF ReadSamples
  <2> QED BY <2>1, <2>2, <2>3
<1>2. CASE \E p \in Loop : Tries(p)
  BY <1>2 DEF Tries, EnterRetrieving, EnterPlanning, NotPlanned, EnterValidating, EnterExecuting,
              Judge, Finish, Move, Conclude, toolVars
<1>3. CASE \/ \E r \in RunId : OperatorStops(r)
           \/ Rerecords
           \/ \E p \in Loop :
                \/ AcquireLease(p) \/ RecoverUnfinishedRuns(p) \/ StepRaises(p) \/ HandleError(p)
                \/ Crash(p)
                \/ \E r \in RunId, t \in TraceId : OpenRun(p, r, t)
                \/ \E plan \in Plan : Planned(p, plan)
                \/ \E succeeded, favourable \in BOOLEAN : ExecuteSkill(p, succeeded, favourable)
  BY <1>3 DEF OperatorStops, Rerecords, Rerecorded, AcquireLease, RecoverUnfinishedRuns, StepRaises,
              HandleError, Crash, OpenRun, Planned, ExecuteSkill, toolVars
<1>4. CASE \E p \in DiagnosisLoop :
             \/ \E found, bound \in BOOLEAN, sources \in 0..MaxVersion :
                  CallTool(p, [found |-> found, bound |-> bound, sources |-> sources, content |-> 0])
             \/ CallServer(p) \/ ServerAnswers(p) \/ ServerExits(p) \/ CallTimesOut(p)
  BY <1>4 DEF CallTool, CallServer, ServerAnswers, ServerExits, CallTimesOut, Verify, Exits, toolVars
<1>5. QED  BY <1>1, <1>2, <1>3, <1>4 DEF AgentsNext

(***************************************************************************)
(* Once sealed, a report directory gains and loses no file: what a killed, *)
(* abandoned or later server writes into it is there already               *)
(* (tools.py:402-412).                                                     *)
(***************************************************************************)
THEOREM SealedReportStays ==
  AgentsSpec =>
    [][\A a \in Analysis : BundleFile \in written[a] => written'[a] = written[a]]_agentVars
<1>1. ASSUME AgentsInv, AgentsInv', AgentsNext, NEW a \in Analysis, BundleFile \in written[a]
      PROVE  written'[a] = written[a]
  <2>1. /\ ReportFiles \subseteq written[a]
        /\ written'[a] \subseteq ReportFiles \cup {BundleFile}
    BY <1>1 DEF AgentsInv, ToolsInv, BundleSealsReport, ToolsTypeOK
  <2>2. written[a] \subseteq written'[a]
    BY <1>1, ReportsGrow
  <2>3. QED  BY <1>1, <2>1, <2>2
<1>2. AgentsInv /\ AgentsInv' /\ [AgentsNext]_agentVars
        => [\A a \in Analysis : BundleFile \in written[a] => written'[a] = written[a]]_agentVars
  BY <1>1
<1>3. QED  BY <1>2, AgentsInvariant, PTL DEF AgentsSpec

(***************************************************************************)
(* Recovery never aborts the run of a live loop of its own kind: the lease *)
(* admits one of them, however the others start, crash or raise            *)
(* (loop.py:66-74 of both).                                                *)
(***************************************************************************)
THEOREM RecoverySpares == AgentsSpec => RecoverySparesOwnKind
<1>1. AgentsInv => \A p, q \in Loop :
                     p # q /\ LeaseOf(p) = LeaseOf(q) /\ At(p, "recover") => loop[q].pc \in Outside
  BY InvGives DEF LeaseHeld, At, Outside
<1>2. AgentsInv =>
        [\A p, q \in Loop :
           /\ p # q /\ LeaseOf(p) = LeaseOf(q)
           /\ At(p, "recover") /\ loop'[p].pc = "create"
           /\ ~ At(q, "start") /\ loop[q].pc \notin Outside /\ loop[q].run # "none"
           => runs'[loop[q].run] = runs[loop[q].run]]_agentVars
  BY <1>1
<1>3. QED  BY <1>2, AgentsInvariant, PTL DEF RecoverySparesOwnKind

-----------------------------------------------------------------------------
(***************************************************************************)
(* The loops use the store as its operations allow                         *)
(***************************************************************************)
LEMMA TransitionsOfLoop ==
  ASSUME AgentsInv, NEW p \in Loop, loop[p].pc \in Running, NEW target \in AgentStates,
         NEW plan \in Plan \cup {NoPlan}, Transition(loop[p].run, target, loop[p].current, plan)
  PROVE  RunsNext
<1>1. loop[p].run \in RunId /\ loop[p].current \in AgentStates
  BY InvGives DEF RunIsStored, Calls
<1>2. QED  BY <1>1, TransitionIsStep

LEMMA TriesUseTheStore ==
  ASSUME AgentsInv, NEW p \in Loop, Tries(p)
  PROVE  RunsNext \/ UNCHANGED runVars
<1>1. /\ {"RETRIEVING", "PLANNING", "VALIDATING", "EXECUTING", "VERIFYING", "SUCCEEDED",
          "ABORTED", "FAILED"} \subseteq AgentStates
      /\ NoPlan \in Plan \cup {NoPlan} /\ loop[p].plan \in Plan \cup {NoPlan}
  BY InvGives DEF AgentStates, Calls
<1>2. loop[p].pc \in Running
  BY DEF Tries, EnterRetrieving, EnterPlanning, NotPlanned, EnterValidating, EnterExecuting, Judge,
         Finish, At, Running
<1>3. ASSUME NEW target \in AgentStates, NEW plan \in Plan \cup {NoPlan}, NEW pc,
             Move(p, target, plan, pc)
      PROVE  RunsNext \/ UNCHANGED runVars
  BY <1>2, <1>3, TransitionsOfLoop DEF Move, StoreRefuses
<1>4. ASSUME NEW target \in AgentStates, NEW status, NEW safe, Conclude(p, target, status, safe)
      PROVE  RunsNext \/ UNCHANGED runVars
  BY <1>1, <1>2, <1>4, TransitionsOfLoop DEF Conclude, StoreRefuses
<1>5. CASE EnterRetrieving(p) \/ EnterPlanning(p) \/ EnterValidating(p) \/ EnterExecuting(p)
  BY <1>1, <1>3, <1>5 DEF EnterRetrieving, EnterPlanning, EnterValidating, EnterExecuting
<1>6. CASE NotPlanned(p) \/ Judge(p) \/ Finish(p)
  BY <1>1, <1>3, <1>4, <1>6 DEF NotPlanned, Judge, Finish
<1>7. QED  BY <1>5, <1>6 DEF Tries

LEMMA AgentsUseTheStore ==
  ASSUME AgentsInv, [AgentsNext]_agentVars
  PROVE  [RunsNext]_runVars
<1>1. CASE \E p \in Loop : Tries(p)
  BY <1>1, TriesUseTheStore
<1>2. CASE \E p \in Loop : HandleError(p)
  <2>1. PICK p \in Loop : HandleError(p)
    BY <1>2
  <2>2. /\ loop[p].pc \in Running /\ "FAILED" \in AgentStates /\ NoPlan \in Plan \cup {NoPlan}
    BY <2>1 DEF HandleError, At, Running, AgentStates
  <2>3. QED  BY <2>1, <2>2, TransitionsOfLoop DEF HandleError
<1>3. CASE \E p \in Loop : \/ RecoverUnfinishedRuns(p)
                           \/ \E r \in RunId, t \in TraceId : OpenRun(p, r, t)
  BY <1>3 DEF RecoverUnfinishedRuns, OpenRun, RunsNext
<1>4. CASE \E r \in RunId : OperatorStops(r)
  <2>1. PICK r \in RunId : OperatorStops(r)
    BY <1>4
  <2>2. Transition(r, "EMERGENCY_STOP", runs[r].state, NoPlan)
    BY <2>1 DEF OperatorStops
  <2>3. runs[r].state \in AgentStates /\ "EMERGENCY_STOP" \in AgentStates
    BY <2>2, InvGives, StatesApart
       DEF Transition, MayTransition, Exists, RunsTypeOK, StoredRun, NoRun, AgentStates
  <2>4. QED  BY <2>2, <2>3, TransitionIsStep
<1>5. CASE \/ UNCHANGED agentVars
           \/ Rerecords
           \/ \E p \in Loop : \/ AcquireLease(p) \/ StepRaises(p) \/ Crash(p)
                              \/ \E plan \in Plan : Planned(p, plan)
                              \/ \E succeeded, favourable \in BOOLEAN :
                                   ExecuteSkill(p, succeeded, favourable)
  BY <1>5 DEF agentVars, Rerecords, AcquireLease, StepRaises, Crash, Planned, ExecuteSkill
<1>6. CASE \E p \in DiagnosisLoop :
             \/ \E found, bound \in BOOLEAN, sources \in 0..MaxVersion :
                  CallTool(p, [found |-> found, bound |-> bound, sources |-> sources, content |-> 0])
             \/ CallServer(p) \/ ServerWorks(p) \/ ServerAnswers(p) \/ ServerExits(p) \/ CallTimesOut(p)
  BY <1>6 DEF CallTool, CallServer, ServerWorks, ServerAnswers, ServerExits, CallTimesOut
<1>7. QED  BY <1>1, <1>2, <1>3, <1>4, <1>5, <1>6 DEF AgentsNext

(***************************************************************************)
(* The loops and the operator implement the run store: whatever they do    *)
(* together, crash and raise included, the run table and its events change *)
(* by create_run, transition and fail_closed_recover only, so every        *)
(* theorem about the store holds of the agents (store.py and loop.py of    *)
(* both packages, registry.py:729-880).                                    *)
(***************************************************************************)
THEOREM AgentsImplementStore == AgentsSpec => RunsSpec
<1>1. AgentsInit => RunsInit
  BY DEF AgentsInit
<1>2. AgentsInv /\ [AgentsNext]_agentVars => [RunsNext]_runVars
  BY AgentsUseTheStore
<1>3. QED  BY <1>1, <1>2, AgentsInvariant, PTL DEF AgentsSpec, RunsSpec
=============================================================================
