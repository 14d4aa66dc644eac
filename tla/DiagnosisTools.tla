--------------------------- MODULE DiagnosisTools ---------------------------
(***************************************************************************)
(* The diagnosis tools of robot_diagnosis_mcp/tools.py and the MCP server  *)
(* process that runs one call of them.  A call reads an experiment that    *)
(* may be recorded anew at any moment, verifies the manifest's hashes      *)
(* first and reads the samples afterwards, and the last tool writes the    *)
(* report files one by one.  A server is a grandchild of its caller: it    *)
(* may outlive the call (client.py, call_tool kills its child only).       *)
(*                                                                         *)
(* The content of the experiment is a version number: a new recording      *)
(* never repeats an old one, byte for byte.  A hash is what it is of.      *)
(***************************************************************************)
EXTENDS Naturals, Sequences

CONSTANTS
  Server,     \* server processes, one per call that needs more than one step
  MaxVersion  \* bound: recordings of the experiment

ASSUME MaxVersionAssumption == MaxVersion \in Nat \ {0}

VARIABLES
  data,    \* the recording now on disk, manifest and sources together
  server,  \* the call each server is working on
  written  \* files of each report directory

toolVars == <<data, server, written>>

ToolOrder == << "list_experiment_runs", "inspect_experiment_run", "analyze_experiment_run",
                "retrieve_robotics_knowledge", "materialize_diagnosis_report" >>

ReportFiles == {"analysis.json", "report.md", "trajectory.svg", "motion_timeseries.svg"}

BundleFile == "diagnosis_bundle.json"

\* the report is written twice, the second time with its citations
WriteOrder == << "analysis.json", "report.md", "trajectory.svg", "motion_timeseries.svg",
                 "report.md", BundleFile >>

\* what analysis_sha256 stands for: hashes from the manifest, samples from the files
Analysis == [sources : 1..MaxVersion, content : 1..MaxVersion]

Off == [job |-> "none", sources |-> 0, content |-> 0, files |-> 0]

ToolsTypeOK ==
  /\ data \in 1..MaxVersion
  /\ server \in [Server -> {Off} \cup
                  [job : {"analyze_experiment_run", "materialize_diagnosis_report"},
                   sources : 1..MaxVersion, content : 0..MaxVersion,
                   files : 0..Len(WriteOrder)]]
  /\ written \in [Analysis -> SUBSET (ReportFiles \cup {BundleFile})]

ToolsInit ==
  /\ data = 1
  /\ server = [s \in Server |-> Off]
  /\ written = [a \in Analysis |-> {}]

-----------------------------------------------------------------------------
\* _result: inputs are hashed as the tool normalised them, not as they were sent
InputsBound(tool, padded) ==
  tool \in {"retrieve_robotics_knowledge", "materialize_diagnosis_report"} => ~ padded

\* list, inspect and retrieve: one read, one answer
Reads(tool, padded, answer) ==
  /\ tool \in {"list_experiment_runs", "inspect_experiment_run", "retrieve_robotics_knowledge"}
  /\ answer.bound = InputsBound(tool, padded)
  /\ tool # "list_experiment_runs" => answer.found
  /\ answer.sources = IF tool = "inspect_experiment_run" THEN data ELSE 0
  /\ answer.content = 0

(***************************************************************************)
(* analyze_experiment_run and materialize_diagnosis_report: the manifest   *)
(* and every source hash are verified, then the samples are read.          *)
(***************************************************************************)
Verify(s, tool) ==
  /\ server[s] = Off
  /\ tool \in {"analyze_experiment_run", "materialize_diagnosis_report"}
  /\ server' = [server EXCEPT ![s] = [job |-> tool, sources |-> data, content |-> 0, files |-> 0]]
  /\ UNCHANGED <<data, written>>

ReadSamples(s) ==
  /\ server[s].job # "none"
  /\ server[s].content = 0
  /\ server' = [server EXCEPT ![s].content = data]
  /\ UNCHANGED <<data, written>>

\* the directory is named by the hash of the bundle: the analysis, and the retrieval of one index
Directory(s) == [sources |-> server[s].sources, content |-> server[s].content]

WriteBundleFirst(s) ==
  LET n == server[s].files + 1  last == Len(WriteOrder) IN
  /\ server[s].job = "materialize_diagnosis_report"
  /\ server[s].content # 0
  /\ n <= last
  /\ server' = [server EXCEPT ![s].files = n]
  /\ written' = [written EXCEPT ![Directory(s)] =
                   @ \cup {IF n = 1 THEN WriteOrder[last] ELSE WriteOrder[n - 1]}]
  /\ UNCHANGED data

\* the next file of the report, straight into its final place
Write(s) ==
  /\ server[s].job = "materialize_diagnosis_report"
  /\ server[s].content # 0
  /\ server[s].files < Len(WriteOrder)
  /\ server' = [server EXCEPT ![s].files = @ + 1]
  /\ written' = [written EXCEPT ![Directory(s)] = @ \cup {WriteOrder[server[s].files + 1]}]
  /\ UNCHANGED data

Finished(s) ==
  /\ server[s].content # 0
  /\ server[s].job = "materialize_diagnosis_report" => server[s].files = Len(WriteOrder)

\* the server's answer, whether or not anybody still waits for it
AnswerOf(s, padded) ==
  [found |-> TRUE, bound |-> InputsBound(server[s].job, padded),
   sources |-> server[s].sources, content |-> server[s].content]

\* a server that has answered exits; one that raises, or is killed, answers nothing
Exits(s) ==
  /\ server[s].job # "none"
  /\ server' = [server EXCEPT ![s] = Off]
  /\ UNCHANGED <<data, written>>

\* the experiment is recorded again under its name
Rerecorded ==
  /\ data < MaxVersion
  /\ data' = data + 1
  /\ UNCHANGED <<server, written>>

(***************************************************************************)
(* diagnosis_bundle.json is the seal of a report directory: where it       *)
(* exists, all the report's files do, wherever between two files a server  *)
(* was killed, and whether its caller waited for it or had given up        *)
(* (tools.py:402-412, materialize_diagnosis_report).                       *)
(***************************************************************************)
BundleSealsReport ==
  \A a \in Analysis : BundleFile \in written[a] => ReportFiles \subseteq written[a]
=============================================================================
