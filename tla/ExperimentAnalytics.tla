------------------------ MODULE ExperimentAnalytics ------------------------
(***************************************************************************)
(* analyze_experiment (safe_agent_core/experiment_analytics.py): one pass  *)
(* that loads the two verified logs of an experiment, joins every pose     *)
(* with the nearest command, groups anomalies into windows and names the   *)
(* candidate mechanisms.  Positions lie on a line and units are abstract;  *)
(* a speed is compared as a distance over the time it took, never divided. *)
(***************************************************************************)
EXTENDS Integers, Sequences, FiniteSets

CONSTANTS
  PoseLog,        \* what pose_csv may hold: sequences of [t, x, recovery, tf]
  CommandLog,     \* what command_csv may hold: sequences of [t, linear, angular]
  Tolerance,      \* command_match_tolerance_ns
  CommandedSpeed, \* commanded_speed_threshold_mps
  LowProgress,    \* low_progress_threshold_mps
  Oscillation,    \* angular_oscillation_threshold_rps
  PoseJump,       \* pose_jump_threshold_m
  WindowGap       \* window_gap_ns

ASSUME ParametersAssumption ==
  {Tolerance, CommandedSpeed, LowProgress, Oscillation, PoseJump, WindowGap} \subseteq Nat

\* PoseSample and CommandSample: what int(), float() and _parse_bool let through
PoseSample == [t : Int, x : Int, recovery : Int, tf : BOOLEAN]
CommandSample == [t : Int, linear : Int, angular : Int]

ASSUME LogsAssumption ==
  PoseLog \subseteq Seq(PoseSample) /\ CommandLog \subseteq Seq(CommandSample)

VARIABLES
  phase,      \* the function at work, or how the call ended
  poses,      \* pose_samples
  commands,   \* command_samples
  correlated, \* correlated_samples
  scanned,    \* how many of them detect_anomaly_windows has looked at
  windows,    \* anomaly_windows
  candidates  \* candidate_mechanisms: <<mechanism, window>>

analysisVars == <<phase, poses, commands, correlated, scanned, windows, candidates>>

Distance(a, b) == IF a > b THEN a - b ELSE b - a

Mechanism ==
  [commanded_motion_without_progress |-> "obstruction_or_controller_stall",
   angular_command_oscillation |-> "controller_oscillation",
   pose_discontinuity |-> "localization_discontinuity",
   nav_recovery_activity |-> "nav2_recovery_activity",
   localization_or_tf_evidence |-> "localization_or_tf_instability"]

Severe == {"pose_discontinuity", "localization_or_tf_evidence"}

AnalysisInit ==
  /\ phase = "load_poses"
  /\ poses = <<>> /\ commands = <<>> /\ correlated = <<>>
  /\ scanned = 0 /\ windows = <<>> /\ candidates = {}

-----------------------------------------------------------------------------
(***************************************************************************)
(* Loading: a log that is too short, negative or not strictly increasing   *)
(* raises ExperimentDataError, and the analysis ends                       *)
(***************************************************************************)
StrictlyIncreasing(log) == \A i \in 1..Len(log) - 1 : log[i].t < log[i + 1].t

LoadPoseSamples ==
  /\ phase = "load_poses"
  /\ poses' \in PoseLog
  /\ phase' = IF /\ Len(poses') >= 2
                 /\ \A i \in 1..Len(poses') : poses'[i].t >= 0 /\ poses'[i].recovery >= 0
                 /\ StrictlyIncreasing(poses')
              THEN "load_commands" ELSE "refused"
  /\ UNCHANGED <<commands, correlated, scanned, windows, candidates>>

LoadCommandSamples ==
  /\ phase = "load_commands"
  /\ commands' \in CommandLog
  /\ phase' = IF /\ commands' # <<>>
                 /\ \A i \in 1..Len(commands') : commands'[i].t >= 0
                 /\ StrictlyIncreasing(commands')
              THEN "correlate" ELSE "refused"
  /\ UNCHANGED <<poses, correlated, scanned, windows, candidates>>

-----------------------------------------------------------------------------
(***************************************************************************)
(* correlate_control_commands, one pose at a time: bisect_left, then the   *)
(* nearer of the command found and the one before it, the former on a tie  *)
(***************************************************************************)
Insertion(t) == Cardinality({i \in 1..Len(commands) : commands[i].t < t})

CommandAtOrBefore(t) == commands[IF Insertion(t) = 0 THEN 1 ELSE Insertion(t)]

NearestCommand(t) ==
  LET before == Insertion(t)
      after == before + 1
  IN  IF \/ before = 0
         \/ /\ after <= Len(commands)
            /\ Distance(commands[after].t, t) <= Distance(commands[before].t, t)
      THEN commands[after] ELSE commands[before]

Correlated(i) ==
  LET pose == poses[i]
      command == NearestCommand(pose.t)
      previous == IF i = 1 THEN pose ELSE poses[i - 1]
  IN  [t |-> pose.t, step |-> Distance(previous.x, pose.x), elapsed |-> pose.t - previous.t,
       linear |-> command.linear, angular |-> command.angular,
       delta |-> Distance(command.t, pose.t), recovery |-> pose.recovery, tf |-> pose.tf]

CorrelateControlCommands ==
  /\ phase = "correlate"
  /\ LET sample == Correlated(Len(correlated) + 1)
     IN  IF sample.delta > Tolerance
         THEN phase' = "refused" /\ UNCHANGED correlated
         ELSE /\ correlated' = Append(correlated, sample)
              /\ phase' = IF Len(correlated') = Len(poses) THEN "detect" ELSE "correlate"
  /\ UNCHANGED <<poses, commands, scanned, windows, candidates>>

-----------------------------------------------------------------------------
(***************************************************************************)
(* detect_anomaly_windows, one sample at a time                            *)
(***************************************************************************)
FlagsForSample(i) ==
  LET current == correlated[i]
      previous == correlated[i - 1]
      raised ==
        [commanded_motion_without_progress |->
           /\ Distance(current.linear, 0) >= CommandedSpeed
           /\ current.step <= LowProgress * current.elapsed,
         angular_command_oscillation |->
           /\ Distance(current.angular, 0) >= Oscillation
           /\ Distance(previous.angular, 0) >= Oscillation
           /\ current.angular * previous.angular < 0,
         pose_discontinuity |-> current.step >= PoseJump,
         nav_recovery_activity |-> current.recovery > previous.recovery,
         localization_or_tf_evidence |-> ~current.tf]
  IN  IF i = 1 THEN {} ELSE {flag \in DOMAIN raised : raised[flag]}

ExtendedFromStart(window, t, flags) ==
  [window EXCEPT !.types = @ \cup flags, !.samples = @ + 1]

Extended(window, t, flags) ==
  [window EXCEPT !.end = t, !.types = @ \cup flags, !.samples = @ + 1]

Grouped(t, flags) ==
  LET last == Len(windows)
  IN  IF last = 0 \/ t - windows[last].end > WindowGap
      THEN Append(windows, [start |-> t, end |-> t, types |-> flags,
                            samples |-> 1, severity |-> "medium"])
      ELSE [windows EXCEPT ![last] = Extended(@, t, flags)]

ScanSample ==
  /\ phase = "detect"
  /\ scanned < Len(correlated)
  /\ scanned' = scanned + 1
  /\ LET flags == FlagsForSample(scanned')
     IN  windows' = IF flags = {} THEN windows ELSE Grouped(correlated[scanned'].t, flags)
  /\ UNCHANGED <<phase, poses, commands, correlated, candidates>>

AssignSeverity ==
  /\ phase = "detect"
  /\ scanned = Len(correlated)
  /\ windows' = [w \in DOMAIN windows |->
                   IF windows[w].types \cap Severe # {}
                   THEN [windows[w] EXCEPT !.severity = "high"] ELSE windows[w]]
  /\ phase' = "infer"
  /\ UNCHANGED <<poses, commands, correlated, scanned, candidates>>

InferCandidateMechanisms ==
  /\ phase = "infer"
  /\ candidates' = UNION {{<<Mechanism[flag], w>> : flag \in windows[w].types} : w \in DOMAIN windows}
  /\ phase' = "done"
  /\ UNCHANGED <<poses, commands, correlated, scanned, windows>>

AnalysisNext ==
  \/ LoadPoseSamples \/ LoadCommandSamples \/ CorrelateControlCommands
  \/ ScanSample \/ AssignSeverity \/ InferCandidateMechanisms

AnalysisSpec == AnalysisInit /\ [][AnalysisNext]_analysisVars

-----------------------------------------------------------------------------
(***************************************************************************)
(* Properties                                                              *)
(***************************************************************************)

(* The binary search with its two candidates finds what a search of the     *)
(* whole command log would: no command is nearer to the pose, of two at the *)
(* same distance the later is taken, the distance is within the tolerance,  *)
(* and time passed since the previous pose, so no speed divides by zero.    *)
(* An analysis is refused only for a log or a pose that deserves it         *)
(* (correlate_control_commands, experiment_analytics.py:251).               *)
MatchesAreNearest ==
  /\ \A i \in 1..Len(correlated) :
       /\ correlated[i].delta <= Tolerance
       /\ i > 1 => correlated[i].elapsed > 0
       /\ \E c \in 1..Len(commands) :
            /\ correlated[i].linear = commands[c].linear
            /\ correlated[i].angular = commands[c].angular
            /\ correlated[i].delta = Distance(commands[c].t, poses[i].t)
            /\ \A d \in 1..Len(commands) :
                 LET away == Distance(commands[d].t, poses[i].t)
                 IN  \/ away > correlated[i].delta
                     \/ away = correlated[i].delta /\ commands[d].t <= commands[c].t
  /\ /\ phase = "refused" /\ commands # <<>> /\ StrictlyIncreasing(commands)
     /\ \A c \in 1..Len(commands) : commands[c].t >= 0
     => \E i \in 1..Len(poses) : \A c \in 1..Len(commands) :
          Distance(commands[c].t, poses[i].t) > Tolerance

(* At the end the windows are the maximal runs of flagged samples with no   *)
(* silence longer than the gap: every flagged sample lies in one window,    *)
(* which carries its flags and counts it; windows start and end on flagged  *)
(* samples, are more than the gap apart and have no longer silence inside.  *)
(* A window is severe exactly when a localization flag is in it, and the    *)
(* candidates cite every window of theirs and no other (detect_anomaly_     *)
(* windows and infer_candidate_mechanisms, experiment_analytics.py:327).    *)
WindowsAreMaximalRuns ==
  LET flagged == {i \in 1..Len(correlated) : FlagsForSample(i) # {}}
      Within(w) == {i \in flagged : correlated[i].t \in windows[w].start..windows[w].end}
  IN  phase = "done" =>
        /\ flagged = UNION {Within(w) : w \in DOMAIN windows}
        /\ \A w \in DOMAIN windows :
             /\ windows[w].types = UNION {FlagsForSample(i) : i \in Within(w)}
             /\ windows[w].samples = Cardinality(Within(w))
             /\ {windows[w].start, windows[w].end} \subseteq {correlated[i].t : i \in Within(w)}
             /\ w > 1 => windows[w].start - windows[w - 1].end > WindowGap
             /\ \A i \in Within(w) : \/ correlated[i].t = windows[w].end
                                     \/ \E j \in Within(w) :
                                          correlated[j].t - correlated[i].t \in 1..WindowGap
             /\ (windows[w].severity = "high") <=> \E i \in Within(w) : FlagsForSample(i) \cap Severe # {}
             /\ \A flag \in DOMAIN Mechanism :
                  (<<Mechanism[flag], w>> \in candidates) <=> \E i \in Within(w) : flag \in FlagsForSample(i)
=============================================================================
