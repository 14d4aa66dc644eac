--------------------- MODULE ExperimentAnalyticsProofs ---------------------
(***************************************************************************)
(* What the analysis of an experiment guarantees for logs of any length    *)
(* and any thresholds: the binary search finds the nearest command, and    *)
(* the windows that detect_anomaly_windows grows sample by sample are the  *)
(* maximal runs of flagged samples.                                        *)
(*                                                                         *)
(* Both rest on the order of the timestamps.  The loaders compare          *)
(* neighbours only; that a log is then in order as a whole, and that the   *)
(* commands before an instant are an initial segment of the log, follows   *)
(* from the cardinalities of intervals (InitialSegment).                   *)
(***************************************************************************)
EXTENDS ExperimentAnalytics, FiniteSetTheorems, SequenceTheorems, TLAPS

(***************************************************************************)
(* Initial segments and logs in order                                      *)
(***************************************************************************)
LEMMA InitialSegment ==
  ASSUME NEW n \in Nat, NEW S \in SUBSET (1..n),
         \A i \in S : \A j \in 1..i : j \in S
  PROVE  Cardinality(S) \in 0..n /\ S = 1..Cardinality(S)
<1>1. IsFiniteSet(1..n) /\ Cardinality(1..n) = n
  BY FS_Interval
<1>2. IsFiniteSet(S) /\ Cardinality(S) \in Nat /\ Cardinality(S) <= n
  <2>1. IsFiniteSet(S) /\ Cardinality(S) <= n
    BY <1>1, FS_Subset, ZenonT(20)
  <2>2. Cardinality(S) \in Nat
    BY <2>1, FS_CardinalityType, ZenonT(20)
  <2> QED BY <2>1, <2>2
<1>3. ASSUME NEW i \in S PROVE i <= Cardinality(S)
  <2>1. i \in 1..n /\ 1..i \subseteq S
    OBVIOUS
  <2>2. IsFiniteSet(1..i) /\ Cardinality(1..i) = i
    BY <2>1, FS_Interval
  <2> QED BY <1>2, <2>1, <2>2, FS_Subset
<1> DEFINE T == 1..Cardinality(S)
<1>4. S \in SUBSET T
  BY <1>2, <1>3
<1>5. IsFiniteSet(T) /\ Cardinality(T) = Cardinality(S)
  BY <1>2, FS_Interval
<1>6. T = S
  <2> HIDE DEF T
  <2> QED BY <1>4, <1>5, FS_Subset
<1> QED BY <1>2, <1>6

\* a set of positions that holds the first one and the next of each is everything
LEMMA Stepwise ==
  ASSUME NEW n \in Nat, NEW S,
         \A i \in 1..n : (i = 1 \/ i - 1 \in S) => i \in S
  PROVE  1..n \subseteq S
<1> DEFINE D == {i \in 1..n : 1..i \subseteq S}
           k == Cardinality(D)
<1>1. D \in SUBSET (1..n) /\ \A i \in D : \A j \in 1..i : j \in D
  OBVIOUS
<1> HIDE DEF D
<1>2. k \in 0..n /\ D = 1..k
  BY <1>1, InitialSegment
<1> HIDE DEF k
<1>3. 1..k \subseteq S
  BY <1>2 DEF D
<1>4. CASE k = n
  BY <1>3, <1>4
<1>5. CASE k # n
  <2>1. k + 1 \in 1..n /\ (k + 1) - 1 = k /\ k \in Nat
    BY <1>2, <1>5
  <2>2. k + 1 = 1 \/ k \in S
    BY <1>3, <2>1
  <2>3. k + 1 \in S
    BY <2>1, <2>2
  <2>4. 1..k + 1 \subseteq S
    BY <1>3, <2>1, <2>3
  <2>5. k + 1 \in D
    BY <2>1, <2>4 DEF D
  <2> QED BY <1>2, <2>1, <2>5
<1> QED BY <1>4, <1>5

InOrder(log) == \A i, j \in 1..Len(log) : i < j => log[i].t < log[j].t

LEMMA IncreasingIsInOrder ==
  ASSUME NEW log, Len(log) \in Nat, \A i \in 1..Len(log) : log[i].t \in Int,
         StrictlyIncreasing(log)
  PROVE  InOrder(log)
<1> SUFFICES ASSUME NEW i \in 1..Len(log)
             PROVE  \A j \in 1..Len(log) : i < j => log[i].t < log[j].t
  BY DEF InOrder
<1> DEFINE S == {j \in 1..Len(log) : i < j => log[i].t < log[j].t}
<1>1. ASSUME NEW j \in 1..Len(log), j = 1 \/ j - 1 \in S PROVE j \in S
  <2>1. CASE j <= i
    BY <2>1
  <2>2. CASE j > i
    <3>1. j - 1 \in 1..Len(log) - 1 /\ (j - 1) + 1 = j
      BY <2>2
    <3>2. log[j - 1].t < log[j].t
      BY <3>1 DEF StrictlyIncreasing
    <3>3. i = j - 1 \/ log[i].t < log[j - 1].t
      BY <1>1, <2>2
    <3>4. log[i].t \in Int /\ log[j - 1].t \in Int /\ log[j].t \in Int
      BY <3>1
    <3>5. log[i].t < log[j].t
      BY <3>2, <3>3, <3>4
    <3> QED BY <3>5
  <2> QED BY <2>1, <2>2
<1>2. 1..Len(log) \subseteq S
  BY <1>1, Stepwise
<1> QED BY <1>2

(***************************************************************************)
(* The nearest command                                                     *)
(***************************************************************************)
LEMMA DistanceIs ==
  ASSUME NEW a \in Int, NEW b \in Int
  PROVE  /\ Distance(a, b) \in Nat
         /\ a <= b => Distance(a, b) = b - a
         /\ b <= a => Distance(a, b) = a - b
BY DEF Distance

\* a command further from t, on the same side, than one that does not win does
\* not win either
LEMMA EarlierLoses ==
  ASSUME NEW t \in Int, NEW d \in Int, NEW b \in Int, NEW a \in Int,
         d <= b, b < t, t <= a, a - t <= t - b
  PROVE  a - t <= t - d /\ d <= a
OBVIOUS

LEMMA LaterLoses ==
  ASSUME NEW t \in Int, NEW d \in Int, NEW b \in Int, NEW a \in Int,
         a <= d, ~ a - t <= t - b
  PROVE  d - t > t - b
OBVIOUS

\* bisect_left: the commands before an instant are those up to the insertion point
LEMMA CommandTimes ==
  ASSUME commands \in Seq(CommandSample)
  PROVE  Len(commands) \in Nat /\ \A c \in 1..Len(commands) : commands[c].t \in Int
<1>1. Len(commands) \in Nat /\ \A c \in 1..Len(commands) : commands[c] \in CommandSample
  OBVIOUS
<1> QED BY <1>1 DEF CommandSample

LEMMA Bisection ==
  ASSUME commands \in Seq(CommandSample), InOrder(commands), NEW t \in Int
  PROVE  /\ Insertion(t) \in 0..Len(commands)
         /\ \A c \in 1..Len(commands) : c <= Insertion(t) <=> commands[c].t < t
<1> DEFINE S == {i \in 1..Len(commands) : commands[i].t < t}
<1>1. \A i \in 1..Len(commands) : commands[i].t \in Int
  BY CommandTimes
<1>2. ASSUME NEW i \in S, NEW j \in 1..i PROVE j \in S
  <2>1. i = j \/ commands[j].t < commands[i].t
    BY DEF InOrder
  <2> QED BY <1>1, <2>1
<1>3. Len(commands) \in Nat /\ S \in SUBSET (1..Len(commands))
  OBVIOUS
<1>4. Cardinality(S) \in 0..Len(commands) /\ S = 1..Cardinality(S)
  <2> HIDE DEF S
  <2> QED BY <1>2, <1>3, InitialSegment
<1>5. Insertion(t) = Cardinality(S)
  BY DEF Insertion
<1>6. \A c \in 1..Len(commands) : c \in S <=> commands[c].t < t
  OBVIOUS
<1> QED
  <2> HIDE DEF S
  <2> QED BY <1>4, <1>5, <1>6

\* no command is nearer than the one chosen, and of two equally near it is the later
Nearest(c, t) ==
  \A d \in 1..Len(commands) :
    LET away == Distance(commands[d].t, t)
    IN  \/ away > Distance(commands[c].t, t)
        \/ away = Distance(commands[c].t, t) /\ commands[d].t <= commands[c].t

LEMMA SearchFindsNearest ==
  ASSUME commands \in Seq(CommandSample), commands # <<>>, InOrder(commands), NEW t \in Int
  PROVE  \E c \in 1..Len(commands) : NearestCommand(t) = commands[c] /\ Nearest(c, t)
<1> DEFINE before == Insertion(t)
           after == before + 1
<1>1. /\ before \in 0..Len(commands)
      /\ \A d \in 1..Len(commands) : d <= before <=> commands[d].t < t
  BY Bisection
<1>2. /\ Len(commands) \in Nat /\ Len(commands) > 0
      /\ \A d \in 1..Len(commands) : commands[d].t \in Int
  BY CommandTimes, EmptySeq
<1>3. \A d, e \in 1..Len(commands) : d < e => commands[d].t < commands[e].t
  BY DEF InOrder
<1>4. \A d \in 1..Len(commands) :
        Distance(commands[d].t, t) = IF d <= before THEN t - commands[d].t ELSE commands[d].t - t
  BY <1>1, <1>2 DEF Distance
<1>5. CASE \/ before = 0
           \/ after <= Len(commands) /\ Distance(commands[after].t, t) <= Distance(commands[before].t, t)
  <2>1. after \in 1..Len(commands) /\ NearestCommand(t) = commands[after]
    BY <1>1, <1>2, <1>5 DEF NearestCommand
  <2>2. ASSUME NEW d \in 1..Len(commands)
        PROVE  \/ Distance(commands[d].t, t) > Distance(commands[after].t, t)
               \/ /\ Distance(commands[d].t, t) = Distance(commands[after].t, t)
                  /\ commands[d].t <= commands[after].t
    <3> HIDE DEF before
    <3>1. CASE d > before
      <4>1. d = after \/ commands[after].t < commands[d].t
        BY <1>1, <1>3, <2>1, <3>1
      <4>2. /\ Distance(commands[d].t, t) = commands[d].t - t
            /\ Distance(commands[after].t, t) = commands[after].t - t
        BY <1>1, <1>4, <2>1, <3>1
      <4>3. commands[d].t \in Int /\ commands[after].t \in Int
        BY <1>2, <2>1
      <4> QED BY <4>1, <4>2, <4>3
    <3>2. CASE d <= before
      <4>1. before \in 1..Len(commands) /\ before # 0
        BY <1>1, <3>2
      <4>2. d = before \/ commands[d].t < commands[before].t
        BY <1>3, <3>2, <4>1
      <4>3. Distance(commands[after].t, t) <= Distance(commands[before].t, t)
        BY <1>5, <4>1
      <4>4. commands[d].t < t /\ t <= commands[after].t
        BY <1>1, <1>2, <2>1, <3>2
      <4>5. /\ Distance(commands[d].t, t) = t - commands[d].t
            /\ Distance(commands[before].t, t) = t - commands[before].t
            /\ Distance(commands[after].t, t) = commands[after].t - t
        BY <1>1, <1>4, <2>1, <3>2, <4>1
      <4>6. commands[d].t \in Int /\ commands[before].t \in Int /\ commands[after].t \in Int
        BY <1>2, <2>1, <4>1
      <4>7. commands[after].t - t <= t - commands[before].t
        BY <4>3, <4>5
      <4>8. commands[d].t <= commands[before].t /\ commands[before].t < t
        BY <1>1, <4>1, <4>2, <4>6
      <4>9. commands[after].t - t <= t - commands[d].t /\ commands[d].t <= commands[after].t
        BY <4>4, <4>6, <4>7, <4>8, EarlierLoses
      <4>10. Distance(commands[after].t, t) <= Distance(commands[d].t, t)
        BY <4>5, <4>9
      <4>11. Distance(commands[after].t, t) \in Int /\ Distance(commands[d].t, t) \in Int
        BY <4>5, <4>6
      <4> QED BY <4>9, <4>10, <4>11
    <3> QED BY <1>1, <3>1, <3>2
  <2> QED BY <2>1, <2>2 DEF Nearest
<1>6. CASE ~ \/ before = 0
             \/ after <= Len(commands) /\ Distance(commands[after].t, t) <= Distance(commands[before].t, t)
  <2>1. before \in 1..Len(commands) /\ NearestCommand(t) = commands[before]
    BY <1>1, <1>2, <1>6 DEF NearestCommand
  <2>2. ASSUME NEW d \in 1..Len(commands)
        PROVE  \/ Distance(commands[d].t, t) > Distance(commands[before].t, t)
               \/ /\ Distance(commands[d].t, t) = Distance(commands[before].t, t)
                  /\ commands[d].t <= commands[before].t
    <3> HIDE DEF before
    <3>1. CASE d > before
      <4>1. after \in 1..Len(commands) /\ (d = after \/ commands[after].t < commands[d].t)
        BY <1>1, <1>3, <3>1
      <4>2. ~ Distance(commands[after].t, t) <= Distance(commands[before].t, t)
        BY <1>6, <4>1
      <4>3. /\ Distance(commands[d].t, t) = commands[d].t - t
            /\ Distance(commands[after].t, t) = commands[after].t - t
            /\ Distance(commands[before].t, t) = t - commands[before].t
        BY <1>1, <1>4, <2>1, <3>1, <4>1
      <4>4. commands[d].t \in Int /\ commands[before].t \in Int /\ commands[after].t \in Int
        BY <1>2, <2>1, <4>1
      <4>5. commands[after].t <= commands[d].t
        BY <4>1, <4>4
      <4>6. ~ commands[after].t - t <= t - commands[before].t
        BY <4>2, <4>3
      <4>7. commands[d].t - t > t - commands[before].t
        BY <4>4, <4>5, <4>6, LaterLoses
      <4> QED BY <4>3, <4>7
    <3>2. CASE d <= before
      <4>1. d = before \/ commands[d].t < commands[before].t
        BY <1>3, <2>1, <3>2
      <4>2. /\ Distance(commands[d].t, t) = t - commands[d].t
            /\ Distance(commands[before].t, t) = t - commands[before].t
        BY <1>1, <1>4, <2>1, <3>2
      <4>3. commands[d].t \in Int /\ commands[before].t \in Int
        BY <1>2, <2>1
      <4> QED BY <4>1, <4>2, <4>3
    <3> QED BY <1>1, <3>1, <3>2
  <2> QED BY <2>1, <2>2 DEF Nearest
<1> QED BY <1>5, <1>6

-----------------------------------------------------------------------------
(***************************************************************************)
(* The inductive invariant                                                 *)
(***************************************************************************)
CorrelatedSample ==
  [t : Int, step : Int, elapsed : Int, linear : Int, angular : Int,
   delta : Int, recovery : Int, tf : BOOLEAN]

Window ==
  [start : Int, end : Int, types : SUBSET DOMAIN Mechanism, samples : Nat,
   severity : {"medium", "high"}]

AnalysisTypeOK ==
  /\ phase \in {"load_poses", "load_commands", "correlate", "detect", "infer", "done", "refused"}
  /\ poses \in Seq(PoseSample)
  /\ commands \in Seq(CommandSample)
  /\ correlated \in Seq(CorrelatedSample)
  /\ scanned \in 0..Len(correlated)
  /\ windows \in Seq(Window)

\* what each phase has loaded and joined
LoadedInv ==
  /\ phase \notin {"load_poses", "refused"} => InOrder(poses)
  /\ phase \in {"correlate", "detect", "infer", "done"} => InOrder(commands) /\ commands # <<>>
  /\ phase \in {"load_poses", "load_commands"} => commands = <<>> /\ correlated = <<>>
  /\ phase \in {"load_poses", "load_commands", "correlate"} => scanned = 0 /\ windows = <<>>
  /\ phase = "load_commands" => Len(poses) > 0
  /\ phase = "correlate" => Len(correlated) < Len(poses)
  /\ Len(correlated) <= Len(poses)
  /\ phase # "refused" => \A i \in 1..Len(correlated) : correlated[i].t = poses[i].t

\* the flagged samples among the first n, and those that lie within a window
Flagged(n) == {i \in 1..n : FlagsForSample(i) # {}}
InWindow(n, window) == {i \in Flagged(n) : correlated[i].t \in window.start..window.end}

\* a window is one run of flagged samples, with their flags and their number
HoldsRun(n, window) ==
  /\ window.types = UNION {FlagsForSample(i) : i \in InWindow(n, window)}
  /\ window.samples = Cardinality(InWindow(n, window))
  /\ {window.start, window.end} \subseteq {correlated[i].t : i \in InWindow(n, window)}
  /\ \A i \in InWindow(n, window) :
       \/ correlated[i].t = window.end
       \/ \E j \in InWindow(n, window) : correlated[j].t - correlated[i].t \in 1..WindowGap

\* the windows are the maximal runs of the first n samples
MaximalRuns(n, ws) ==
  /\ Flagged(n) = UNION {InWindow(n, ws[w]) : w \in DOMAIN ws}
  /\ \A w \in DOMAIN ws :
       /\ HoldsRun(n, ws[w])
       /\ w > 1 => ws[w].start - ws[w - 1].end > WindowGap
  /\ ws # <<>> => \A i \in Flagged(n) : correlated[i].t <= ws[Len(ws)].end

WindowsInv ==
  /\ phase \in {"detect", "infer", "done"} => MaximalRuns(scanned, windows)
  /\ phase \in {"infer", "done"} => scanned = Len(correlated)
  /\ phase \in {"correlate", "detect"} => \A w \in DOMAIN windows : windows[w].severity = "medium"
  /\ phase \in {"infer", "done"} =>
       \A w \in DOMAIN windows : (windows[w].severity = "high") <=> windows[w].types \cap Severe # {}
  /\ phase = "done" =>
       candidates = UNION {{<<Mechanism[flag], w>> : flag \in windows[w].types} : w \in DOMAIN windows}

AnalysisInv == AnalysisTypeOK /\ LoadedInv /\ MatchesAreNearest /\ WindowsInv

LEMMA AnalysisInitially == AnalysisInit => AnalysisInv
<1> SUFFICES ASSUME AnalysisInit PROVE AnalysisInv
  OBVIOUS
<1>1. AnalysisTypeOK
  BY DEF AnalysisInit, AnalysisTypeOK
<1>2. LoadedInv
  BY DEF AnalysisInit, LoadedInv
<1>3. MatchesAreNearest
  BY DEF AnalysisInit, MatchesAreNearest
<1>4. WindowsInv
  BY DEF AnalysisInit, WindowsInv
<1> QED BY <1>1, <1>2, <1>3, <1>4 DEF AnalysisInv

(***************************************************************************)
(* Loading                                                                 *)
(***************************************************************************)
LEMMA LogTimes ==
  ASSUME NEW log \in Seq(PoseSample) \cup Seq(CommandSample)
  PROVE  Len(log) \in Nat /\ \A i \in 1..Len(log) : log[i].t \in Int
<1>1. CASE log \in Seq(PoseSample)
  <2>1. Len(log) \in Nat /\ \A c \in 1..Len(log) : log[c] \in PoseSample
    BY <1>1
  <2> QED BY <2>1 DEF PoseSample
<1>2. CASE log \in Seq(CommandSample)
  <2>1. Len(log) \in Nat /\ \A c \in 1..Len(log) : log[c] \in CommandSample
    BY <1>2
  <2> QED BY <2>1 DEF CommandSample
<1> QED BY <1>1, <1>2

LEMMA PosesLoad ==
  ASSUME AnalysisInv, LoadPoseSamples
  PROVE  AnalysisInv'
<1> USE DEF AnalysisInv
<1>1. /\ poses' \in Seq(PoseSample) /\ phase = "load_poses" /\ phase' \in {"load_commands", "refused"}
      /\ phase' = "load_commands" => Len(poses') > 0 /\ StrictlyIncreasing(poses')
      /\ UNCHANGED <<commands, correlated, scanned, windows, candidates>>
  BY LogsAssumption DEF LoadPoseSamples
<1>2. /\ commands' = <<>> /\ correlated' = <<>> /\ scanned' = 0 /\ windows' = <<>>
      /\ Len(poses') \in Nat /\ Len(correlated') = 0
  BY <1>1 DEF LoadedInv
<1>3. AnalysisTypeOK'
  BY <1>1, <1>2 DEF AnalysisTypeOK
<1>4. phase' = "load_commands" => InOrder(poses')
  BY <1>1, LogTimes, IncreasingIsInOrder
<1>5. LoadedInv'
  BY <1>1, <1>2, <1>4 DEF LoadedInv
<1>6. MatchesAreNearest'
  BY <1>2 DEF MatchesAreNearest
<1>7. WindowsInv'
  BY <1>1 DEF WindowsInv
<1> QED BY <1>3, <1>5, <1>6, <1>7

LEMMA CommandsLoad ==
  ASSUME AnalysisInv, LoadCommandSamples
  PROVE  AnalysisInv'
<1> USE DEF AnalysisInv
<1>1. /\ commands' \in Seq(CommandSample) /\ phase = "load_commands" /\ phase' \in {"correlate", "refused"}
      /\ phase' = "correlate" => commands' # <<>> /\ StrictlyIncreasing(commands')
      /\ phase' = "refused" => \/ commands' = <<>> \/ ~ StrictlyIncreasing(commands')
                               \/ ~ \A c \in 1..Len(commands') : commands'[c].t >= 0
      /\ UNCHANGED <<poses, correlated, scanned, windows, candidates>>
  BY LogsAssumption DEF LoadCommandSamples
<1>2. /\ correlated' = <<>> /\ scanned' = 0 /\ windows' = <<>> /\ InOrder(poses')
      /\ Len(poses') > 0 /\ Len(poses') \in Nat /\ Len(correlated') = 0
  BY <1>1 DEF LoadedInv, AnalysisTypeOK
<1>3. AnalysisTypeOK'
  BY <1>1, <1>2 DEF AnalysisTypeOK
<1>4. phase' = "correlate" => InOrder(commands')
  BY <1>1, LogTimes, IncreasingIsInOrder
<1>5. LoadedInv'
  BY <1>1, <1>2, <1>4 DEF LoadedInv
<1>6. MatchesAreNearest'
  <2>1. ~ (phase' = "refused" /\ commands' # <<>> /\ StrictlyIncreasing(commands')
           /\ \A c \in 1..Len(commands') : commands'[c].t >= 0)
    BY <1>1
  <2>2. StrictlyIncreasing(commands)' <=> StrictlyIncreasing(commands')
    BY DEF StrictlyIncreasing
  <2> QED BY <1>2, <2>1, <2>2 DEF MatchesAreNearest
<1>7. WindowsInv'
  BY <1>1, <1>2 DEF WindowsInv
<1> QED BY <1>3, <1>5, <1>6, <1>7

(***************************************************************************)
(* Joining                                                                 *)
(***************************************************************************)
\* what MatchesAreNearest says of the sample made of pose i
MatchNearest(sample, i) ==
  /\ sample.delta <= Tolerance
  /\ i > 1 => sample.elapsed > 0
  /\ \E c \in 1..Len(commands) :
       /\ sample.linear = commands[c].linear
       /\ sample.angular = commands[c].angular
       /\ sample.delta = Distance(commands[c].t, poses[i].t)
       /\ \A d \in 1..Len(commands) :
            LET away == Distance(commands[d].t, poses[i].t)
            IN  \/ away > sample.delta
                \/ away = sample.delta /\ commands[d].t <= commands[c].t

LEMMA CorrelatedPoses ==
  ASSUME AnalysisTypeOK, LoadedInv, phase = "correlate",
         NEW i, i = Len(correlated) + 1
  PROVE  /\ i \in 1..Len(poses) /\ i \in Nat /\ poses[i].t \in Int
         /\ Correlated(i) \in CorrelatedSample
         /\ Correlated(i).t = poses[i].t
         /\ i > 1 => Correlated(i).elapsed > 0
         /\ \E c \in 1..Len(commands) :
              /\ Correlated(i).linear = commands[c].linear
              /\ Correlated(i).angular = commands[c].angular
              /\ Correlated(i).delta = Distance(commands[c].t, poses[i].t)
              /\ Nearest(c, poses[i].t)
<1>1. /\ Len(correlated) \in Nat /\ Len(poses) \in Nat /\ i \in 1..Len(poses) /\ i \in Nat
      /\ i # 1 => i - 1 \in 1..Len(poses) /\ i - 1 < i
      /\ \A j \in 1..Len(poses) : poses[j] \in PoseSample
  BY DEF AnalysisTypeOK, LoadedInv
<1>2. \A j \in 1..Len(poses) :
        /\ poses[j].t \in Int /\ poses[j].x \in Int
        /\ poses[j].recovery \in Int /\ poses[j].tf \in BOOLEAN
  BY <1>1 DEF PoseSample
<1>3. commands \in Seq(CommandSample) /\ commands # <<>> /\ InOrder(commands) /\ InOrder(poses)
  BY DEF AnalysisTypeOK, LoadedInv
<1>4. PICK c \in 1..Len(commands) : NearestCommand(poses[i].t) = commands[c] /\ Nearest(c, poses[i].t)
  BY <1>1, <1>2, <1>3, SearchFindsNearest
<1>5. commands[c] \in CommandSample
  BY <1>3
<1>6. /\ commands[c].t \in Int /\ commands[c].linear \in Int /\ commands[c].angular \in Int
  BY <1>5 DEF CommandSample
<1> DEFINE previous == IF i = 1 THEN poses[i] ELSE poses[i - 1]
<1>7. /\ previous.t \in Int /\ previous.x \in Int
      /\ i > 1 => previous.t < poses[i].t
  BY <1>1, <1>2, <1>3 DEF InOrder
<1>8. Correlated(i) =
        [t |-> poses[i].t, step |-> Distance(previous.x, poses[i].x), elapsed |-> poses[i].t - previous.t,
         linear |-> commands[c].linear, angular |-> commands[c].angular,
         delta |-> Distance(commands[c].t, poses[i].t),
         recovery |-> poses[i].recovery, tf |-> poses[i].tf]
  BY <1>4 DEF Correlated
<1> HIDE DEF previous
<1>9. Distance(previous.x, poses[i].x) \in Int /\ Distance(commands[c].t, poses[i].t) \in Int
  <2>1. poses[i].x \in Int /\ poses[i].t \in Int /\ previous.x \in Int /\ commands[c].t \in Int
    BY <1>1, <1>2, <1>6, <1>7
  <2>2. Distance(previous.x, poses[i].x) \in Nat
    BY <2>1, DistanceIs
  <2>3. Distance(commands[c].t, poses[i].t) \in Nat
    BY <2>1, DistanceIs
  <2> QED BY <2>2, <2>3
<1>10. poses[i].t - previous.t \in Int /\ (i > 1 => poses[i].t - previous.t > 0)
  BY <1>1, <1>2, <1>7
<1>11. Correlated(i) \in CorrelatedSample
  <2>1. poses[i].t \in Int /\ poses[i].recovery \in Int /\ poses[i].tf \in BOOLEAN
    BY <1>1, <1>2
  <2> QED BY <1>6, <1>8, <1>9, <1>10, <2>1 DEF CorrelatedSample
<1>12. /\ Correlated(i).t = poses[i].t
       /\ i > 1 => Correlated(i).elapsed > 0
       /\ Correlated(i).linear = commands[c].linear
       /\ Correlated(i).angular = commands[c].angular
       /\ Correlated(i).delta = Distance(commands[c].t, poses[i].t)
  BY <1>8, <1>10
<1> QED BY <1>1, <1>2, <1>4, <1>11, <1>12

LEMMA PosesJoin ==
  ASSUME AnalysisInv, CorrelateControlCommands
  PROVE  AnalysisInv'
<1> DEFINE i == Len(correlated) + 1
           sample == Correlated(i)
<1>1. /\ AnalysisTypeOK /\ LoadedInv /\ MatchesAreNearest /\ WindowsInv /\ phase = "correlate"
      /\ UNCHANGED <<poses, commands, scanned, windows, candidates>>
      /\ \/ sample.delta > Tolerance /\ phase' = "refused" /\ correlated' = correlated
         \/ /\ ~ sample.delta > Tolerance
            /\ correlated' = Append(correlated, sample)
            /\ phase' = IF Len(correlated') = Len(poses) THEN "detect" ELSE "correlate"
  BY DEF AnalysisInv, CorrelateControlCommands
<1>2. /\ i \in 1..Len(poses) /\ i \in Nat /\ poses[i].t \in Int
      /\ sample \in CorrelatedSample /\ sample.t = poses[i].t
      /\ i > 1 => sample.elapsed > 0
      /\ \E c \in 1..Len(commands) :
              /\ sample.linear = commands[c].linear
              /\ sample.angular = commands[c].angular
              /\ sample.delta = Distance(commands[c].t, poses[i].t)
              /\ Nearest(c, poses[i].t)
  <2> HIDE DEF i
  <2>1. i = Len(correlated) + 1
    BY DEF i
  <2> QED BY <1>1, <2>1, CorrelatedPoses
<1>3. /\ Len(correlated) \in Nat /\ Len(poses) \in Nat /\ correlated \in Seq(CorrelatedSample)
      /\ scanned = 0 /\ windows = <<>> /\ Len(correlated) < Len(poses)
      /\ InOrder(poses) /\ InOrder(commands) /\ commands # <<>>
      /\ \A j \in 1..Len(correlated) : correlated[j].t = poses[j].t
  BY <1>1 DEF AnalysisTypeOK, LoadedInv
<1> HIDE DEF sample
<1>4. CASE sample.delta > Tolerance /\ phase' = "refused" /\ correlated' = correlated
  <2>1. AnalysisTypeOK'
    BY <1>1, <1>4 DEF AnalysisTypeOK
  <2>2. LoadedInv'
    BY <1>1, <1>3, <1>4 DEF LoadedInv
  <2>3. \A c \in 1..Len(commands) : Distance(commands[c].t, poses[i].t) > Tolerance
    <3>1. PICK best \in 1..Len(commands) :
            sample.delta = Distance(commands[best].t, poses[i].t) /\ Nearest(best, poses[i].t)
      BY <1>2
    <3>2. \A c \in 1..Len(commands) : Distance(commands[c].t, poses[i].t) \in Nat
      BY <1>1, <1>2, CommandTimes, DistanceIs DEF AnalysisTypeOK
    <3>3. sample.delta \in Nat /\ Tolerance \in Nat /\ sample.delta > Tolerance
      BY <1>4, <3>1, <3>2, ParametersAssumption
    <3>4. ASSUME NEW c \in 1..Len(commands)
          PROVE  \/ Distance(commands[c].t, poses[i].t) > sample.delta
                 \/ Distance(commands[c].t, poses[i].t) = sample.delta
      BY <3>1 DEF Nearest
    <3>5. ASSUME NEW c \in 1..Len(commands)
          PROVE  Distance(commands[c].t, poses[i].t) > Tolerance
      <4>1. Distance(commands[c].t, poses[i].t) \in Nat
        BY <3>2
      <4> HIDE DEF i
      <4> QED BY <3>3, <3>4, <4>1
    <3> QED BY <3>5
  <2>4. MatchesAreNearest'
    BY <1>1, <1>2, <1>4, <2>3 DEF MatchesAreNearest
  <2>5. WindowsInv'
    BY <1>4 DEF WindowsInv
  <2> QED BY <2>1, <2>2, <2>4, <2>5 DEF AnalysisInv
<1>5. CASE /\ ~ sample.delta > Tolerance
           /\ correlated' = Append(correlated, sample)
           /\ phase' = IF Len(correlated') = Len(poses) THEN "detect" ELSE "correlate"
  <2>1. /\ correlated' \in Seq(CorrelatedSample) /\ Len(correlated') = i
        /\ correlated'[i] = sample
        /\ \A j \in 1..Len(correlated) : correlated'[j] = correlated[j]
    BY <1>2, <1>3, <1>5
  <2>2. \A j \in 1..Len(correlated') : j = i \/ j \in 1..Len(correlated)
    BY <1>3, <2>1
  <2>3. /\ phase' \in {"detect", "correlate"} /\ (phase' = "correlate" => i < Len(poses))
    BY <1>2, <1>3, <1>5, <2>1
  <2> HIDE DEF i
  <2>4. AnalysisTypeOK'
    BY <1>1, <1>2, <1>3, <2>1, <2>3 DEF AnalysisTypeOK
  <2>5. LoadedInv'
    <3>1. \A j \in 1..Len(correlated') : correlated'[j].t = poses'[j].t
      BY <1>1, <1>2, <1>3, <2>1, <2>2
    <3>2. poses' = poses /\ commands' = commands /\ scanned' = 0 /\ windows' = <<>>
      BY <1>1, <1>3
    <3>3. InOrder(poses)' /\ InOrder(commands)' /\ commands' # <<>>
      BY <1>3, <3>2 DEF InOrder
    <3>4. /\ Len(poses') > 0 /\ Len(correlated') <= Len(poses')
          /\ phase' = "correlate" => Len(correlated') < Len(poses')
      BY <1>2, <1>3, <2>1, <2>3, <3>2
    <3> QED BY <2>3, <3>1, <3>2, <3>3, <3>4 DEF LoadedInv
  <2>6. MatchesAreNearest'
    <3>1. sample.delta <= Tolerance
      <4>1. sample.delta \in Int /\ Tolerance \in Nat
        BY <1>2, ParametersAssumption DEF CorrelatedSample
      <4> QED BY <1>5, <4>1
    <3>2. \E c \in 1..Len(commands) :
            /\ sample.linear = commands[c].linear
            /\ sample.angular = commands[c].angular
            /\ sample.delta = Distance(commands[c].t, poses[i].t)
            /\ \A d \in 1..Len(commands) :
                 LET away == Distance(commands[d].t, poses[i].t)
                 IN  \/ away > sample.delta
                     \/ away = sample.delta /\ commands[d].t <= commands[c].t
      BY <1>2 DEF Nearest
    <3>3. MatchNearest(correlated'[i], i)
      BY <1>2, <2>1, <3>1, <3>2 DEF MatchNearest
    <3>4. \A j \in 1..Len(correlated) : MatchNearest(correlated'[j], j)
      <4>1. \A j \in 1..Len(correlated) : MatchNearest(correlated[j], j)
        BY <1>1 DEF MatchesAreNearest, MatchNearest
      <4> QED BY <2>1, <4>1
    <3>5. \A j \in 1..Len(correlated') : MatchNearest(correlated'[j], j)
      BY <2>2, <3>3, <3>4
    <3>6. \A j \in 1..Len(correlated') : MatchNearest(correlated[j], j)'
      <4>1. poses' = poses /\ commands' = commands
        BY <1>1
      <4> QED BY <3>5, <4>1 DEF MatchNearest
    <3>7. phase' # "refused"
      BY <2>3
    <3> QED BY <3>6, <3>7 DEF MatchesAreNearest, MatchNearest
  <2>7. WindowsInv'
    <3>1. Flagged(0)' = {}
      BY DEF Flagged
    <3>2. scanned' = 0 /\ windows' = <<>>
      BY <1>1, <1>3
    <3>3. MaximalRuns(scanned, windows)'
      BY <3>1, <3>2 DEF MaximalRuns
    <3> QED BY <2>3, <3>2, <3>3 DEF WindowsInv
  <2> QED BY <2>4, <2>5, <2>6, <2>7 DEF AnalysisInv
<1> QED BY <1>1, <1>4, <1>5

(***************************************************************************)
(* Grouping: what the next sample does to the run a window holds           *)
(***************************************************************************)
\* the first k samples have timestamps, in order
Timed(k) ==
  /\ \A i \in 1..k : correlated[i].t \in Int
  /\ \A i, j \in 1..k : i < j => correlated[i].t < correlated[j].t

LEMMA KnownFlags ==
  ASSUME NEW i
  PROVE  FlagsForSample(i) \in SUBSET DOMAIN Mechanism
BY DEF FlagsForSample, Mechanism

LEMMA FlaggedNext ==
  ASSUME NEW n \in Nat
  PROVE  /\ FlagsForSample(n + 1) = {} => Flagged(n + 1) = Flagged(n)
         /\ FlagsForSample(n + 1) # {} => Flagged(n + 1) = Flagged(n) \cup {n + 1}
         /\ Flagged(n) \subseteq 1..n
<1>1. 1..(n + 1) = (1..n) \cup {n + 1}
  OBVIOUS
<1> QED BY <1>1 DEF Flagged

\* a window that ends before the next sample keeps its run
LEMMA WindowKept ==
  ASSUME NEW n \in Nat, NEW window \in Window, Timed(n + 1), HoldsRun(n, window)
  PROVE  window.end < correlated[n + 1].t /\ InWindow(n + 1, window) = InWindow(n, window)
         /\ HoldsRun(n + 1, window)
<1>1. PICK i \in InWindow(n, window) : window.end = correlated[i].t
  BY DEF HoldsRun
<1>2. i \in 1..n /\ i \in 1..(n + 1) /\ n + 1 \in 1..(n + 1) /\ i < n + 1
  BY FlaggedNext DEF InWindow
<1>3. window.end < correlated[n + 1].t
  BY <1>1, <1>2 DEF Timed
<1>4. window.start \in Int /\ window.end \in Int /\ correlated[n + 1].t \in Int
  BY <1>2 DEF Window, Timed
<1>5. correlated[n + 1].t \notin window.start..window.end
  BY <1>3, <1>4
<1>6. InWindow(n + 1, window) = InWindow(n, window)
  BY <1>5, FlaggedNext DEF InWindow
<1> QED BY <1>3, <1>6 DEF HoldsRun

\* a sample after a silence longer than the gap starts a run of its own
LEMMA WindowOpened ==
  ASSUME NEW n \in Nat, Timed(n + 1), FlagsForSample(n + 1) # {}, NEW window,
         window = [start |-> correlated[n + 1].t, end |-> correlated[n + 1].t,
                   types |-> FlagsForSample(n + 1), samples |-> 1, severity |-> "medium"]
  PROVE  /\ window \in Window
         /\ InWindow(n + 1, window) = {n + 1}
         /\ HoldsRun(n + 1, window)
<1> DEFINE k == n + 1
           t == correlated[k].t
<1>1. k \in 1..k /\ k \in Nat /\ t \in Int
  BY DEF Timed
<1>2. window \in Window
  BY <1>1, KnownFlags DEF Window
<1>3. window.start = t /\ window.end = t /\ window.types = FlagsForSample(k) /\ window.samples = 1
  OBVIOUS
<1>4. k \in Flagged(k)
  BY <1>1 DEF Flagged
<1>5. ASSUME NEW i \in Flagged(k), i # k PROVE correlated[i].t \notin t..t
  <2>1. i \in 1..k /\ i < k
    BY <1>1, <1>5 DEF Flagged
  <2>2. correlated[i].t \in Int /\ correlated[i].t < t
    BY <1>1, <2>1 DEF Timed
  <2> QED BY <1>1, <2>2
<1> HIDE DEF t, k
<1>6. InWindow(k, window) = {k}
  BY <1>1, <1>3, <1>4, <1>5 DEF InWindow, t
<1>7. Cardinality({k}) = 1
  BY FS_Singleton
<1>8. UNION {FlagsForSample(i) : i \in {k}} = FlagsForSample(k)
  OBVIOUS
<1>9. HoldsRun(k, window)
  BY <1>3, <1>6, <1>7, <1>8 DEF HoldsRun, t
<1> QED BY <1>2, <1>6, <1>9 DEF k

\* a sample within the gap of the last run joins it
LEMMA WindowExtended ==
  ASSUME NEW n \in Nat, Timed(n + 1), FlagsForSample(n + 1) # {},
         NEW window \in Window, HoldsRun(n, window),
         \A i \in Flagged(n) : correlated[i].t <= window.end,
         ~ correlated[n + 1].t - window.end > WindowGap,
         NEW joined, joined = Extended(window, correlated[n + 1].t, FlagsForSample(n + 1))
  PROVE  /\ joined \in Window
         /\ joined.start = window.start /\ joined.end = correlated[n + 1].t
         /\ joined.severity = window.severity
         /\ InWindow(n + 1, joined) = InWindow(n, window) \cup {n + 1}
         /\ HoldsRun(n + 1, joined)
<1> DEFINE k == n + 1
           t == correlated[k].t
           flags == FlagsForSample(k)
<1>1. /\ k \in 1..k /\ k \in Nat /\ t \in Int /\ flags \in SUBSET DOMAIN Mechanism
      /\ 1..n \subseteq 1..k /\ k \notin 1..n
  BY KnownFlags DEF Timed
<1>2. /\ window.start \in Int /\ window.end \in Int /\ window.samples \in Nat
      /\ window.types \in SUBSET DOMAIN Mechanism
  BY DEF Window
<1>3. /\ joined \in Window
      /\ joined.start = window.start /\ joined.end = t
      /\ joined.types = window.types \cup flags /\ joined.samples = window.samples + 1
      /\ joined.severity = window.severity
  <2>1. joined = [window EXCEPT !.end = t, !.types = @ \cup flags, !.samples = @ + 1]
    BY DEF Extended
  <2> HIDE DEF t, flags
  <2>2. joined = [start |-> window.start, end |-> t, types |-> window.types \cup flags,
                  samples |-> window.samples + 1, severity |-> window.severity]
    BY <2>1 DEF Window
  <2>3. window.types \cup flags \in SUBSET DOMAIN Mechanism /\ window.samples + 1 \in Nat
    BY <1>1, <1>2
  <2>4. window.severity \in {"medium", "high"}
    BY DEF Window
  <2> QED BY <1>1, <1>2, <2>2, <2>3, <2>4 DEF Window
<1>4. window.end < t
  BY WindowKept
<1>5. window.start <= window.end
  <2>1. PICK i \in InWindow(n, window) : window.end = correlated[i].t
    BY DEF HoldsRun
  <2> QED BY <1>2, <2>1 DEF InWindow
<1>6. Flagged(n) \subseteq 1..n /\ Flagged(k) = Flagged(n) \cup {k}
  BY FlaggedNext
<1> HIDE DEF t, k, flags
<1>7. ASSUME NEW i \in Flagged(n)
      PROVE  correlated[i].t \in joined.start..joined.end <=> correlated[i].t \in window.start..window.end
  <2>1. correlated[i].t \in Int /\ correlated[i].t <= window.end
    BY <1>1, <1>6 DEF Timed, k
  <2> QED BY <1>1, <1>2, <1>3, <1>4, <2>1
<1>8. t \in joined.start..joined.end
  BY <1>1, <1>2, <1>3, <1>4, <1>5
<1>9. InWindow(k, joined) = InWindow(n, window) \cup {k}
  BY <1>6, <1>7, <1>8 DEF InWindow, t
<1>10. joined.types = UNION {FlagsForSample(i) : i \in InWindow(k, joined)}
  BY <1>3, <1>9 DEF HoldsRun, flags
<1>11. joined.samples = Cardinality(InWindow(k, joined))
  <2>1. InWindow(n, window) \in SUBSET (1..n) /\ IsFiniteSet(1..n)
    BY <1>6, FS_Interval DEF InWindow
  <2>2. IsFiniteSet(InWindow(n, window)) /\ k \notin InWindow(n, window)
    BY <1>1, <2>1, FS_Subset
  <2>3. Cardinality(InWindow(n, window) \cup {k}) = Cardinality(InWindow(n, window)) + 1
    BY <2>2, FS_AddElement
  <2> QED BY <1>3, <1>9, <2>3 DEF HoldsRun
<1>12. {joined.start, joined.end} \subseteq {correlated[i].t : i \in InWindow(k, joined)}
  BY <1>3, <1>9 DEF HoldsRun, t
<1>13. ASSUME NEW i \in InWindow(k, joined)
       PROVE  \/ correlated[i].t = joined.end
              \/ \E j \in InWindow(k, joined) : correlated[j].t - correlated[i].t \in 1..WindowGap
  <2>1. CASE i = k
    BY <1>3, <2>1 DEF t
  <2>2. CASE i \in InWindow(n, window) /\ correlated[i].t = window.end
    <3>1. t - window.end \in 1..WindowGap
      BY <1>1, <1>2, <1>4, ParametersAssumption DEF t, k
    <3> QED BY <1>9, <2>2, <3>1 DEF t
  <2>3. CASE i \in InWindow(n, window) /\ correlated[i].t # window.end
    BY <1>9, <2>3 DEF HoldsRun
  <2> QED BY <1>9, <2>1, <2>2, <2>3
<1>14. HoldsRun(k, joined)
  BY <1>10, <1>11, <1>12, <1>13 DEF HoldsRun
<1> QED BY <1>3, <1>9, <1>14 DEF k, t

\* an unflagged sample changes nothing
LEMMA RunsPass ==
  ASSUME NEW n \in Nat, FlagsForSample(n + 1) = {}, MaximalRuns(n, windows)
  PROVE  MaximalRuns(n + 1, windows)
<1>1. Flagged(n + 1) = Flagged(n)
  BY FlaggedNext
<1>2. \A window : InWindow(n + 1, window) = InWindow(n, window)
  BY <1>1 DEF InWindow
<1>3. \A window : HoldsRun(n, window) => HoldsRun(n + 1, window)
  BY <1>2 DEF HoldsRun
<1> QED BY <1>1, <1>2, <1>3 DEF MaximalRuns

\* after a long silence, or as the first, a flagged sample opens a window
LEMMA RunsOpen ==
  ASSUME NEW n \in Nat, Timed(n + 1), FlagsForSample(n + 1) # {},
         windows \in Seq(Window), MaximalRuns(n, windows),
         \A w \in DOMAIN windows : windows[w].severity = "medium",
         \/ Len(windows) = 0
         \/ correlated[n + 1].t - windows[Len(windows)].end > WindowGap,
         NEW ws, ws = Grouped(correlated[n + 1].t, FlagsForSample(n + 1))
  PROVE  /\ ws \in Seq(Window)
         /\ MaximalRuns(n + 1, ws)
         /\ \A w \in DOMAIN ws : ws[w].severity = "medium"
<1> DEFINE k == n + 1
           t == correlated[k].t
           opened == [start |-> t, end |-> t, types |-> FlagsForSample(k),
                      samples |-> 1, severity |-> "medium"]
           last == Len(windows)
<1>1. ws = Append(windows, opened)
  BY DEF Grouped
<1>2. opened \in Window /\ InWindow(k, opened) = {k} /\ HoldsRun(k, opened)
  BY WindowOpened
<1>3. opened.start = t /\ opened.end = t /\ opened.severity = "medium"
  OBVIOUS
<1> HIDE DEF opened
<1>4. /\ last \in Nat /\ DOMAIN windows = 1..last
      /\ \A w \in 1..last : windows[w] \in Window
  OBVIOUS
<1>5. /\ ws \in Seq(Window) /\ Len(ws) = last + 1 /\ DOMAIN ws = 1..last + 1
      /\ ws[last + 1] = opened
      /\ \A w \in 1..last : ws[w] = windows[w]
  BY <1>1, <1>2
<1>6. \A w \in DOMAIN ws : w = last + 1 \/ w \in 1..last
  BY <1>4, <1>5
<1>7. \A w \in 1..last : InWindow(k, ws[w]) = InWindow(n, windows[w]) /\ HoldsRun(k, ws[w])
  BY <1>4, <1>5, WindowKept DEF MaximalRuns
<1>8. Flagged(k) = Flagged(n) \cup {k} /\ Flagged(n) \subseteq 1..n
  BY FlaggedNext
<1>9. Flagged(k) = UNION {InWindow(k, ws[w]) : w \in DOMAIN ws}
  <2>1. Flagged(n) = UNION {InWindow(n, windows[w]) : w \in 1..last}
    BY <1>4 DEF MaximalRuns
  <2>2. last + 1 \in DOMAIN ws /\ 1..last \subseteq DOMAIN ws /\ InWindow(k, ws[last + 1]) = {k}
    BY <1>2, <1>4, <1>5
  <2>3. ASSUME NEW i
        PROVE  i \in Flagged(k) <=> \E w \in DOMAIN ws : i \in InWindow(k, ws[w])
    <3>1. i \in Flagged(n) <=> \E w \in 1..last : i \in InWindow(k, ws[w])
      BY <1>7, <2>1
    <3> QED BY <1>6, <1>8, <2>2, <3>1
  <2> QED BY <2>3
<1>10. ASSUME NEW w \in DOMAIN ws
       PROVE  HoldsRun(k, ws[w]) /\ (w > 1 => ws[w].start - ws[w - 1].end > WindowGap)
  <2>1. CASE w \in 1..last
    <3>1. w > 1 => w - 1 \in 1..last
      BY <1>4, <2>1
    <3> QED BY <1>4, <1>5, <1>7, <2>1, <3>1 DEF MaximalRuns
  <2>2. CASE w = last + 1
    <3>1. HoldsRun(k, ws[w])
      BY <1>2, <1>5, <2>2
    <3>2. w > 1 => w - 1 = last /\ last \in 1..last /\ last # 0
      BY <1>4, <2>2
    <3>3. last # 0 => t - windows[last].end > WindowGap
      OBVIOUS
    <3>4. ws[w].start = t
      BY <1>3, <1>5, <2>2
    <3> QED BY <1>5, <3>1, <3>2, <3>3, <3>4
  <2> QED BY <1>6, <2>1, <2>2
<1>11. \A i \in Flagged(k) : correlated[i].t <= ws[Len(ws)].end
  <2>1. ASSUME NEW i \in Flagged(k) PROVE correlated[i].t <= t
    <3>1. i \in 1..k /\ k \in 1..k
      BY <1>8
    <3>2. i = k \/ i < k
      BY <3>1
    <3> QED BY <3>1, <3>2 DEF Timed
  <2> QED BY <1>3, <1>5, <2>1
<1>12. MaximalRuns(k, ws)
  BY <1>9, <1>10, <1>11 DEF MaximalRuns
<1> QED BY <1>3, <1>4, <1>5, <1>6, <1>12

\* within the gap it joins the last window
LEMMA RunsJoin ==
  ASSUME NEW n \in Nat, Timed(n + 1), FlagsForSample(n + 1) # {},
         windows \in Seq(Window), MaximalRuns(n, windows),
         \A w \in DOMAIN windows : windows[w].severity = "medium",
         Len(windows) # 0,
         ~ correlated[n + 1].t - windows[Len(windows)].end > WindowGap,
         NEW ws, ws = Grouped(correlated[n + 1].t, FlagsForSample(n + 1))
  PROVE  /\ ws \in Seq(Window)
         /\ MaximalRuns(n + 1, ws)
         /\ \A w \in DOMAIN ws : ws[w].severity = "medium"
<1> DEFINE k == n + 1
           t == correlated[k].t
           last == Len(windows)
           joined == Extended(windows[last], t, FlagsForSample(k))
<1>1. ws = [windows EXCEPT ![last] = joined]
  BY DEF Grouped
<1>2. /\ last \in Nat \ {0} /\ last \in 1..last /\ DOMAIN windows = 1..last /\ windows # <<>>
      /\ \A w \in 1..last : windows[w] \in Window
  OBVIOUS
<1>3. HoldsRun(n, windows[last]) /\ \A i \in Flagged(n) : correlated[i].t <= windows[last].end
  BY <1>2 DEF MaximalRuns
<1>4. /\ joined \in Window /\ joined.start = windows[last].start /\ joined.end = t
      /\ joined.severity = "medium"
      /\ InWindow(k, joined) = InWindow(n, windows[last]) \cup {k}
      /\ HoldsRun(k, joined)
  BY <1>2, <1>3, WindowExtended
<1> HIDE DEF joined
<1>5. /\ ws \in Seq(Window) /\ Len(ws) = last /\ DOMAIN ws = 1..last /\ ws # <<>>
      /\ ws[last] = joined
      /\ \A w \in 1..last - 1 : ws[w] = windows[w]
  BY <1>1, <1>2, <1>4
<1>6. \A w \in 1..last : w = last \/ w \in 1..last - 1
  <2> HIDE DEF last
  <2> QED BY <1>2
<1>7. ASSUME NEW w \in 1..last - 1
      PROVE  InWindow(k, ws[w]) = InWindow(n, windows[w]) /\ HoldsRun(k, ws[w])
  <2>1. w \in DOMAIN windows /\ windows[w] \in Window /\ ws[w] = windows[w]
    BY <1>2, <1>5
  <2>2. HoldsRun(n, windows[w])
    BY <2>1 DEF MaximalRuns
  <2> QED BY <2>1, <2>2, WindowKept
<1>8. Flagged(k) = Flagged(n) \cup {k} /\ Flagged(n) \subseteq 1..n
  BY FlaggedNext
<1>9. Flagged(k) = UNION {InWindow(k, ws[w]) : w \in DOMAIN ws}
  <2>1. Flagged(n) = UNION {InWindow(n, windows[w]) : w \in 1..last}
    BY <1>2 DEF MaximalRuns
  <2>2. InWindow(k, ws[last]) = InWindow(n, windows[last]) \cup {k}
    BY <1>4, <1>5
  <2>3. \A i : \A w \in 1..last : i \in InWindow(n, windows[w]) => i \in InWindow(k, ws[w])
    BY <1>6, <1>7, <2>2
  <2>4. \A i : \A w \in 1..last : i \in InWindow(k, ws[w]) => i = k \/ i \in InWindow(n, windows[w])
    BY <1>6, <1>7, <2>2
  <2>5. \A i : i \in Flagged(n) <=> \E w \in 1..last : i \in InWindow(n, windows[w])
    BY <2>1
  <2>6. k \in InWindow(k, ws[last])
    BY <2>2
  <2>7. ASSUME NEW i
        PROVE  i \in Flagged(k) <=> \E w \in DOMAIN ws : i \in InWindow(k, ws[w])
    <3>1. i \in Flagged(k) <=> i \in Flagged(n) \/ i = k
      BY <1>8
    <3>2. DOMAIN ws = 1..last /\ last \in 1..last
      BY <1>2, <1>5
    <3>3. CASE i = k
      BY <2>6, <3>1, <3>2, <3>3
    <3>4. CASE i # k
      BY <2>3, <2>4, <2>5, <3>1, <3>2, <3>4
    <3> QED BY <3>3, <3>4
  <2> QED BY <2>7
<1>10. ASSUME NEW w \in DOMAIN ws
       PROVE  HoldsRun(k, ws[w]) /\ (w > 1 => ws[w].start - ws[w - 1].end > WindowGap)
  <2>1. w \in 1..last /\ (w > 1 => w - 1 \in 1..last - 1)
    BY <1>5
  <2>2. w > 1 => windows[w].start - windows[w - 1].end > WindowGap
    BY <1>2, <2>1 DEF MaximalRuns
  <2>3. ws[w].start = windows[w].start /\ HoldsRun(k, ws[w])
    BY <1>4, <1>5, <1>6, <1>7, <2>1
  <2> QED BY <1>5, <2>1, <2>2, <2>3
<1>11. \A i \in Flagged(k) : correlated[i].t <= ws[Len(ws)].end
  <2>1. ASSUME NEW i \in Flagged(k) PROVE correlated[i].t <= t
    <3>1. i \in 1..k /\ k \in 1..k
      BY <1>8
    <3>2. i = k \/ i < k
      BY <3>1
    <3> QED BY <3>1, <3>2 DEF Timed
  <2> QED BY <1>4, <1>5, <2>1
<1>12. MaximalRuns(k, ws)
  BY <1>9, <1>10, <1>11 DEF MaximalRuns
<1> QED BY <1>2, <1>4, <1>5, <1>6, <1>12

(***************************************************************************)
(* Scanning, rating and citing the windows                                 *)
(***************************************************************************)
LEMMA SamplesTimed ==
  ASSUME AnalysisTypeOK, LoadedInv, phase \in {"detect", "infer", "done"}
  PROVE  Timed(Len(correlated))
<1>1. /\ Len(correlated) \in Nat /\ Len(poses) \in Nat /\ Len(correlated) <= Len(poses)
      /\ InOrder(poses)
      /\ \A i \in 1..Len(correlated) : correlated[i].t = poses[i].t
  BY DEF AnalysisTypeOK, LoadedInv
<1>2. \A i \in 1..Len(poses) : poses[i].t \in Int
  BY LogTimes DEF AnalysisTypeOK
<1>3. 1..Len(correlated) \subseteq 1..Len(poses)
  BY <1>1
<1> QED BY <1>1, <1>2, <1>3 DEF Timed, InOrder

\* the runs depend on the joined samples alone
LEMMA RunsStay ==
  ASSUME UNCHANGED correlated, NEW n, NEW ws, scanned' = n, windows' = ws
  PROVE  MaximalRuns(scanned, windows)' <=> MaximalRuns(n, ws)
<1>1. \A i : FlagsForSample(i)' = FlagsForSample(i)
  BY DEF FlagsForSample
<1>2. Flagged(scanned)' = Flagged(n)
  BY <1>1 DEF Flagged
<1>3. \A w : InWindow(scanned, windows[w])' = InWindow(n, ws[w])
  BY <1>2 DEF InWindow
<1>4. \A w : HoldsRun(scanned, windows[w])' <=> HoldsRun(n, ws[w])
  BY <1>1, <1>3 DEF HoldsRun
<1> QED BY <1>2, <1>3, <1>4 DEF MaximalRuns

LEMMA SamplesScan ==
  ASSUME AnalysisInv, ScanSample
  PROVE  AnalysisInv'
<1> DEFINE k == scanned + 1
           flags == FlagsForSample(k)
           ws == IF flags = {} THEN windows ELSE Grouped(correlated[k].t, flags)
<1>1. /\ AnalysisTypeOK /\ LoadedInv /\ MatchesAreNearest /\ WindowsInv /\ phase = "detect"
      /\ scanned < Len(correlated) /\ scanned' = k /\ windows' = ws
      /\ UNCHANGED <<phase, poses, commands, correlated, candidates>>
  BY DEF AnalysisInv, ScanSample
<1>2. /\ scanned \in Nat /\ Len(correlated) \in Nat /\ k \in 1..Len(correlated)
      /\ windows \in Seq(Window)
      /\ MaximalRuns(scanned, windows)
      /\ \A w \in DOMAIN windows : windows[w].severity = "medium"
  BY <1>1 DEF AnalysisTypeOK, WindowsInv
<1>3. Timed(k)
  <2>1. 1..k \subseteq 1..Len(correlated)
    BY <1>2
  <2> QED BY <1>1, <2>1, SamplesTimed DEF Timed
<1>4. /\ ws \in Seq(Window)
      /\ MaximalRuns(k, ws)
      /\ \A w \in DOMAIN ws : ws[w].severity = "medium"
  <2>1. CASE flags = {}
    BY <1>2, <2>1, RunsPass
  <2>2. CASE flags # {} /\ (\/ Len(windows) = 0
                            \/ correlated[k].t - windows[Len(windows)].end > WindowGap)
    BY <1>2, <1>3, <2>2, RunsOpen
  <2>3. CASE flags # {} /\ ~ (\/ Len(windows) = 0
                              \/ correlated[k].t - windows[Len(windows)].end > WindowGap)
    BY <1>2, <1>3, <2>3, RunsJoin
  <2> QED BY <2>1, <2>2, <2>3
<1> HIDE DEF k, ws
<1>5. AnalysisTypeOK'
  <2>1. k \in 0..Len(correlated)
    BY <1>2
  <2> QED BY <1>1, <1>4, <2>1 DEF AnalysisTypeOK
<1>6. LoadedInv'
  BY <1>1 DEF LoadedInv, InOrder
<1>7. MatchesAreNearest'
  BY <1>1 DEF MatchesAreNearest
<1>8. MaximalRuns(k, ws) <=> MaximalRuns(scanned, windows)'
  BY <1>1, RunsStay
<1>9. WindowsInv'
  BY <1>1, <1>4, <1>8 DEF WindowsInv
<1> QED BY <1>5, <1>6, <1>7, <1>9 DEF AnalysisInv

LEMMA SeverityRates ==
  ASSUME AnalysisInv, AssignSeverity
  PROVE  AnalysisInv'
<1>1. /\ AnalysisTypeOK /\ LoadedInv /\ MatchesAreNearest /\ WindowsInv /\ phase = "detect"
      /\ scanned = Len(correlated) /\ phase' = "infer"
      /\ windows' = [w \in DOMAIN windows |->
                       IF windows[w].types \cap Severe # {}
                       THEN [windows[w] EXCEPT !.severity = "high"] ELSE windows[w]]
      /\ UNCHANGED <<poses, commands, correlated, scanned, candidates>>
  BY DEF AnalysisInv, AssignSeverity
<1>2. /\ Len(windows) \in Nat /\ DOMAIN windows = 1..Len(windows)
      /\ \A w \in DOMAIN windows : windows[w] \in Window
      /\ MaximalRuns(scanned, windows)
      /\ \A w \in DOMAIN windows : windows[w].severity = "medium"
  BY <1>1 DEF AnalysisTypeOK, WindowsInv
<1>3. ASSUME NEW w \in DOMAIN windows
      PROVE  /\ windows'[w] \in Window
             /\ windows'[w].start = windows[w].start /\ windows'[w].end = windows[w].end
             /\ windows'[w].types = windows[w].types /\ windows'[w].samples = windows[w].samples
             /\ (windows'[w].severity = "high") <=> windows[w].types \cap Severe # {}
  <2>1. CASE windows[w].types \cap Severe # {}
    <3>1. windows'[w] = [windows[w] EXCEPT !.severity = "high"]
      BY <1>1, <2>1
    <3> QED BY <1>2, <2>1, <3>1 DEF Window
  <2>2. CASE ~ windows[w].types \cap Severe # {}
    <3>1. windows'[w] = windows[w]
      BY <1>1, <2>2
    <3>2. windows[w].severity # "high"
      BY <1>2
    <3> QED BY <1>2, <2>2, <3>1, <3>2
  <2> QED BY <2>1, <2>2
<1>4. /\ DOMAIN windows' = DOMAIN windows /\ windows' \in Seq(Window) /\ Len(windows') = Len(windows)
      /\ windows' # <<>> => windows # <<>>
  BY <1>1, <1>2, <1>3
<1>5. AnalysisTypeOK'
  BY <1>1, <1>4 DEF AnalysisTypeOK
<1>6. LoadedInv'
  BY <1>1 DEF LoadedInv, InOrder
<1>7. MatchesAreNearest'
  BY <1>1 DEF MatchesAreNearest
<1>8. MaximalRuns(scanned, windows')
  <2>1. \A w \in DOMAIN windows : InWindow(scanned, windows'[w]) = InWindow(scanned, windows[w])
    BY <1>3 DEF InWindow
  <2>2. \A w \in DOMAIN windows : HoldsRun(scanned, windows'[w])
    BY <1>2, <1>3, <2>1 DEF MaximalRuns, HoldsRun
  <2>3. \A w \in DOMAIN windows : w > 1 => windows'[w].start - windows'[w - 1].end > WindowGap
    BY <1>2, <1>3 DEF MaximalRuns
  <2>4. windows' # <<>> => \A i \in Flagged(scanned) : correlated[i].t <= windows'[Len(windows')].end
    <3>1. windows # <<>> => Len(windows) \in DOMAIN windows
      BY <1>2, <1>4, EmptySeq DEF AnalysisTypeOK
    <3> QED BY <1>2, <1>3, <1>4, <3>1 DEF MaximalRuns
  <2>5. Flagged(scanned) = UNION {InWindow(scanned, windows'[w]) : w \in DOMAIN windows'}
    BY <1>2, <1>4, <2>1 DEF MaximalRuns
  <2> QED BY <1>4, <2>2, <2>3, <2>4, <2>5 DEF MaximalRuns
<1>9. MaximalRuns(scanned, windows') <=> MaximalRuns(scanned, windows)'
  BY <1>1, RunsStay
<1>10. WindowsInv'
  BY <1>1, <1>3, <1>4, <1>8, <1>9 DEF WindowsInv
<1> QED BY <1>5, <1>6, <1>7, <1>10 DEF AnalysisInv

LEMMA MechanismsInfer ==
  ASSUME AnalysisInv, InferCandidateMechanisms
  PROVE  AnalysisInv'
<1>1. /\ AnalysisTypeOK /\ LoadedInv /\ MatchesAreNearest /\ WindowsInv /\ phase = "infer"
      /\ phase' = "done"
      /\ candidates' = UNION {{<<Mechanism[flag], w>> : flag \in windows[w].types} : w \in DOMAIN windows}
      /\ UNCHANGED <<poses, commands, correlated, scanned, windows>>
  BY DEF AnalysisInv, InferCandidateMechanisms
<1>2. AnalysisTypeOK'
  BY <1>1 DEF AnalysisTypeOK
<1>3. LoadedInv'
  BY <1>1 DEF LoadedInv, InOrder
<1>4. MatchesAreNearest'
  BY <1>1 DEF MatchesAreNearest
<1>5. MaximalRuns(scanned, windows) <=> MaximalRuns(scanned, windows)'
  BY <1>1, RunsStay
<1>6. WindowsInv'
  BY <1>1, <1>5 DEF WindowsInv
<1> QED BY <1>2, <1>3, <1>4, <1>6 DEF AnalysisInv

LEMMA AnalysisUnchanged ==
  ASSUME AnalysisInv, UNCHANGED analysisVars
  PROVE  AnalysisInv'
<1>1. MaximalRuns(scanned, windows) <=> MaximalRuns(scanned, windows)'
  BY RunsStay DEF analysisVars
<1>2. AnalysisTypeOK'
  BY DEF AnalysisInv, analysisVars, AnalysisTypeOK
<1>3. LoadedInv'
  BY DEF AnalysisInv, analysisVars, LoadedInv, InOrder
<1>4. MatchesAreNearest'
  BY DEF AnalysisInv, analysisVars, MatchesAreNearest
<1>5. WindowsInv'
  BY <1>1 DEF AnalysisInv, analysisVars, WindowsInv
<1> QED BY <1>2, <1>3, <1>4, <1>5 DEF AnalysisInv

LEMMA AnalysisStep ==
  AnalysisInv /\ [AnalysisNext]_analysisVars => AnalysisInv'
<1> SUFFICES ASSUME AnalysisInv, [AnalysisNext]_analysisVars PROVE AnalysisInv'
  OBVIOUS
<1>1. CASE LoadPoseSamples            BY <1>1, PosesLoad
<1>2. CASE LoadCommandSamples         BY <1>2, CommandsLoad
<1>3. CASE CorrelateControlCommands   BY <1>3, PosesJoin
<1>4. CASE ScanSample                 BY <1>4, SamplesScan
<1>5. CASE AssignSeverity             BY <1>5, SeverityRates
<1>6. CASE InferCandidateMechanisms   BY <1>6, MechanismsInfer
<1>7. CASE UNCHANGED analysisVars     BY <1>7, AnalysisUnchanged
<1> QED BY <1>1, <1>2, <1>3, <1>4, <1>5, <1>6, <1>7 DEF AnalysisNext

\* no two flags stand for the same mechanism, so a candidate tells its evidence
LEMMA MechanismsApart ==
  ASSUME NEW f \in DOMAIN Mechanism, NEW g \in DOMAIN Mechanism, Mechanism[f] = Mechanism[g]
  PROVE  f = g
BY DEF Mechanism

LEMMA RunsTell == AnalysisInv => WindowsAreMaximalRuns
<1> SUFFICES ASSUME AnalysisInv, phase = "done" PROVE WindowsAreMaximalRuns
  BY DEF WindowsAreMaximalRuns
<1> DEFINE n == Len(correlated)
           flagged == {i \in 1..n : FlagsForSample(i) # {}}
           Within(w) == {i \in flagged : correlated[i].t \in windows[w].start..windows[w].end}
<1>1. /\ AnalysisTypeOK /\ MaximalRuns(n, windows)
      /\ \A w \in DOMAIN windows : (windows[w].severity = "high") <=> windows[w].types \cap Severe # {}
      /\ candidates = UNION {{<<Mechanism[flag], w>> : flag \in windows[w].types} : w \in DOMAIN windows}
  BY DEF AnalysisInv, WindowsInv
<1>2. flagged = Flagged(n) /\ \A w : Within(w) = InWindow(n, windows[w])
  BY DEF Flagged, InWindow
<1> HIDE DEF flagged, Within, n
<1>3. flagged = UNION {Within(w) : w \in DOMAIN windows}
  BY <1>1, <1>2 DEF MaximalRuns
<1>4. ASSUME NEW w \in DOMAIN windows
      PROVE  /\ windows[w].types = UNION {FlagsForSample(i) : i \in Within(w)}
             /\ windows[w].samples = Cardinality(Within(w))
             /\ {windows[w].start, windows[w].end} \subseteq {correlated[i].t : i \in Within(w)}
             /\ w > 1 => windows[w].start - windows[w - 1].end > WindowGap
             /\ \A i \in Within(w) : \/ correlated[i].t = windows[w].end
                                     \/ \E j \in Within(w) :
                                          correlated[j].t - correlated[i].t \in 1..WindowGap
  BY <1>1, <1>2 DEF MaximalRuns, HoldsRun
<1>5. ASSUME NEW w \in DOMAIN windows
      PROVE  (windows[w].severity = "high") <=> \E i \in Within(w) : FlagsForSample(i) \cap Severe # {}
  BY <1>1, <1>4
<1>6. ASSUME NEW w \in DOMAIN windows, NEW flag \in DOMAIN Mechanism
      PROVE  (<<Mechanism[flag], w>> \in candidates) <=> \E i \in Within(w) : flag \in FlagsForSample(i)
  <2>1. windows[w].types \in SUBSET DOMAIN Mechanism
    <3>1. windows[w] \in Window
      BY <1>1 DEF AnalysisTypeOK
    <3> QED BY <3>1 DEF Window
  <2>2. <<Mechanism[flag], w>> \in candidates <=>
          \E v \in DOMAIN windows : \E g \in windows[v].types : <<Mechanism[flag], w>> = <<Mechanism[g], v>>
    BY <1>1
  <2>3. <<Mechanism[flag], w>> \in candidates <=>
          \E g \in windows[w].types : Mechanism[flag] = Mechanism[g]
    BY <2>2
  <2>4. <<Mechanism[flag], w>> \in candidates <=> flag \in windows[w].types
    BY <2>1, <2>3, MechanismsApart
  <2> QED BY <1>4, <2>4
<1> QED BY <1>3, <1>4, <1>5, <1>6 DEF WindowsAreMaximalRuns, flagged, Within, n

-----------------------------------------------------------------------------
(***************************************************************************)
(* Theorems                                                                *)
(***************************************************************************)

\* For logs of any length and any thresholds: what is loaded is in order, what
\* is joined is matched, and what is scanned is grouped
\* (analyze_experiment, experiment_analytics.py:386).
THEOREM AnalysisInvariant == AnalysisSpec => []AnalysisInv
BY AnalysisInitially, AnalysisStep, PTL DEF AnalysisSpec

\* The samples, windows and thresholds of an analysis always have their types
\* (experiment_analytics.py:29).
THEOREM AnalysisTypes == AnalysisSpec => []AnalysisTypeOK
<1>1. AnalysisInv => AnalysisTypeOK
  BY DEF AnalysisInv
<1> QED BY <1>1, AnalysisInvariant, PTL

\* The binary search with its two candidates finds the nearest command of the
\* whole log, the later of two at the same distance; a pose without a command
\* within the tolerance ends the analysis, and nothing else does once both logs
\* are loaded (correlate_control_commands, experiment_analytics.py:251).
THEOREM MatchesAlwaysNearest == AnalysisSpec => []MatchesAreNearest
<1>1. AnalysisInv => MatchesAreNearest
  BY DEF AnalysisInv
<1> QED BY <1>1, AnalysisInvariant, PTL

\* The windows at the end are the maximal runs of flagged samples, however long
\* the logs, with their flags, counts, severity and candidate mechanisms
\* (detect_anomaly_windows, experiment_analytics.py:327).
THEOREM WindowsAlwaysMaximal == AnalysisSpec => []WindowsAreMaximalRuns
<1>1. AnalysisInv => WindowsAreMaximalRuns
  BY RunsTell
<1> QED BY <1>1, AnalysisInvariant, PTL
=============================================================================
