----------------------- MODULE MCExperimentAnalytics -----------------------
(***************************************************************************)
(* Two to four poses within six instants, each at rest, moving, recovering *)
(* or jumping while the transforms are lost, against one or two commands   *)
(* in any order; pose logs too short, negative or with a repeated instant. *)
(***************************************************************************)
EXTENDS ExperimentAnalytics

Motion == {[dx |-> 0, recovers |-> 0, tf |-> TRUE],
           [dx |-> 2, recovers |-> 0, tf |-> TRUE],
           [dx |-> 5, recovers |-> 0, tf |-> FALSE],
           [dx |-> 2, recovers |-> 1, tf |-> TRUE]}

Increasing(n, T) == {f \in [1..n -> T] : \A i \in 1..n - 1 : f[i] < f[i + 1]}

\* a drive: its instants, and what the robot did between two of them
Driven(times, motions) ==
  LET x[i \in 0..Len(times)] == IF i = 0 THEN 0 ELSE x[i - 1] + motions[i].dx
      r[i \in 0..Len(times)] == IF i = 0 THEN 0 ELSE r[i - 1] + motions[i].recovers
  IN  [i \in 1..Len(times) |-> [t |-> times[i], x |-> x[i], recovery |-> r[i], tf |-> motions[i].tf]]

AtRest == [dx |-> 0, recovers |-> 0, tf |-> TRUE]
Drives(n, T) ==
  {Driven(times, motions) : times \in Increasing(n, T),
                            motions \in {m \in [1..n -> Motion] : m[1] = AtRest}}

MCPoseLog ==
  Drives(2, 0..4) \cup Drives(3, 0..4) \cup Drives(4, 0..5)
  \cup {Driven(times, [i \in 1..3 |-> AtRest]) :
          times \in {<<1>>, <<-1, 0>>, <<0, 2, 2>>, <<0, 3, 1>>}}

Command == {[linear |-> 0, angular |-> 0], [linear |-> 1, angular |-> 1], [linear |-> 1, angular |-> -1]}
Commanded(times, what) ==
  [i \in 1..Len(times) |-> [t |-> times[i], linear |-> what[i].linear, angular |-> what[i].angular]]
MCCommandLog ==
  {<<>>} \cup {Commanded(<<-1, t>>, <<c, c>>) : t \in {0, 4}, c \in Command}
  \cup {Commanded(<<t>>, <<c>>) : t \in 0..4, c \in Command}
  \cup {Commanded(<<t, u>>, <<c, d>>) : t \in 0..4, u \in 0..4, c \in Command, d \in Command}
=============================================================================
