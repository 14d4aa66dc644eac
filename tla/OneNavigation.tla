--------------------------- MODULE OneNavigation ---------------------------
(***************************************************************************)
(* What one call of the navigation Skill promises its caller: the robot is *)
(* asked to move at most once, and never after the call has answered or    *)
(* was given up; a new attempt is made only while nothing was asked; and   *)
(* each answer is about that one motion: it arrived, it was never asked    *)
(* for, or a cancel was attempted.  Nav2 may still decide and carry out    *)
(* what was asked of it when the caller has its answer.                    *)
(***************************************************************************)
EXTENDS Naturals

CONSTANT Attempts \* how often the call may try, a number from 1

VARIABLES
  attempt,  \* the attempt at work
  motion,   \* what became of the motion asked for
  canceled, \* somebody attempted to cancel it
  answer    \* what the call returned

vars == <<attempt, motion, canceled, answer>>

TypeOK ==
  /\ attempt \in 1..Attempts
  /\ motion \in {"none", "asked", "refused", "running", "arrived", "ended"}
  /\ canceled \in BOOLEAN
  /\ answer \in {"none", "arrived", "unmoved", "canceled", "abandoned", "unclear"}

Init == attempt = 1 /\ motion = "none" /\ canceled = FALSE /\ answer = "none"

Retry ==
  /\ answer = "none" /\ motion = "none" /\ ~ canceled
  /\ attempt < Attempts
  /\ attempt' = attempt + 1
  /\ UNCHANGED <<motion, canceled, answer>>

Ask ==
  /\ answer = "none" /\ motion = "none" /\ ~ canceled
  /\ motion' = "asked"
  /\ UNCHANGED <<attempt, canceled, answer>>

\* Nav2 takes its time
Decide ==
  /\ motion = "asked" /\ motion' \in {"running", "refused"}
  /\ UNCHANGED <<attempt, canceled, answer>>

End ==
  /\ motion = "running" /\ motion' \in {"arrived", "ended"}
  /\ UNCHANGED <<attempt, canceled, answer>>

Cancel ==
  /\ answer = "none" /\ ~ canceled
  /\ canceled' = TRUE
  /\ UNCHANGED <<attempt, motion, answer>>

Return(what) == answer = "none" /\ answer' = what /\ UNCHANGED <<attempt, motion, canceled>>

Succeed  == motion = "arrived" /\ ~ canceled /\ Return("arrived")
Decline  == motion = "none" /\ Return("unmoved")
Stop     == canceled /\ motion \in {"running", "arrived", "ended"} /\ Return("canceled")
Abandon  == canceled /\ Return("abandoned")
Complain == Return("unclear")

Next ==
  \/ Retry \/ Ask \/ Decide \/ End \/ Cancel
  \/ Succeed \/ Decline \/ Stop \/ Abandon \/ Complain

Spec == Init /\ [][Next]_vars
=============================================================================
