------------------------ MODULE MCCompositeWorkflow ------------------------
(***************************************************************************)
(* One composite call, three versions of the map and three paths: one      *)
(* clear of every version, one clear of the first only, one that stops     *)
(* short of the goal.  The second version moves the zone a little, the     *)
(* third moves it away.                                                    *)
(***************************************************************************)
EXTENDS CompositeWorkflow

MCPath == {"wide", "narrow", "short"}
MCReaches == {"wide", "narrow"}
MCClear == ({"wide", "short"} \X (1..3)) \cup {<<"narrow", 1>>}
MCNear == {<<1, 2>>, <<2, 1>>}
=============================================================================
