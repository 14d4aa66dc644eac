----------------------------- MODULE OneShotRun -----------------------------
(***************************************************************************)
(* What the runtime promises its caller about the runs of the Agent store: *)
(* an identifier is used for one run; the run is authorized at most once,  *)
(* and only while it is undecided; it acts on the robot at most once, and  *)
(* only after it was authorized; it is decided once, and counted as a      *)
(* success only if it acted.  A decision may overtake an authorized action *)
(* that is already on its way.                                             *)
(***************************************************************************)
CONSTANT RunId

VARIABLES
  phase,  \* how far each run has come
  verdict \* how each run was decided

vars == <<phase, verdict>>

TypeOK ==
  /\ phase \in [RunId -> {"absent", "preparing", "authorized", "performed"}]
  /\ verdict \in [RunId -> {"open", "succeeded", "unsuccessful"}]

Init ==
  /\ phase = [r \in RunId |-> "absent"]
  /\ verdict = [r \in RunId |-> "open"]

Create(r) ==
  /\ phase[r] = "absent"
  /\ phase' = [phase EXCEPT ![r] = "preparing"]
  /\ UNCHANGED verdict

Authorize(r) ==
  /\ phase[r] = "preparing"
  /\ verdict[r] = "open"
  /\ phase' = [phase EXCEPT ![r] = "authorized"]
  /\ UNCHANGED verdict

Perform(r) ==
  /\ phase[r] = "authorized"
  /\ phase' = [phase EXCEPT ![r] = "performed"]
  /\ UNCHANGED verdict

Succeed(r) ==
  /\ phase[r] = "performed"
  /\ verdict[r] = "open"
  /\ verdict' = [verdict EXCEPT ![r] = "succeeded"]
  /\ UNCHANGED phase

\* failure, abortion and emergency stop; recovery gives up several runs at once
GiveUp(S) ==
  /\ \A r \in S : phase[r] # "absent" /\ verdict[r] = "open"
  /\ verdict' = [r \in RunId |-> IF r \in S THEN "unsuccessful" ELSE verdict[r]]
  /\ UNCHANGED phase

Next ==
  \/ \E r \in RunId : Create(r) \/ Authorize(r) \/ Perform(r) \/ Succeed(r)
  \/ \E S \in SUBSET RunId : GiveUp(S)

Spec == Init /\ [][Next]_vars
=============================================================================
