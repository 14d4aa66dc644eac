---------------------------- MODULE SkillAuthor ----------------------------
(***************************************************************************)
(* robot_skill_author: pipeline.py generates a candidate, renders it into  *)
(* a directory of its attempt, passes it through the gates and registers   *)
(* it in six transactions, with bounded repairs; cli.py writes down what   *)
(* came of it; approve_cli.py lets a human approve what such a result      *)
(* offers; ReleaseSigning takes it from there.  A request may be run again *)
(* and again, one process at a time, each of which may be killed; and      *)
(* registry_cli.py registers, advances and approves by hand at any moment. *)
(* A draft is the hash of the artifact it renders to.                      *)
(***************************************************************************)
EXTENDS ReleaseSigning

CONSTANTS
  Author,     \* the requests
  Target,     \* the version each request names
  Renderable, \* the hashes a draft can render to; others arise by edits
  ManifestOf, \* the manifest inside each artifact
  MaxRepairs,
  MaxRuns     \* bound on the runs of all requests together

ASSUME AuthorAssumption ==
  /\ Target \in [Author -> Skill]
  /\ Renderable \subseteq Hash /\ None \notin Renderable
  /\ ManifestOf \in [Hash -> Manifest]
  /\ MaxRepairs \in 0..2
  /\ MaxRuns \in Nat

VARIABLES
  author,    \* the process that runs each request
  started,   \* how many runs there have been
  directory, \* what the attempt directories of each request hold
  results,   \* the results of each request that named a candidate
  reviewer,  \* one process running approve_cli
  approver   \* the program that approved each version

authorVars == <<author, started, directory, results, reviewer, approver>>
allVars == <<authorVars, releaseVars, registryVars>>

Attempt == 1..(MaxRepairs + 1)

GateNames == <<"schema", "static", "build", "unit_test", "simulation">>

\* no process; a candidate is named by its hash and the attempt whose directory it is in
Resting == [pc |-> "idle", attempt |-> 1, hash |-> None, root |-> 0, gates |-> 0, step |-> 0]

Result == [status : {"waiting_human_approval", "failed"}, hash : Renderable, root : Attempt]

AuthorTypeOK ==
  /\ RegistryTypeOK /\ ReleaseTypeOK
  /\ author \in [Author -> [pc : {"idle", "generate", "render", "scan", "sandbox", "register"},
                            attempt : Attempt, hash : Renderable \cup {None},
                            root : {0} \cup Attempt, gates : 0..5, step : 0..6]]
  /\ started \in 0..MaxRuns
  /\ directory \in [Author -> [Attempt -> Hash \cup {None}]]
  /\ results \in [Author -> SUBSET Result]
  /\ reviewer \in [pc : {"idle", "approving"}, hash : Hash \cup {None}, of : Author \cup {None}]
  /\ approver \in [Skill -> {"none", "approve_cli", "registry_cli"}]
  /\ \A a \in Author :
       /\ author[a].pc = "register" => author[a].gates = 5
       /\ author[a].pc \in {"scan", "sandbox", "register"} =>
            directory[a][author[a].attempt] # None

AuthorInit ==
  /\ RegistryInit /\ ReleaseInit
  /\ author = [a \in Author |-> Resting]
  /\ started = 0
  /\ directory = [a \in Author |-> [i \in Attempt |-> None]]
  /\ results = [a \in Author |-> {}]
  /\ reviewer = [pc |-> "idle", hash |-> None, of |-> None]
  /\ approver = [s \in Skill |-> "none"]

In(a, pc) == author[a].pc = pc

\* the process is gone, and with it all it knew
Leave(a) == author' = [author EXCEPT ![a] = Resting]

(***************************************************************************)
(* _result, with the latest candidate if there is one, and cli.main, which *)
(* writes it over the result of an earlier run or, with --output, beside   *)
(* it: any result of `results' may still be there when somebody reads one. *)
(***************************************************************************)
Return(a, status) ==
  /\ Leave(a)
  /\ results' = IF author[a].hash = None THEN results
                ELSE [results EXCEPT ![a] = @ \cup
                        {[status |-> status, hash |-> author[a].hash, root |-> author[a].root]}]

\* a failed gate, or ContractError, RuntimeError, OSError, ValueError: repair or give up
Repair(a) ==
  IF author[a].attempt <= MaxRepairs
    THEN /\ author' = [author EXCEPT ![a].pc = "generate", ![a].attempt = @ + 1, ![a].step = 0]
         /\ UNCHANGED results
    ELSE Return(a, "failed")

NothingElse == UNCHANGED <<started, directory, reviewer, approver, releaseVars, registryVars>>

-----------------------------------------------------------------------------
(***************************************************************************)
(* SkillAuthorPipeline.run                                                 *)
(***************************************************************************)

\* a run begins; request, citations or dependencies may be refused, and then nothing has begun
Ground(a) ==
  /\ In(a, "idle") /\ started < MaxRuns
  /\ author' = [author EXCEPT ![a].pc = "generate"]
  /\ started' = started + 1
  /\ UNCHANGED <<results, directory, reviewer, approver, releaseVars, registryVars>>

\* a plan for a draft, a question back or a refusal (which name no candidate), or an error
Generate(a) ==
  /\ In(a, "generate")
  /\ \/ author' = [author EXCEPT ![a].pc = "render", ![a].gates = 1] /\ UNCHANGED results
     \/ Leave(a) /\ UNCHANGED results
     \/ Repair(a)
  /\ NothingElse

\* an attempt directory of an earlier run is never written again
Render(a) ==
  /\ In(a, "render")
  /\ IF directory[a][author[a].attempt] # None
       THEN Repair(a) /\ UNCHANGED directory
       ELSE \E h \in Renderable :
              /\ directory' = [directory EXCEPT ![a][author[a].attempt] = h]
              /\ author' = [author EXCEPT ![a].pc = "scan", ![a].hash = h,
                                          ![a].root = author[a].attempt]
              /\ UNCHANGED results
  /\ UNCHANGED <<started, reviewer, approver, releaseVars, registryVars>>

StaticScan(a) ==
  /\ In(a, "scan")
  /\ \/ /\ author' = [author EXCEPT ![a].pc = "sandbox", ![a].gates = 2]
        /\ UNCHANGED results
     \/ Repair(a)
  /\ NothingElse

SandboxSkipsMissing(a) ==
  /\ In(a, "sandbox")
  /\ author' = [author EXCEPT ![a].gates = @ + 1,
                              ![a].pc = IF @ = "sandbox" /\ author[a].gates >= 3 THEN "register" ELSE @]
  /\ UNCHANGED results
  /\ NothingElse

\* build, unit tests, simulation: the first failure ends the candidate
Sandbox(a) ==
  /\ In(a, "sandbox")
  /\ \/ /\ author' = [author EXCEPT ![a].gates = @ + 1,
                                    ![a].pc = IF author[a].gates = 4 THEN "register" ELSE @]
        /\ UNCHANGED results
     \/ Repair(a)
  /\ NothingElse

Conflict(a) == Repair(a) /\ NothingElse

RegisterOverAnyContent(a) ==
  LET s == Target[a]  h == author[a].hash IN
  /\ In(a, "register") /\ author[a].step = 0
  /\ IF Registered(s) THEN UNCHANGED registryVars
     ELSE RegisterManifest(s, h, ManifestOf[h])
  /\ author' = [author EXCEPT ![a].step = 1]
  /\ UNCHANGED <<started, results, directory, reviewer, approver, releaseVars>>

(***************************************************************************)
(* _register_tested_candidate: register_manifest and five advances, each a *)
(* transaction.  The same content is found registered, in whatever state,  *)
(* other content conflicts; so does an advance from a state already left.  *)
(***************************************************************************)
RegisterCandidate(a) ==
  LET s == Target[a]  h == author[a].hash IN
  /\ In(a, "register") /\ author[a].step = 0
  /\ IF Registered(s) /\ (skill[s].hash # h \/ skill[s].manifest # ManifestOf[h])
       THEN Conflict(a)
       ELSE /\ IF Registered(s) THEN UNCHANGED registryVars
               ELSE RegisterManifest(s, h, ManifestOf[h])
            /\ author' = [author EXCEPT ![a].step = 1]
            /\ UNCHANGED <<started, results, directory, reviewer, approver, releaseVars>>

AdvanceCandidate(a) ==
  LET s == Target[a]  i == author[a].step IN
  /\ In(a, "register") /\ i \in 1..5
  /\ IF skill[s].state # Lifecycle[i]
       THEN Conflict(a)
       ELSE /\ Advance(s, Lifecycle[i + 1], Lifecycle[i])
            /\ author' = [author EXCEPT ![a].step = i + 1]
            /\ UNCHANGED <<started, results, directory, reviewer, approver, releaseVars>>

ReturnCandidate(a) ==
  /\ In(a, "register") /\ author[a].step = 6
  /\ Return(a, "waiting_human_approval")
  /\ NothingElse

(***************************************************************************)
(* The process is killed, or an exception the loop does not name ends it   *)
(* and cli.main writes a failed result without a candidate.  What was      *)
(* written to directories and registry stays.                              *)
(***************************************************************************)
Kill(a) ==
  /\ ~ In(a, "idle")
  /\ Leave(a)
  /\ UNCHANGED results /\ NothingElse

-----------------------------------------------------------------------------
(***************************************************************************)
(* approve_cli.main: it reads a result, hashes the candidate's files, then *)
(* approves in the registry                                                *)
(***************************************************************************)
AnyResult(result) == TRUE

\* the check on the result
Approvable(result) == result.status = "waiting_human_approval"

CheckCandidate(a, result) ==
  /\ reviewer.pc = "idle"
  /\ Approvable(result)
  /\ directory[a][result.root] = result.hash
  /\ reviewer' = [pc |-> "approving", hash |-> result.hash, of |-> a]
  /\ UNCHANGED <<author, started, directory, results, approver, releaseVars, registryVars>>

\* SkillRegistry.approve as either program calls it
ApprovedBy(program, s, h, decision) ==
  /\ Approve(s, h, decision)
  /\ approver' = IF decision = "APPROVED" THEN [approver EXCEPT ![s] = program] ELSE approver

ApproveCandidate ==
  /\ reviewer.pc = "approving"
  /\ IF Reviewable(Target[reviewer.of], reviewer.hash)
       THEN ApprovedBy("approve_cli", Target[reviewer.of], reviewer.hash, "APPROVED")
       ELSE UNCHANGED <<approver, registryVars>>
  /\ reviewer' = [pc |-> "idle", hash |-> None, of |-> None]
  /\ UNCHANGED <<author, started, directory, results, releaseVars>>

\* somebody edits a candidate a result names
EditCandidate(a, result, h) ==
  /\ directory[a][result.root] = result.hash
  /\ h \notin Renderable
  /\ directory' = [directory EXCEPT ![a][result.root] = h]
  /\ UNCHANGED <<author, started, results, reviewer, approver, releaseVars, registryVars>>

-----------------------------------------------------------------------------
(***************************************************************************)
(* registry_cli: `register', `advance' and `approve' with any arguments    *)
(***************************************************************************)
RegisterByHand(s, h, m) ==
  /\ RegisterManifest(s, h, m)
  /\ UNCHANGED <<authorVars, releaseVars>>

AdvanceByHand(s, target, expected) ==
  /\ Advance(s, target, expected)
  /\ UNCHANGED <<authorVars, releaseVars>>

ApproveByHand(s, h, decision) ==
  /\ ApprovedBy("registry_cli", s, h, decision)
  /\ UNCHANGED <<author, started, directory, results, reviewer, releaseVars>>

RegistryCli ==
  \E s \in Skill :
    \/ \E h \in Hash, m \in Manifest : RegisterByHand(s, h, m)
    \/ \E target, expected \in SkillStates : AdvanceByHand(s, target, expected)
    \/ \E h \in Hash, decision \in Decisions : ApproveByHand(s, h, decision)

\* somebody takes an artifact into the repository: a candidate, an edited one or one of his own
Publish(s, h) ==
  /\ repo[s] = None
  /\ repo' = [repo EXCEPT ![s] = h]
  /\ UNCHANGED <<authorVars, registryVars, keyVars, envelope, verifier>>

AuthorNext ==
  \/ \E a \in Author :
       \/ Ground(a) \/ Generate(a) \/ Render(a) \/ StaticScan(a) \/ Sandbox(a)
       \/ RegisterCandidate(a) \/ AdvanceCandidate(a) \/ ReturnCandidate(a) \/ Kill(a)
       \/ \E result \in results[a] :
            CheckCandidate(a, result) \/ \E h \in Hash : EditCandidate(a, result, h)
  \/ ApproveCandidate
  \/ RegistryCli

ReleaseNext ==
  \/ \E s \in Skill, h \in Hash : Publish(s, h)
  \/ (KeygenNext \/ SigningNext) /\ UNCHANGED <<authorVars, registryVars>>
  \/ RecordSignature /\ UNCHANGED authorVars

AuthoringSpec == AuthorInit /\ [][AuthorNext \/ ReleaseNext]_allVars

-----------------------------------------------------------------------------
(***************************************************************************)
(* Properties                                                              *)
(***************************************************************************)

(***************************************************************************)
(* An offer is what the registry holds: however the six transactions of    *)
(* two authors, of a killed run and the next one, and of an operator who   *)
(* registers and advances the same version by hand mix, a result that      *)
(* waits for approval names the stored artifact of a version that went     *)
(* through SIMULATION_TESTED, then and for ever, so no two different       *)
(* candidates are ever offered for one version (pipeline.py 145-159,       *)
(* 235-269).                                                               *)
(***************************************************************************)
OfferIsRegistered ==
  \A a \in Author : \A result \in results[a] :
    result.status = "waiting_human_approval" =>
      /\ skill[Target[a]].hash = result.hash
      /\ Reached(Target[a], "SIMULATION_TESTED")

(***************************************************************************)
(* A release can be traced back: a version approved through approve_cli    *)
(* was offered, under the stored hash, by a pipeline that saw it through   *)
(* its gates (one approved through registry_cli need not have been), and   *)
(* the envelope of any signed one was made with a key that the trusted     *)
(* public file has held, whatever keygens did to the two files meanwhile   *)
(* (approve_cli.py 30-48, release_crypto.py 234-303).                      *)
(***************************************************************************)
ReleaseIsTraceable ==
  \A s \in Skill :
    /\ approver[s] = "approve_cli" =>
         \E a \in Author : \E result \in results[a] :
           /\ Target[a] = s
           /\ result.status = "waiting_human_approval"
           /\ result.hash = skill[s].hash
    /\ skill[s].signature # None => skill[s].signature.key \in published
=============================================================================
