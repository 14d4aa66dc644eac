--------------------------- MODULE ReleaseSigning ---------------------------
(***************************************************************************)
(* robot_skill_registry/release_crypto.py and release_cli.py: key pairs on *)
(* disk, signature envelope, and the verification that ends in            *)
(* record_verified_signature.  Files are read and replaced one at a time,  *)
(* so every file operation is a step of its own.  The repository holds the *)
(* artifact of each version; verify_artifact_lock compares it by hash.     *)
(***************************************************************************)
EXTENDS SkillRegistry

CONSTANTS
  Keygen, \* processes running `keygen`, each with a key of its own
  KeyOf   \* that key

ASSUME KeygenAssumption == KeyOf \in [Keygen -> Key] /\ None \notin Key

VARIABLES
  keyFile,   \* the private and the public key file
  keygen,    \* the keygen processes
  published, \* every key the public file has held
  unsettled, \* keygens overlapped, were killed, or a forced one failed
  repo,      \* the artifact of each version in the repository
  envelope,  \* the output file of `sign` for each version
  verifier   \* one process running `verify`

releaseVars == <<keyFile, keygen, published, unsettled, repo, envelope, verifier>>
keyVars == <<keyFile, keygen, published, unsettled>>

Quiet == {"start", "ended"}

NoVerification == [pc |-> "idle", envelope |-> None]

ReleaseTypeOK ==
  /\ keyFile \in [private : Key \cup {None}, public : Key \cup {None}]
  /\ keygen \in [Keygen -> [force : BOOLEAN, pc : Quiet \cup {"private", "between", "public"}]]
  /\ published \subseteq Key
  /\ unsettled \in BOOLEAN
  /\ repo \in [Skill -> Hash \cup {None}]
  /\ envelope \in [Skill -> Envelope \cup {None}]
  /\ verifier \in [pc : {"idle", "key", "record"}, envelope : Envelope \cup {None}]

ReleaseInit ==
  /\ keyFile = [private |-> None, public |-> None]
  /\ keygen = [g \in Keygen |-> [force |-> FALSE, pc |-> "start"]]
  /\ published = {} /\ unsettled = FALSE
  /\ repo = [s \in Skill |-> None]
  /\ envelope = [s \in Skill |-> None]
  /\ verifier = NoVerification

-----------------------------------------------------------------------------
(***************************************************************************)
(* generate_ed25519_keypair.  _atomic_write looks whether the file exists, *)
(* writes a temporary one and replaces the target: two steps.              *)
(***************************************************************************)
Move(g, pc) == keygen' = [keygen EXCEPT ![g].pc = pc]

End(g) == keygen' = [keygen EXCEPT ![g] = [force |-> FALSE, pc |-> "ended"]]

StartKeygen(g) ==
  /\ keygen[g].pc = "start"
  /\ \/ keyFile.private = None /\ Move(g, "private")
     \/ keygen' = [keygen EXCEPT ![g] = [force |-> TRUE, pc |-> "private"]]
     \/ keyFile.private # None /\ End(g)
  /\ unsettled' = (unsettled \/ \E o \in Keygen : keygen[o].pc \notin Quiet)
  /\ UNCHANGED <<keyFile, published, repo, envelope, verifier>>

ReplacePrivate(g) ==
  /\ keygen[g].pc = "private"
  /\ keyFile' = [keyFile EXCEPT !.private = KeyOf[g]]
  /\ Move(g, "between")
  /\ UNCHANGED <<published, unsettled, repo, envelope, verifier>>

KeepHalf(g) ==
  /\ UNCHANGED keyFile
  /\ unsettled' = (unsettled \/ keygen[g].force)

\* except Exception: without --force the private half is taken back
TakeBack(g) ==
  /\ keyFile' = IF keygen[g].force THEN keyFile ELSE [keyFile EXCEPT !.private = None]
  /\ unsettled' = (unsettled \/ keygen[g].force)

\* the public file exists, or cannot be written
PublicRefused(g) ==
  /\ keygen[g].pc \in {"between", "public"}
  /\ TakeBack(g)
  /\ End(g)
  /\ UNCHANGED <<published, repo, envelope, verifier>>

PublicAllowed(g) ==
  /\ keygen[g].pc = "between"
  /\ keyFile.public = None \/ keygen[g].force
  /\ Move(g, "public")
  /\ UNCHANGED <<keyFile, published, unsettled, repo, envelope, verifier>>

ReplacePublic(g) ==
  /\ keygen[g].pc = "public"
  /\ keyFile' = [keyFile EXCEPT !.public = KeyOf[g]]
  /\ published' = published \cup {KeyOf[g]}
  /\ End(g)
  /\ UNCHANGED <<unsettled, repo, envelope, verifier>>

KillKeygen(g) ==
  /\ keygen[g].pc \notin Quiet
  /\ End(g)
  /\ unsettled' = TRUE
  /\ UNCHANGED <<keyFile, published, repo, envelope, verifier>>

-----------------------------------------------------------------------------
(***************************************************************************)
(* Artifacts and envelopes                                                *)
(***************************************************************************)

\* verify_artifact_lock: lock and files both have the hash
VerifyArtifactLock(s, h) == repo[s] = h

\* create_signature_envelope, whatever the registry says of the version
CreateSignatureEnvelope(s, h) ==
  /\ VerifyArtifactLock(s, h)
  /\ keyFile.private # None
  /\ envelope' = [envelope EXCEPT ![s] = [skill |-> s, hash |-> h, key |-> keyFile.private]]
  /\ UNCHANGED <<keyVars, repo, verifier>>

\* parse_signature_envelope, then the artifact
VerifyContent(s) ==
  /\ verifier.pc = "idle" /\ envelope[s] # None
  /\ VerifyArtifactLock(s, envelope[s].hash)
  /\ verifier' = [pc |-> "key", envelope |-> envelope[s]]
  /\ UNCHANGED <<keyVars, repo, envelope>>

\* the trusted public key, its fingerprint and the signature
VerifySignature ==
  /\ verifier.pc = "key"
  /\ keyFile.public = verifier.envelope.key
  /\ verifier' = [verifier EXCEPT !.pc = "record"]
  /\ UNCHANGED <<keyVars, repo, envelope>>

\* the exit paths of `verify`: a mismatch, or the registry refuses
VerificationFails ==
  /\ \/ verifier.pc = "key" /\ keyFile.public # verifier.envelope.key
     \/ /\ verifier.pc = "record"
        /\ LET s == verifier.envelope.skill IN
             skill[s].state # "HUMAN_APPROVED" \/ skill[s].hash # verifier.envelope.hash
  /\ verifier' = NoVerification
  /\ UNCHANGED <<keyVars, repo, envelope>>

RecordSignature ==
  /\ verifier.pc = "record"
  /\ RecordVerifiedSignature(verifier.envelope)
  /\ verifier' = NoVerification
  /\ UNCHANGED <<keyVars, repo, envelope>>

KeygenNext ==
  \E g \in Keygen :
    \/ StartKeygen(g) \/ ReplacePrivate(g) \/ PublicRefused(g) \/ PublicAllowed(g)
    \/ ReplacePublic(g) \/ KillKeygen(g)

SigningNext ==
  \/ \E s \in Skill, h \in Hash : CreateSignatureEnvelope(s, h)
  \/ \E s \in Skill : VerifyContent(s)
  \/ VerifySignature \/ VerificationFails

-----------------------------------------------------------------------------
(***************************************************************************)
(* As long as keygens neither overlap nor die, and no forced one fails,    *)
(* the two files are halves of one pair whenever no keygen is at work:     *)
(* a refusal or a failed write never leaves a stray private key or takes a *)
(* good one away (release_crypto.py 104-114).                              *)
(***************************************************************************)
PairIsWhole ==
  ~unsettled /\ (\A g \in Keygen : keygen[g].pc \in Quiet) => keyFile.private = keyFile.public
=============================================================================
