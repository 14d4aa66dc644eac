------------------------- MODULE SkillAuthorProofs -------------------------
(***************************************************************************)
(* The skill author pipeline, its reviewer and the release tools keep      *)
(* their promises for any number of authors, targets, drafts, repairs,     *)
(* runs and keygens: what is offered is what is registered, what           *)
(* approve_cli approved was offered, what is signed was signed with a      *)
(* published key, and the two key files are one pair.  The registry they   *)
(* all write is the registry of SkillRegistry, whose invariant is used as  *)
(* it stands.                                                              *)
(***************************************************************************)
EXTENDS SkillAuthor, SkillRegistryProofs

Pipelines ==
  [pc : {"idle", "generate", "render", "scan", "sandbox", "register"}, attempt : Attempt,
   hash : Renderable \cup {None}, root : {0} \cup Attempt, gates : 0..5, step : 0..6]

Reviewers == [pc : {"idle", "approving"}, hash : Hash \cup {None}, of : Author \cup {None}]

Programs == {"none", "approve_cli", "registry_cli"}

\* the registry holds what a result that waits for approval says of version s
StandsIn(s, result) ==
  result.status = "waiting_human_approval" =>
    skill[s].hash = result.hash /\ Len(skillEvents[s]) >= 6

\* h was offered for version s
OfferedFor(s, h) ==
  \E a \in Author : \E result \in results[a] :
    /\ Target[a] = s
    /\ result.status = "waiting_human_approval"
    /\ result.hash = h

-----------------------------------------------------------------------------
\* the key files between the steps of the one keygen that is at work
PairInv ==
  ~ unsettled =>
    /\ \A g, o \in Keygen : keygen[g].pc \notin Quiet /\ keygen[o].pc \notin Quiet => g = o
    /\ (\A g \in Keygen : keygen[g].pc \in Quiet) => keyFile.private = keyFile.public
    /\ \A g \in Keygen :
         /\ keygen[g].pc = "private" =>
              /\ keyFile.private = keyFile.public
              /\ ~ keygen[g].force => keyFile.private = None
         /\ keygen[g].pc \in {"between", "public"} =>
              /\ keyFile.private = KeyOf[g]
              /\ ~ keygen[g].force => keyFile.public = None

\* what the public file holds was published, and so was the key an envelope was verified with
KeysInv ==
  /\ ReleaseTypeOK
  /\ PairInv
  /\ keyFile.public # None => keyFile.public \in published
  /\ verifier.pc # "idle" => verifier.envelope \in Envelope
  /\ verifier.pc = "record" => verifier.envelope.key \in published

SignedByPublished ==
  \A s \in Skill : skill[s].signature # None => skill[s].signature.key \in published

\* a candidate on its way through the six transactions is in the registry up to its step
RegisteredSoFar(a) ==
  author[a].step > 0 =>
    /\ skill[Target[a]].hash = author[a].hash
    /\ Len(skillEvents[Target[a]]) >= author[a].step

OffersStand(a) == \A result \in results[a] : StandsIn(Target[a], result)

PipelineInv(a) ==
  /\ author[a].pc = "sandbox" => author[a].gates \in 2..4
  /\ author[a].pc = "register" => author[a].gates = 5
  /\ author[a].pc # "register" => author[a].step = 0
  /\ author[a].pc \in {"scan", "sandbox", "register"} =>
       author[a].hash \in Renderable /\ directory[a][author[a].attempt] # None
  /\ author[a].hash # None => author[a].root \in Attempt
  /\ RegisteredSoFar(a)
  /\ OffersStand(a)

\* what is under review has been offered, and so has what passed it
ReviewerInv ==
  reviewer.pc = "approving" =>
    reviewer.of \in Author /\ OfferedFor(Target[reviewer.of], reviewer.hash)

ApprovedIsOffered ==
  \A s \in Skill : approver[s] = "approve_cli" => OfferedFor(s, skill[s].hash)

AuthorInv ==
  /\ RegistryInv /\ KeysInv /\ SignedByPublished
  /\ author \in [Author -> Pipelines]
  /\ started \in 0..MaxRuns
  /\ directory \in [Author -> [Attempt -> Hash \cup {None}]]
  /\ results \in [Author -> SUBSET Result]
  /\ reviewer \in Reviewers
  /\ approver \in [Skill -> Programs]
  /\ \A a \in Author : PipelineInv(a)
  /\ ReviewerInv
  /\ ApprovedIsOffered

-----------------------------------------------------------------------------
(***************************************************************************)
(* Key files, envelopes and the verifier                                   *)
(***************************************************************************)
KeyFiles == [private : Key \cup {None}, public : Key \cup {None}]

Keygens == [force : BOOLEAN, pc : Quiet \cup {"private", "between", "public"}]

Verifiers == [pc : {"idle", "key", "record"}, envelope : Envelope \cup {None}]

LEMMA ReleaseTypeIs ==
  ReleaseTypeOK <=> /\ keyFile \in KeyFiles /\ keygen \in [Keygen -> Keygens]
                    /\ published \subseteq Key /\ unsettled \in BOOLEAN
                    /\ repo \in [Skill -> Hash \cup {None}]
                    /\ envelope \in [Skill -> Envelope \cup {None}]
                    /\ verifier \in Verifiers
  BY DEF ReleaseTypeOK, KeyFiles, Keygens, Verifiers

LEMMA QuietPlaces ==
  /\ {"private", "between", "public"} \cap Quiet = {}
  /\ "start" \in Quiet /\ "ended" \in Quiet
  BY DEF Quiet

\* a step of the keygen g, to the place pc with the force flag it then has
KeygenMoves(g, force, pc) ==
  /\ keygen' \in [Keygen -> Keygens]
  /\ keygen'[g].force = force /\ keygen'[g].pc = pc
  /\ \A o \in Keygen \ {g} : keygen'[o] = keygen[o]

LEMMA KeygenSteps ==
  ASSUME ReleaseTypeOK, NEW g \in Keygen, NEW pc \in Quiet \cup {"private", "between", "public"},
         NEW force \in BOOLEAN
  PROVE  /\ Move(g, pc) => KeygenMoves(g, keygen[g].force, pc)
         /\ keygen' = [keygen EXCEPT ![g] = [force |-> force, pc |-> pc]] =>
              KeygenMoves(g, force, pc)
<1>1. keygen \in [Keygen -> Keygens] /\ keygen[g] \in Keygens
  BY ReleaseTypeIs
<1>2. ASSUME Move(g, pc)  PROVE KeygenMoves(g, keygen[g].force, pc)
  <2> DEFINE row == [keygen[g] EXCEPT !.pc = pc]
  <2>1. row \in Keygens /\ row.pc = pc /\ row.force = keygen[g].force
    BY <1>1 DEF Keygens
  <2>2. keygen' = [keygen EXCEPT ![g] = row]
    BY <1>1, <1>2 DEF Move
  <2> HIDE DEF row
  <2>3. QED  BY <1>1, <2>1, <2>2 DEF KeygenMoves
<1>3. ASSUME keygen' = [keygen EXCEPT ![g] = [force |-> force, pc |-> pc]]
      PROVE  KeygenMoves(g, force, pc)
  <2> DEFINE row == [force |-> force, pc |-> pc]
  <2>1. row \in Keygens /\ row.pc = pc /\ row.force = force
    BY DEF Keygens
  <2> HIDE DEF row
  <2>2. QED  BY <1>1, <1>3, <2>1 DEF KeygenMoves, row
<1>4. QED  BY <1>2, <1>3

\* while nothing is unsettled, the keygen at work is alone
LEMMA OthersAreQuiet ==
  ASSUME PairInv, ~ unsettled, NEW g \in Keygen, keygen[g].pc \notin Quiet
  PROVE  \A o \in Keygen \ {g} : keygen[o].pc \in Quiet
  BY DEF PairInv

\* the other keygens are quiet: the pair is as far as g has come with it
LEMMA PairOfOne ==
  ASSUME NEW g \in Keygen, NEW force, NEW pc, KeygenMoves(g, force, pc),
         \A o \in Keygen \ {g} : keygen[o].pc \in Quiet,
         pc \in Quiet => keyFile'.private = keyFile'.public,
         pc = "private" => /\ keyFile'.private = keyFile'.public
                           /\ ~ force => keyFile'.private = None,
         pc \in {"between", "public"} => /\ keyFile'.private = KeyOf[g]
                                         /\ ~ force => keyFile'.public = None
  PROVE  PairInv'
<1>1. /\ keygen'[g].pc = pc /\ keygen'[g].force = force
      /\ \A o \in Keygen \ {g} : keygen'[o].pc \in Quiet
  BY DEF KeygenMoves
<1>2. \A o \in Keygen \ {g} : keygen'[o].pc \notin {"private", "between", "public"}
  BY <1>1, QuietPlaces
<1>3. QED  BY <1>1, <1>2 DEF PairInv

\* keygens touch neither envelopes nor the verifier, and never unpublish a key
LEMMA KeysKept ==
  ASSUME KeysInv, keyFile' \in KeyFiles, keygen' \in [Keygen -> Keygens], PairInv',
         published \subseteq published', published' \subseteq Key, unsettled' \in BOOLEAN,
         keyFile'.public # None => keyFile'.public \in published',
         UNCHANGED <<repo, envelope, verifier>>
  PROVE  KeysInv'
<1>1. ReleaseTypeOK'
  BY ReleaseTypeIs DEF KeysInv, ReleaseTypeOK, KeyFiles, Keygens
<1>2. QED  BY <1>1 DEF KeysInv

LEMMA StartKeygenStep ==
  ASSUME KeysInv, NEW g \in Keygen, StartKeygen(g)
  PROVE  KeysInv' /\ published \subseteq published'
<1>1. /\ keyFile' = keyFile /\ published' = published /\ UNCHANGED <<repo, envelope, verifier>>
      /\ unsettled' = (unsettled \/ \E o \in Keygen : keygen[o].pc \notin Quiet)
  BY DEF StartKeygen
<1>2. /\ ReleaseTypeOK /\ PairInv /\ keyFile \in KeyFiles /\ published \subseteq Key
      /\ keygen[g].force \in BOOLEAN
  BY ReleaseTypeIs DEF KeysInv, Keygens
<1>3. unsettled' \in BOOLEAN
  BY <1>1
<1>4. \/ keyFile.private = None /\ KeygenMoves(g, keygen[g].force, "private")
      \/ KeygenMoves(g, TRUE, "private")
      \/ KeygenMoves(g, FALSE, "ended")
  BY <1>2, KeygenSteps, QuietPlaces DEF StartKeygen, End
<1>5. PairInv'
  <2>1. CASE unsettled'
    BY <2>1 DEF PairInv
  <2>2. CASE ~ unsettled'
    <3>1. (\A o \in Keygen : keygen[o].pc \in Quiet) /\ keyFile.private = keyFile.public
      BY <1>1, <1>2, <2>2 DEF PairInv
    <3>2. QED  BY <1>1, <1>4, <3>1, PairOfOne, QuietPlaces
  <2>3. QED  BY <2>1, <2>2
<1>6. keygen' \in [Keygen -> Keygens]
  BY <1>4 DEF KeygenMoves
<1>7. QED  BY <1>1, <1>2, <1>3, <1>5, <1>6, KeysKept DEF KeysInv

LEMMA ReplacePrivateStep ==
  ASSUME KeysInv, NEW g \in Keygen, ReplacePrivate(g)
  PROVE  KeysInv' /\ published \subseteq published'
<1>1. /\ keygen[g].pc = "private" /\ keyFile' = [keyFile EXCEPT !.private = KeyOf[g]]
      /\ published' = published /\ unsettled' = unsettled /\ UNCHANGED <<repo, envelope, verifier>>
  BY DEF ReplacePrivate
<1>2. /\ ReleaseTypeOK /\ PairInv /\ keyFile \in KeyFiles /\ published \subseteq Key
      /\ unsettled \in BOOLEAN /\ KeyOf[g] \in Key
  BY ReleaseTypeIs, KeygenAssumption DEF KeysInv
<1>3. keyFile' \in KeyFiles /\ keyFile'.private = KeyOf[g] /\ keyFile'.public = keyFile.public
  BY <1>1, <1>2 DEF KeyFiles
<1>4. KeygenMoves(g, keygen[g].force, "between")
  BY <1>2, KeygenSteps DEF ReplacePrivate
<1>5. PairInv'
  <2>1. CASE unsettled
    BY <1>1, <2>1 DEF PairInv
  <2>2. CASE ~ unsettled
    <3>1. ~ keygen[g].force => keyFile.public = None
      BY <1>1, <1>2, <2>2 DEF PairInv
    <3>2. \A o \in Keygen \ {g} : keygen[o].pc \in Quiet
      BY <1>1, <1>2, <2>2, OthersAreQuiet, QuietPlaces
    <3>3. QED  BY <1>3, <1>4, <3>1, <3>2, PairOfOne, QuietPlaces
  <2>3. QED  BY <2>1, <2>2
<1>6. QED  BY <1>1, <1>2, <1>3, <1>4, <1>5, KeysKept DEF KeysInv, KeygenMoves

LEMMA PublicRefusedStep ==
  ASSUME KeysInv, NEW g \in Keygen, PublicRefused(g)
  PROVE  KeysInv' /\ published \subseteq published'
<1>1. /\ keygen[g].pc \in {"between", "public"} /\ published' = published
      /\ keyFile' = IF keygen[g].force THEN keyFile ELSE [keyFile EXCEPT !.private = None]
      /\ unsettled' = (unsettled \/ keygen[g].force) /\ UNCHANGED <<repo, envelope, verifier>>
  BY DEF PublicRefused, TakeBack
<1>2. /\ ReleaseTypeOK /\ PairInv /\ keyFile \in KeyFiles /\ published \subseteq Key
      /\ unsettled \in BOOLEAN /\ keygen[g].force \in BOOLEAN
  BY ReleaseTypeIs DEF KeysInv, Keygens
<1>3. /\ keyFile' \in KeyFiles /\ keyFile'.public = keyFile.public /\ unsettled' \in BOOLEAN
      /\ ~ keygen[g].force => keyFile'.private = None
  BY <1>1, <1>2 DEF KeyFiles
<1>4. KeygenMoves(g, FALSE, "ended")
  BY <1>2, KeygenSteps, QuietPlaces DEF PublicRefused, End
<1>5. PairInv'
  <2>1. CASE unsettled'
    BY <2>1 DEF PairInv
  <2>2. CASE ~ unsettled'
    <3>1. ~ unsettled /\ ~ keygen[g].force /\ keyFile.public = None
      BY <1>1, <1>2, <2>2 DEF PairInv
    <3>2. \A o \in Keygen \ {g} : keygen[o].pc \in Quiet
      BY <1>1, <1>2, <3>1, OthersAreQuiet, QuietPlaces
    <3>3. QED  BY <1>3, <1>4, <3>1, <3>2, PairOfOne, QuietPlaces
  <2>3. QED  BY <2>1, <2>2
<1>6. QED  BY <1>1, <1>2, <1>3, <1>4, <1>5, KeysKept DEF KeysInv, KeygenMoves

LEMMA PublicAllowedStep ==
  ASSUME KeysInv, NEW g \in Keygen, PublicAllowed(g)
  PROVE  KeysInv' /\ published \subseteq published'
<1>1. /\ keygen[g].pc = "between" /\ keyFile' = keyFile /\ published' = published
      /\ unsettled' = unsettled /\ UNCHANGED <<repo, envelope, verifier>>
  BY DEF PublicAllowed
<1>2. /\ ReleaseTypeOK /\ PairInv /\ keyFile \in KeyFiles /\ published \subseteq Key
      /\ unsettled \in BOOLEAN
  BY ReleaseTypeIs DEF KeysInv
<1>3. KeygenMoves(g, keygen[g].force, "public")
  BY <1>2, KeygenSteps DEF PublicAllowed
<1>4. PairInv'
  <2>1. CASE unsettled
    BY <1>1, <2>1 DEF PairInv
  <2>2. CASE ~ unsettled
    <3>1. keyFile.private = KeyOf[g] /\ (~ keygen[g].force => keyFile.public = None)
      BY <1>1, <1>2, <2>2 DEF PairInv
    <3>2. \A o \in Keygen \ {g} : keygen[o].pc \in Quiet
      BY <1>1, <1>2, <2>2, OthersAreQuiet, QuietPlaces
    <3>3. QED  BY <1>1, <1>3, <3>1, <3>2, PairOfOne, QuietPlaces
  <2>3. QED  BY <2>1, <2>2
<1>5. QED  BY <1>1, <1>2, <1>3, <1>4, KeysKept DEF KeysInv, KeygenMoves

LEMMA ReplacePublicStep ==
  ASSUME KeysInv, NEW g \in Keygen, ReplacePublic(g)
  PROVE  KeysInv' /\ published \subseteq published'
<1>1. /\ keygen[g].pc = "public" /\ keyFile' = [keyFile EXCEPT !.public = KeyOf[g]]
      /\ published' = published \cup {KeyOf[g]} /\ unsettled' = unsettled
      /\ UNCHANGED <<repo, envelope, verifier>>
  BY DEF ReplacePublic
<1>2. /\ ReleaseTypeOK /\ PairInv /\ keyFile \in KeyFiles /\ published \subseteq Key
      /\ unsettled \in BOOLEAN /\ KeyOf[g] \in Key
  BY ReleaseTypeIs, KeygenAssumption DEF KeysInv
<1>3. keyFile' \in KeyFiles /\ keyFile'.public = KeyOf[g] /\ keyFile'.private = keyFile.private
  BY <1>1, <1>2 DEF KeyFiles
<1>4. KeygenMoves(g, FALSE, "ended")
  BY <1>2, KeygenSteps, QuietPlaces DEF ReplacePublic, End
<1>5. PairInv'
  <2>1. CASE unsettled
    BY <1>1, <2>1 DEF PairInv
  <2>2. CASE ~ unsettled
    <3>1. keyFile.private = KeyOf[g]
      BY <1>1, <1>2, <2>2 DEF PairInv
    <3>2. \A o \in Keygen \ {g} : keygen[o].pc \in Quiet
      BY <1>1, <1>2, <2>2, OthersAreQuiet, QuietPlaces
    <3>3. QED  BY <1>3, <1>4, <3>1, <3>2, PairOfOne, QuietPlaces
  <2>3. QED  BY <2>1, <2>2
<1>6. QED  BY <1>1, <1>2, <1>3, <1>4, <1>5, KeysKept DEF KeysInv, KeygenMoves

LEMMA KillKeygenStep ==
  ASSUME KeysInv, NEW g \in Keygen, KillKeygen(g)
  PROVE  KeysInv' /\ published \subseteq published'
<1>1. /\ keyFile' = keyFile /\ published' = published /\ unsettled' = TRUE
      /\ UNCHANGED <<repo, envelope, verifier>>
  BY DEF KillKeygen
<1>2. ReleaseTypeOK /\ keyFile \in KeyFiles /\ published \subseteq Key
  BY ReleaseTypeIs DEF KeysInv
<1>3. KeygenMoves(g, FALSE, "ended")
  BY <1>2, KeygenSteps, QuietPlaces DEF KillKeygen, End
<1>4. PairInv'
  BY <1>1 DEF PairInv
<1>5. QED  BY <1>1, <1>2, <1>3, <1>4, KeysKept DEF KeysInv, KeygenMoves

LEMMA KeygenStep ==
  ASSUME KeysInv, KeygenNext
  PROVE  KeysInv' /\ published \subseteq published'
  BY StartKeygenStep, ReplacePrivateStep, PublicRefusedStep, PublicAllowedStep, ReplacePublicStep,
     KillKeygenStep DEF KeygenNext

\* the other release tools leave the keys alone
LEMMA FilesKept ==
  ASSUME KeysInv, UNCHANGED keyVars, repo' \in [Skill -> Hash \cup {None}],
         envelope' \in [Skill -> Envelope \cup {None}], verifier' \in Verifiers,
         verifier'.pc # "idle" => verifier'.envelope \in Envelope,
         verifier'.pc = "record" => verifier'.envelope.key \in published
  PROVE  KeysInv' /\ published' = published
<1>1. keyFile' = keyFile /\ keygen' = keygen /\ published' = published /\ unsettled' = unsettled
  BY DEF keyVars
<1>2. ReleaseTypeOK'
  BY <1>1 DEF KeysInv, ReleaseTypeOK, Verifiers
<1>3. PairInv'
  BY <1>1 DEF KeysInv, PairInv
<1>4. QED  BY <1>1, <1>2, <1>3 DEF KeysInv

LEMMA VerifierOff ==
  NoVerification \in Verifiers /\ NoVerification.pc = "idle"
  BY DEF NoVerification, Verifiers

LEMMA SigningStep ==
  ASSUME KeysInv, SigningNext
  PROVE  KeysInv' /\ published' = published
<1>1. /\ repo \in [Skill -> Hash \cup {None}] /\ envelope \in [Skill -> Envelope \cup {None}]
      /\ verifier \in Verifiers /\ keyFile \in KeyFiles
  BY ReleaseTypeIs DEF KeysInv
<1>2. CASE \E s \in Skill, h \in Hash : CreateSignatureEnvelope(s, h)
  <2>1. PICK s \in Skill, h \in Hash : CreateSignatureEnvelope(s, h)
    BY <1>2
  <2> DEFINE made == [skill |-> s, hash |-> h, key |-> keyFile.private]
  <2>2. made \in Envelope
    BY <1>1, <2>1 DEF CreateSignatureEnvelope, Envelope, KeyFiles
  <2>3. /\ envelope' = [envelope EXCEPT ![s] = made] /\ UNCHANGED keyVars
        /\ repo' = repo /\ verifier' = verifier
    BY <2>1 DEF CreateSignatureEnvelope
  <2> HIDE DEF made
  <2>4. envelope' \in [Skill -> Envelope \cup {None}]
    BY <1>1, <2>2, <2>3
  <2>5. QED  BY <1>1, <2>3, <2>4, FilesKept DEF KeysInv
<1>3. CASE \E s \in Skill : VerifyContent(s)
  <2>1. PICK s \in Skill : VerifyContent(s)
    BY <1>3
  <2>2. /\ envelope[s] # None /\ verifier' = [pc |-> "key", envelope |-> envelope[s]]
        /\ UNCHANGED keyVars /\ repo' = repo /\ envelope' = envelope
    BY <2>1 DEF VerifyContent
  <2>3. envelope[s] \in Envelope
    BY <1>1, <2>2
  <2>4. verifier' \in Verifiers /\ verifier'.pc = "key" /\ verifier'.envelope = envelope[s]
    BY <2>2, <2>3 DEF Verifiers
  <2>5. QED  BY <1>1, <2>2, <2>3, <2>4, FilesKept
<1>4. CASE VerifySignature
  <2>1. /\ verifier.pc = "key" /\ keyFile.public = verifier.envelope.key
        /\ verifier' = [verifier EXCEPT !.pc = "record"]
        /\ UNCHANGED keyVars /\ repo' = repo /\ envelope' = envelope
    BY <1>4 DEF VerifySignature
  <2>2. /\ verifier' \in Verifiers /\ verifier'.pc = "record"
        /\ verifier'.envelope = verifier.envelope
    BY <1>1, <2>1 DEF Verifiers
  <2>3. verifier.envelope \in Envelope
    BY <2>1 DEF KeysInv
  <2>4. verifier.envelope.key \in published
    <3>1. verifier.envelope.key \in Key
      BY <2>3 DEF Envelope
    <3>2. keyFile.public # None
      BY <2>1, <3>1, KeygenAssumption
    <3>3. QED  BY <2>1, <3>2 DEF KeysInv
  <2>5. QED  BY <1>1, <2>1, <2>2, <2>3, <2>4, FilesKept
<1>5. CASE VerificationFails
  <2>1. verifier' = NoVerification /\ UNCHANGED keyVars /\ repo' = repo /\ envelope' = envelope
    BY <1>5 DEF VerificationFails
  <2>2. QED  BY <1>1, <2>1, VerifierOff, FilesKept
<1>6. QED  BY <1>2, <1>3, <1>4, <1>5 DEF SigningNext

-----------------------------------------------------------------------------
(***************************************************************************)
(* What the operations of the registry leave as it was                     *)
(***************************************************************************)
Governed == RegistryInv' /\ \A s \in Skill : Pinned(s)

SignsNothing == \A s \in Skill : skill'[s].signature \in {None, skill[s].signature}

LEMMA RegistryIsGoverned ==
  ASSUME RegistryInv, RegistryNext \/ UNCHANGED registryVars
  PROVE  Governed
<1>1. RegistryInv'
  BY RegistryStep
<1>2. QED  BY <1>1, PinStep DEF Governed

LEMMA StillIsQuiet ==
  ASSUME RegistryInv, UNCHANGED registryVars
  PROVE  Governed /\ SignsNothing
<1>1. Governed
  BY RegistryIsGoverned
<1>2. QED  BY <1>1 DEF registryVars, SignsNothing

LEMMA RegisterIsQuiet ==
  ASSUME RegistryInv, NEW s \in Skill, NEW h \in Hash, NEW m \in Manifest, RegisterManifest(s, h, m)
  PROVE  Governed /\ SignsNothing
<1>1. Governed
  BY RegistryIsGoverned DEF RegistryNext
<1>2. skill \in [Skill -> Row \cup {NoRow}]
  BY DEF RegistryInv, RegistryTypeOK
<1>3. SignsNothing
  BY <1>2 DEF SignsNothing, RegisterManifest
<1>4. QED  BY <1>1, <1>3

\* a version that moves keeps its signature, or gets the one it is moved with
LEMMA MoveSigns ==
  ASSUME RegistryInv, NEW s \in Skill, NEW target \in SkillStates,
         NEW signature \in Envelope \cup {None}, MovesOnly(s, target, signature)
  PROVE  \A x \in Skill :
           skill'[x].signature = skill[x].signature \/ (x = s /\ skill'[x].signature = signature)
  BY MovesOnlyMoves

LEMMA AdvanceIsQuiet ==
  ASSUME RegistryInv, NEW s \in Skill, NEW target \in SkillStates, NEW expected \in SkillStates,
         Advance(s, target, expected)
  PROVE  Governed /\ SignsNothing
<1>1. Governed
  BY RegistryIsGoverned DEF RegistryNext
<1>2. MovesOnly(s, target, skill[s].signature) /\ skill[s].signature \in Envelope \cup {None}
  BY AdvanceMovesOnly
<1>3. QED  BY <1>1, <1>2, MoveSigns DEF SignsNothing

LEMMA ApproveIsQuiet ==
  ASSUME RegistryInv, NEW s \in Skill, NEW h \in Hash, NEW decision \in Decisions,
         Approve(s, h, decision)
  PROVE  Governed /\ SignsNothing
<1>1. Governed
  BY RegistryIsGoverned DEF RegistryNext
<1>2. CASE decision = "APPROVED"
  <2>1. /\ MovesOnly(s, "HUMAN_APPROVED", skill[s].signature)
        /\ skill[s].signature \in Envelope \cup {None} /\ "HUMAN_APPROVED" \in SkillStates
    BY <1>2, ApproveMovesOnly DEF SkillStates
  <2>2. QED  BY <1>1, <2>1, MoveSigns DEF SignsNothing
<1>3. CASE decision # "APPROVED"
  <2>1. skill' = skill
    BY <1>3 DEF Approve
  <2>2. QED  BY <1>1, <2>1 DEF SignsNothing
<1>4. QED  BY <1>2, <1>3

LEMMA SignatureGoverns ==
  ASSUME RegistryInv, NEW e \in Envelope, RecordVerifiedSignature(e)
  PROVE  /\ Governed
         /\ \A x \in Skill : skill'[x].signature \in {None, skill[x].signature, e}
<1>1. Governed
  BY RegistryIsGoverned DEF RegistryNext
<1>2. MovesOnly(e.skill, "SIGNED", e) /\ e.skill \in Skill /\ "SIGNED" \in SkillStates
  BY SignatureMovesOnly DEF Envelope, SkillStates
<1>3. QED  BY <1>1, <1>2, MoveSigns

\* what is pinned: the content of a version with a trail, and how far it got
LEMMA TrailsGrow ==
  ASSUME RegistryInv, Governed, NEW s \in Skill
  PROVE  /\ Len(skillEvents[s]) \in Nat /\ Len(skillEvents'[s]) \in Nat
         /\ Len(skillEvents'[s]) >= Len(skillEvents[s])
         /\ Len(skillEvents[s]) > 0 => skill'[s].hash = skill[s].hash
<1>1. /\ skillEvents[s] \in Seq(Event) /\ skillEvents'[s] \in Seq(Event) /\ TrailOf(s) /\ Pinned(s)
  BY DEF Governed, RegistryInv, RegistryTypeOK, VersionInv, Event
<1>2. /\ Len(skillEvents[s]) \in Nat /\ Len(skillEvents'[s]) \in Nat
      /\ Len(skillEvents'[s]) >= Len(skillEvents[s])
      /\ \A i \in 1..Len(skillEvents[s]) : skillEvents'[s][i] = skillEvents[s][i]
  BY <1>1, LenProperties DEF Pinned, IsPrefixOf
<1>3. ASSUME Len(skillEvents[s]) > 0  PROVE skill'[s].hash = skill[s].hash
  <2>1. skillEvents[s] # <<>>
    BY <1>3
  <2>2. Registered(s)
    BY <1>1, <2>1 DEF TrailOf
  <2>3. QED  BY <1>1, <2>2 DEF Pinned
<1>4. QED  BY <1>2, <1>3

-----------------------------------------------------------------------------
(***************************************************************************)
(* What a step of one author leaves to the others                          *)
(***************************************************************************)
Directories == [Author -> [Attempt -> Hash \cup {None}]]

LEMMA AuthorInvGives ==
  ASSUME AuthorInv
  PROVE  /\ RegistryInv /\ KeysInv /\ SignedByPublished /\ ReviewerInv /\ ApprovedIsOffered
         /\ author \in [Author -> Pipelines] /\ started \in 0..MaxRuns /\ directory \in Directories
         /\ results \in [Author -> SUBSET Result] /\ reviewer \in Reviewers
         /\ approver \in [Skill -> Programs]
         /\ \A a \in Author :
              /\ author[a] \in Pipelines /\ results[a] \subseteq Result /\ Target[a] \in Skill
              /\ PipelineInv(a) /\ RegisteredSoFar(a) /\ OffersStand(a)
  BY AuthorAssumption DEF AuthorInv, PipelineInv, Directories

\* results are written and never taken back
ResultsGrow == \A a \in Author : results[a] \subseteq results'[a]

\* a result that stood in the registry goes on to
LEMMA StandsOn ==
  ASSUME RegistryInv, Governed, NEW s \in Skill, NEW result, StandsIn(s, result)
  PROVE  StandsIn(s, result)'
<1>1. /\ Len(skillEvents[s]) \in Nat /\ Len(skillEvents'[s]) \in Nat
      /\ Len(skillEvents'[s]) >= Len(skillEvents[s])
      /\ Len(skillEvents[s]) > 0 => skill'[s].hash = skill[s].hash
  BY TrailsGrow
<1>2. QED  BY <1>1 DEF StandsIn

LEMMA PipelineKept ==
  ASSUME AuthorInv, Governed, NEW b \in Author, author'[b] = author[b], results'[b] = results[b],
         \A i \in Attempt : directory[b][i] # None => directory'[b][i] # None
  PROVE  PipelineInv(b)'
<1> DEFINE s == Target[b]
<1>1. /\ author[b] \in Pipelines /\ s \in Skill /\ PipelineInv(b) /\ RegisteredSoFar(b)
      /\ OffersStand(b) /\ RegistryInv
  BY AuthorInvGives
<1>2. /\ Len(skillEvents[s]) \in Nat /\ Len(skillEvents'[s]) \in Nat
      /\ Len(skillEvents'[s]) >= Len(skillEvents[s])
      /\ Len(skillEvents[s]) > 0 => skill'[s].hash = skill[s].hash
  BY <1>1, TrailsGrow
<1>3. author[b].step \in Nat /\ author[b].attempt \in Attempt
  BY <1>1 DEF Pipelines
<1>4. RegisteredSoFar(b)'
  BY <1>1, <1>2, <1>3 DEF RegisteredSoFar
<1>5. \A result \in results'[b] : StandsIn(s, result)'
  BY <1>1, StandsOn DEF OffersStand
<1>6. OffersStand(b)'
  BY <1>5 DEF OffersStand
<1>7. QED  BY <1>1, <1>3, <1>4, <1>6 DEF PipelineInv

\* what was offered and is in the registry stays so
LEMMA OfferLasts ==
  ASSUME AuthorInv, Governed, ResultsGrow, NEW s \in Skill, NEW h, OfferedFor(s, h)
  PROVE  OfferedFor(s, h)' /\ skill[s].hash = h /\ skill'[s].hash = h
<1>0. PICK a \in Author : \E result \in results[a] :
      Target[a] = s /\ result.status = "waiting_human_approval" /\ result.hash = h
  BY DEF OfferedFor
<1>1. PICK result \in results[a] :
        Target[a] = s /\ result.status = "waiting_human_approval" /\ result.hash = h
  BY <1>0
<1>2. OfferedFor(s, h)'
  BY <1>1 DEF OfferedFor, ResultsGrow
<1>3. skill[s].hash = h /\ Len(skillEvents[s]) >= 6
  BY <1>1, AuthorInvGives DEF OffersStand, StandsIn
<1>4. Len(skillEvents[s]) \in Nat /\ (Len(skillEvents[s]) > 0 => skill'[s].hash = skill[s].hash)
  BY AuthorInvGives, TrailsGrow
<1>5. QED  BY <1>2, <1>3, <1>4

LEMMA ApprovalsKept ==
  ASSUME AuthorInv, Governed, ResultsGrow,
         \A s \in Skill : approver'[s] = "approve_cli" =>
           approver[s] = "approve_cli" \/ OfferedFor(s, skill[s].hash)
  PROVE  ApprovedIsOffered'
<1>1. ASSUME NEW s \in Skill, approver'[s] = "approve_cli"
      PROVE  OfferedFor(s, skill[s].hash)' /\ skill'[s].hash = skill[s].hash
  <2>1. OfferedFor(s, skill[s].hash)
    BY <1>1, AuthorInvGives DEF ApprovedIsOffered
  <2>2. PICK h : h = skill[s].hash
    OBVIOUS
  <2>3. OfferedFor(s, h)' /\ skill'[s].hash = h
    BY <2>1, <2>2, OfferLasts
  <2>4. QED  BY <2>2, <2>3 DEF OfferedFor
<1>2. QED  BY <1>1 DEF ApprovedIsOffered, OfferedFor

LEMMA ReviewLasts ==
  ASSUME AuthorInv, Governed, reviewer' = reviewer, ResultsGrow
  PROVE  ReviewerInv'
<1>1. ASSUME reviewer.pc = "approving"
      PROVE  reviewer.of \in Author /\ OfferedFor(Target[reviewer.of], reviewer.hash)'
  <2>1. /\ reviewer.of \in Author /\ Target[reviewer.of] \in Skill
        /\ OfferedFor(Target[reviewer.of], reviewer.hash)
    BY <1>1, AuthorInvGives DEF ReviewerInv
  <2>2. PICK s : s = Target[reviewer.of]
    OBVIOUS
  <2>3. PICK h : h = reviewer.hash
    OBVIOUS
  <2>4. OfferedFor(s, h)'
    BY <2>1, <2>2, <2>3, OfferLasts
  <2>5. QED  BY <2>1, <2>2, <2>3, <2>4 DEF OfferedFor
<1>2. QED  BY <1>1 DEF ReviewerInv, OfferedFor

LEMMA ReviewKept ==
  ASSUME AuthorInv, Governed, reviewer' = reviewer, approver' = approver, ResultsGrow
  PROVE  ReviewerInv' /\ ApprovedIsOffered'
  BY ReviewLasts, ApprovalsKept

LEMMA SignaturesKept ==
  ASSUME AuthorInv, SignsNothing, published \subseteq published'
  PROVE  SignedByPublished'
<1>1. SignedByPublished
  BY AuthorInvGives
<1>2. QED  BY <1>1 DEF SignedByPublished, SignsNothing

LEMMA KeysSame ==
  ASSUME AuthorInv, UNCHANGED releaseVars
  PROVE  KeysInv' /\ published' = published
<1>1. /\ keyFile' = keyFile /\ keygen' = keygen /\ published' = published /\ unsettled' = unsettled
      /\ repo' = repo /\ envelope' = envelope /\ verifier' = verifier
  BY DEF releaseVars
<1>2. KeysInv
  BY AuthorInvGives
<1>3. QED  BY <1>1, <1>2, FilesKept, ReleaseTypeIs DEF KeysInv, keyVars

-----------------------------------------------------------------------------
(***************************************************************************)
(* A step of one pipeline                                                  *)
(***************************************************************************)

\* where the pipeline of a arrives, with the row it then has
Arrives(a, row) ==
  /\ row.pc = "sandbox" => row.gates \in 2..4
  /\ row.pc = "register" => row.gates = 5
  /\ row.pc # "register" => row.step = 0
  /\ row.pc \in {"scan", "sandbox", "register"} =>
       row.hash \in Renderable /\ directory'[a][row.attempt] # None
  /\ row.hash # None => row.root \in Attempt
  /\ row.step > 0 => /\ skill'[Target[a]].hash = row.hash
                     /\ Len(skillEvents'[Target[a]]) >= row.step

LEMMA PipelineMoves ==
  ASSUME AuthorInv, Governed, SignsNothing, UNCHANGED releaseVars,
         reviewer' = reviewer, approver' = approver, started' \in 0..MaxRuns, NEW a \in Author,
         NEW row \in Pipelines, author' = [author EXCEPT ![a] = row],
         NEW found \in SUBSET Result, results' = [results EXCEPT ![a] = results[a] \cup found],
         \A result \in found : StandsIn(Target[a], result)',
         directory' \in Directories, \A b \in Author \ {a} : directory'[b] = directory[b],
         Arrives(a, row)
  PROVE  AuthorInv'
<1>1. /\ author' \in [Author -> Pipelines] /\ author'[a] = row
      /\ results' \in [Author -> SUBSET Result] /\ results'[a] = results[a] \cup found
      /\ \A b \in Author \ {a} : author'[b] = author[b] /\ results'[b] = results[b]
  BY AuthorInvGives
<1>2. OffersStand(a)'
  <2>1. \A result \in results[a] : StandsIn(Target[a], result)'
    BY AuthorInvGives, StandsOn DEF OffersStand
  <2>2. \A result \in results'[a] : StandsIn(Target[a], result)'
    BY <1>1, <2>1
  <2>3. QED  BY <2>2 DEF OffersStand
<1>3. PipelineInv(a)'
  BY <1>1, <1>2 DEF PipelineInv, RegisteredSoFar, Arrives
<1>4. \A b \in Author \ {a} : PipelineInv(b)'
  BY <1>1, PipelineKept
<1>5. ResultsGrow
  BY <1>1 DEF ResultsGrow
<1>6. ReviewerInv' /\ ApprovedIsOffered'
  BY <1>5, ReviewKept
<1>7. KeysInv' /\ SignedByPublished'
  BY KeysSame, SignaturesKept
<1>8. reviewer' \in Reviewers /\ approver' \in [Skill -> Programs]
  BY AuthorInvGives
<1>9. QED  BY <1>1, <1>3, <1>4, <1>6, <1>7, <1>8 DEF AuthorInv, Governed, Directories

\* a step that writes no result
LEMMA Travels ==
  ASSUME AuthorInv, Governed, SignsNothing, UNCHANGED releaseVars,
         reviewer' = reviewer, approver' = approver, started' \in 0..MaxRuns, NEW a \in Author,
         NEW row \in Pipelines, author' = [author EXCEPT ![a] = row], results' = results,
         directory' \in Directories, \A b \in Author \ {a} : directory'[b] = directory[b],
         Arrives(a, row)
  PROVE  AuthorInv'
<1>1. results' = [results EXCEPT ![a] = results[a] \cup {}]
  BY AuthorInvGives
<1>2. {} \in SUBSET Result /\ \A result \in {} : StandsIn(Target[a], result)'
  OBVIOUS
<1>3. QED  BY <1>1, <1>2, PipelineMoves

LEMMA NothingElseIs ==
  ASSUME AuthorInv, NothingElse
  PROVE  /\ Governed /\ SignsNothing /\ UNCHANGED releaseVars
         /\ reviewer' = reviewer /\ approver' = approver /\ started' \in 0..MaxRuns
         /\ directory' \in Directories /\ directory' = directory
<1>1. RegistryInv /\ directory \in Directories /\ started \in 0..MaxRuns
  BY AuthorInvGives
<1>2. UNCHANGED registryVars
  BY DEF NothingElse
<1>3. QED  BY <1>1, <1>2, StillIsQuiet DEF NothingElse

\* to another place of the same attempt, or of the next
LEMMA RowStep ==
  ASSUME AuthorInv, NEW a \in Author, NEW row \in Pipelines,
         author' = [author EXCEPT ![a] = row], results' = results, NothingElse, Arrives(a, row)
  PROVE  AuthorInv'
  BY NothingElseIs, Travels

LEMMA RestingIsRow ==
  ASSUME NEW a \in Author
  PROVE  Resting \in Pipelines /\ Resting.pc = "idle" /\ Resting.step = 0 /\ Arrives(a, Resting)
<1>1. 1 \in Attempt
  BY AuthorAssumption DEF Attempt
<1>2. Resting \in Pipelines
  BY <1>1 DEF Resting, Pipelines
<1>3. Resting.pc = "idle" /\ Resting.step = 0 /\ Resting.hash = None
  BY DEF Resting
<1>4. QED  BY <1>2, <1>3 DEF Arrives

LEMMA LeaveStep ==
  ASSUME AuthorInv, NEW a \in Author, Leave(a), results' = results, NothingElse
  PROVE  AuthorInv'
<1>1. author' = [author EXCEPT ![a] = Resting]
  BY DEF Leave
<1>2. QED  BY <1>1, RestingIsRow, RowStep

\* a result, of a candidate that waits for approval or failed, or of none
LEMMA ReturnStep ==
  ASSUME AuthorInv, NEW a \in Author, NEW status \in {"waiting_human_approval", "failed"},
         Return(a, status), NothingElse,
         status = "waiting_human_approval" =>
           /\ skill[Target[a]].hash = author[a].hash
           /\ Len(skillEvents[Target[a]]) >= 6
  PROVE  AuthorInv'
<1> DEFINE result == [status |-> status, hash |-> author[a].hash, root |-> author[a].root]
           found == IF author[a].hash = None THEN {} ELSE {result}
<1>1. author' = [author EXCEPT ![a] = Resting]
  BY DEF Return, Leave
<1>2. results' = [results EXCEPT ![a] = results[a] \cup found]
  BY AuthorInvGives DEF Return
<1>3. found \in SUBSET Result
  <2>1. CASE author[a].hash = None
    BY <2>1
  <2>2. CASE author[a].hash # None
    <3>1. author[a].hash \in Renderable /\ author[a].root \in Attempt
      BY <2>2, AuthorInvGives DEF PipelineInv, Pipelines
    <3>2. result \in Result
      BY <3>1 DEF Result
    <3>3. QED  BY <3>2
  <2>3. QED  BY <2>1, <2>2
<1>4. \A r \in found : StandsIn(Target[a], r)'
  <2>1. skill' = skill /\ skillEvents' = skillEvents
    BY DEF NothingElse, registryVars
  <2>2. ASSUME NEW r \in found  PROVE StandsIn(Target[a], r)'
    <3>1. r.status = status /\ r.hash = author[a].hash
      BY <2>2
    <3>2. QED  BY <2>1, <3>1 DEF StandsIn
  <2>3. QED  BY <2>2
<1> HIDE DEF found
<1>5. \A b \in Author \ {a} : directory'[b] = directory[b]
  BY NothingElseIs
<1>6. QED  BY <1>1, <1>2, <1>3, <1>4, <1>5, NothingElseIs, RestingIsRow, PipelineMoves

LEMMA NextAttempt ==
  ASSUME AuthorInv, NEW a \in Author, author[a].attempt <= MaxRepairs
  PROVE  LET row == [author[a] EXCEPT !.pc = "generate", !.step = 0,
                                      !.attempt = author[a].attempt + 1] IN
         row \in Pipelines /\ Arrives(a, row)
<1> DEFINE next == author[a].attempt + 1
           row == [author[a] EXCEPT !.pc = "generate", !.step = 0, !.attempt = next]
<1>1. /\ author[a] \in Pipelines /\ author[a].attempt \in Attempt
      /\ author[a].hash # None => author[a].root \in Attempt
  BY AuthorInvGives DEF Pipelines, PipelineInv
<1>2. next \in Attempt
  BY <1>1, AuthorAssumption DEF Attempt
<1> HIDE DEF next
<1>3. row.pc = "generate" /\ row.step = 0 /\ row.hash = author[a].hash /\ row.root = author[a].root
  BY <1>1 DEF Pipelines
<1>4. row \in Pipelines
  <2>1. 0 \in 0..6 /\ "generate" \in {"idle", "generate"}
    OBVIOUS
  <2>2. QED  BY <1>1, <1>2, <2>1 DEF Pipelines
<1> HIDE DEF row
<1>5. Arrives(a, row)
  BY <1>1, <1>3 DEF Arrives
<1>6. QED  BY <1>4, <1>5 DEF row, next

LEMMA RepairStep ==
  ASSUME AuthorInv, NEW a \in Author, Repair(a), NothingElse
  PROVE  AuthorInv'
<1>1. CASE author[a].attempt <= MaxRepairs
  <2> DEFINE row == [author[a] EXCEPT !.pc = "generate", !.step = 0,
                                      !.attempt = author[a].attempt + 1]
  <2>1. row \in Pipelines /\ Arrives(a, row)
    BY <1>1, NextAttempt
  <2>2. author[a] \in Pipelines
    BY AuthorInvGives
  <2>3. row = [author[a] EXCEPT !.pc = "generate", !.attempt = author[a].attempt + 1, !.step = 0]
    BY <2>2 DEF Pipelines
  <2>4. author' = [author EXCEPT ![a] = row] /\ results' = results
    BY <1>1, <2>3, AuthorInvGives DEF Repair
  <2> HIDE DEF row
  <2>5. QED  BY <2>1, <2>4, RowStep
<1>2. CASE ~ (author[a].attempt <= MaxRepairs)
  <2>1. Return(a, "failed")
    BY <1>2 DEF Repair
  <2>2. QED  BY <2>1, ReturnStep
<1>3. QED  BY <1>1, <1>2

-----------------------------------------------------------------------------
(***************************************************************************)
(* One lemma for each step of SkillAuthorPipeline.run                      *)
(***************************************************************************)
LEMMA GroundStep ==
  ASSUME AuthorInv, NEW a \in Author, Ground(a)
  PROVE  AuthorInv'
<1> DEFINE row == [author[a] EXCEPT !.pc = "generate"]
<1>1. /\ author[a].pc = "idle" /\ results' = results /\ directory' = directory
      /\ reviewer' = reviewer /\ approver' = approver /\ started < MaxRuns /\ started' = started + 1
      /\ UNCHANGED releaseVars /\ UNCHANGED registryVars
      /\ author' = [author EXCEPT ![a].pc = "generate"]
  BY DEF Ground, In, releaseVars, registryVars
<1>2. /\ author[a] \in Pipelines /\ author[a].step = 0 /\ RegistryInv /\ directory \in Directories
      /\ author[a].hash # None => author[a].root \in Attempt
  BY <1>1, AuthorInvGives DEF PipelineInv
<1>3. /\ row \in Pipelines /\ row.pc = "generate" /\ row.step = 0
      /\ row.hash = author[a].hash /\ row.root = author[a].root
  BY <1>2 DEF Pipelines
<1>4. author' = [author EXCEPT ![a] = row]
  BY <1>1, AuthorInvGives
<1> HIDE DEF row
<1>5. Arrives(a, row)
  BY <1>2, <1>3 DEF Arrives
<1>6. started' \in 0..MaxRuns
  BY <1>1, AuthorInvGives, AuthorAssumption
<1>7. Governed /\ SignsNothing
  BY <1>1, <1>2, StillIsQuiet
<1>8. QED  BY <1>1, <1>2, <1>3, <1>4, <1>5, <1>6, <1>7, Travels

LEMMA GenerateStep ==
  ASSUME AuthorInv, NEW a \in Author, Generate(a)
  PROVE  AuthorInv'
<1> DEFINE row == [author[a] EXCEPT !.pc = "render", !.gates = 1]
<1>1. author[a].pc = "generate" /\ NothingElse
  BY DEF Generate, In
<1>2. /\ author[a] \in Pipelines /\ author[a].step = 0
      /\ author[a].hash # None => author[a].root \in Attempt
  BY <1>1, AuthorInvGives DEF PipelineInv
<1>3. CASE author' = [author EXCEPT ![a].pc = "render", ![a].gates = 1] /\ UNCHANGED results
  <2>1. /\ row \in Pipelines /\ row.pc = "render" /\ row.step = 0
        /\ row.hash = author[a].hash /\ row.root = author[a].root
    <3>1. 1 \in 0..5 /\ "render" \in {"idle", "generate", "render", "scan", "sandbox", "register"}
      OBVIOUS
    <3>2. row \in Pipelines
      BY <1>2, <3>1 DEF Pipelines
    <3>3. /\ row.pc = "render" /\ row.step = author[a].step
          /\ row.hash = author[a].hash /\ row.root = author[a].root
      BY <1>2 DEF Pipelines
    <3>4. QED  BY <1>2, <3>2, <3>3
  <2>2. author' = [author EXCEPT ![a] = row]
    BY <1>3, AuthorInvGives
  <2> HIDE DEF row
  <2>3. Arrives(a, row)
    BY <1>2, <2>1 DEF Arrives
  <2>4. QED  BY <1>1, <1>3, <2>1, <2>2, <2>3, RowStep
<1>4. CASE Leave(a) /\ UNCHANGED results
  BY <1>1, <1>4, LeaveStep
<1>5. CASE Repair(a)
  BY <1>1, <1>5, RepairStep
<1>6. QED  BY <1>3, <1>4, <1>5 DEF Generate

LEMMA RenderStep ==
  ASSUME AuthorInv, NEW a \in Author, Render(a)
  PROVE  AuthorInv'
<1> DEFINE here == author[a].attempt
<1>1. /\ author[a].pc = "render" /\ UNCHANGED <<started, reviewer, approver>>
      /\ UNCHANGED releaseVars /\ UNCHANGED registryVars
  BY DEF Render, In, releaseVars, registryVars
<1>2. /\ author[a] \in Pipelines /\ author[a].step = 0 /\ here \in Attempt
      /\ directory \in Directories /\ RegistryInv /\ started \in 0..MaxRuns
  BY <1>1, AuthorInvGives DEF PipelineInv, Pipelines
<1>3. CASE directory[a][here] # None
  <2>1. Repair(a) /\ NothingElse
    BY <1>1, <1>3 DEF Render, NothingElse
  <2>2. QED  BY <2>1, RepairStep
<1>4. CASE ~ (directory[a][here] # None)
  <2>1. PICK h \in Renderable :
          /\ directory' = [directory EXCEPT ![a][here] = h]
          /\ author' = [author EXCEPT ![a].pc = "scan", ![a].hash = h, ![a].root = here]
          /\ UNCHANGED results
    BY <1>4 DEF Render
  <2> DEFINE row == [author[a] EXCEPT !.pc = "scan", !.hash = h, !.root = here]
  <2>2. h \in Hash /\ h # None
    BY AuthorAssumption
  <2>3. /\ row \in Pipelines /\ row.pc = "scan" /\ row.step = 0 /\ row.hash = h
        /\ row.attempt = here /\ row.root = here
    BY <1>2 DEF Pipelines
  <2>4. author' = [author EXCEPT ![a] = row]
    BY <2>1, AuthorInvGives
  <2> HIDE DEF row, here
  <2>5. /\ directory' \in Directories /\ directory'[a][here] = h
        /\ \A b \in Author \ {a} : directory'[b] = directory[b]
    BY <1>2, <2>1, <2>2 DEF Directories
  <2>6. Arrives(a, row)
    BY <1>2, <2>2, <2>3, <2>5 DEF Arrives
  <2>7. Governed /\ SignsNothing
    BY <1>1, <1>2, StillIsQuiet
  <2>8. started' \in 0..MaxRuns
    BY <1>1, <1>2
  <2>9. QED  BY <1>1, <2>1, <2>3, <2>4, <2>5, <2>6, <2>7, <2>8, Travels
<1>5. QED  BY <1>3, <1>4

LEMMA StaticScanStep ==
  ASSUME AuthorInv, NEW a \in Author, StaticScan(a)
  PROVE  AuthorInv'
<1> DEFINE row == [author[a] EXCEPT !.pc = "sandbox", !.gates = 2]
<1>1. author[a].pc = "scan" /\ NothingElse
  BY DEF StaticScan, In
<1>2. /\ author[a] \in Pipelines /\ author[a].step = 0
      /\ author[a].hash \in Renderable /\ directory[a][author[a].attempt] # None
      /\ author[a].hash # None => author[a].root \in Attempt
  BY <1>1, AuthorInvGives DEF PipelineInv
<1>3. CASE author' = [author EXCEPT ![a].pc = "sandbox", ![a].gates = 2] /\ UNCHANGED results
  <2>1. /\ row \in Pipelines /\ row.pc = "sandbox" /\ row.gates = 2 /\ row.step = 0
        /\ row.hash = author[a].hash /\ row.attempt = author[a].attempt /\ row.root = author[a].root
    <3>1. 2 \in 0..5 /\ "sandbox" \in {"idle", "generate", "render", "scan", "sandbox", "register"}
      OBVIOUS
    <3>2. row \in Pipelines
      BY <1>2, <3>1 DEF Pipelines
    <3>3. /\ row.pc = "sandbox" /\ row.gates = 2 /\ row.step = author[a].step
          /\ row.hash = author[a].hash /\ row.attempt = author[a].attempt
          /\ row.root = author[a].root
      BY <1>2 DEF Pipelines
    <3>4. QED  BY <1>2, <3>2, <3>3
  <2>2. author' = [author EXCEPT ![a] = row]
    BY <1>3, AuthorInvGives
  <2> HIDE DEF row
  <2>3. Arrives(a, row)
    BY <1>1, <1>2, <2>1 DEF Arrives, NothingElse
  <2>4. QED  BY <1>1, <1>3, <2>1, <2>2, <2>3, RowStep
<1>4. CASE Repair(a)
  BY <1>1, <1>4, RepairStep
<1>5. QED  BY <1>3, <1>4 DEF StaticScan

LEMMA SandboxStep ==
  ASSUME AuthorInv, NEW a \in Author, Sandbox(a)
  PROVE  AuthorInv'
<1> DEFINE gates == author[a].gates + 1
           pc == IF author[a].gates = 4 THEN "register" ELSE "sandbox"
           row == [author[a] EXCEPT !.gates = gates, !.pc = pc]
<1>1. author[a].pc = "sandbox" /\ NothingElse
  BY DEF Sandbox, In
<1>2. /\ author[a] \in Pipelines /\ author[a].step = 0 /\ author[a].gates \in 2..4
      /\ author[a].hash \in Renderable /\ directory[a][author[a].attempt] # None
      /\ author[a].hash # None => author[a].root \in Attempt
  BY <1>1, AuthorInvGives DEF PipelineInv
<1>3. CASE /\ author' = [author EXCEPT ![a].gates = @ + 1,
                                       ![a].pc = IF author[a].gates = 4 THEN "register" ELSE @]
           /\ UNCHANGED results
  <2>1. /\ gates \in 0..5 /\ pc \in {"sandbox", "register"}
        /\ pc = "sandbox" => gates \in 2..4
        /\ pc = "register" => gates = 5
    BY <1>2
  <2>2. author' = [author EXCEPT ![a] = row]
    BY <1>1, <1>3, AuthorInvGives
  <2> HIDE DEF gates, pc
  <2>3. /\ row \in Pipelines /\ row.pc = pc /\ row.gates = gates /\ row.step = 0
        /\ row.hash = author[a].hash /\ row.attempt = author[a].attempt /\ row.root = author[a].root
    BY <1>2, <2>1 DEF Pipelines
  <2> HIDE DEF row
  <2>4. Arrives(a, row)
    BY <1>1, <1>2, <2>1, <2>3 DEF Arrives, NothingElse
  <2>5. QED  BY <1>1, <1>3, <2>2, <2>3, <2>4, RowStep
<1>4. CASE Repair(a)
  BY <1>1, <1>4, RepairStep
<1>5. QED  BY <1>3, <1>4 DEF Sandbox

\* the rows of a candidate that is being registered
LEMMA RegisteringRow ==
  ASSUME AuthorInv, NEW a \in Author, author[a].pc = "register", NEW step \in 1..6
  PROVE  LET row == [author[a] EXCEPT !.step = step] IN
         /\ row \in Pipelines /\ row.pc = "register" /\ row.gates = 5 /\ row.step = step
         /\ row.hash = author[a].hash /\ row.attempt = author[a].attempt
         /\ row.root = author[a].root /\ author[a].root \in Attempt
         /\ author[a].hash \in Renderable /\ author[a].hash \in Hash
         /\ directory[a][author[a].attempt] # None
<1>1. /\ author[a] \in Pipelines /\ author[a].gates = 5
      /\ author[a].hash \in Renderable /\ directory[a][author[a].attempt] # None
      /\ author[a].hash # None => author[a].root \in Attempt
  BY AuthorInvGives DEF PipelineInv
<1>2. author[a].hash \in Hash /\ author[a].hash # None
  BY <1>1, AuthorAssumption
<1>3. QED  BY <1>1, <1>2 DEF Pipelines

LEMMA RegisterCandidateStep ==
  ASSUME AuthorInv, NEW a \in Author, RegisterCandidate(a)
  PROVE  AuthorInv'
<1> DEFINE s == Target[a]
           h == author[a].hash
           row == [author[a] EXCEPT !.step = 1]
           conflict == Registered(s) /\ (skill[s].hash # h \/ skill[s].manifest # ManifestOf[h])
<1>1. author[a].pc = "register" /\ author[a].step = 0
  BY DEF RegisterCandidate, In
<1>2. /\ s \in Skill /\ RegistryInv /\ skill \in [Skill -> Row \cup {NoRow}]
      /\ started \in 0..MaxRuns
  BY AuthorInvGives DEF RegistryInv, RegistryTypeOK
<1>3. CASE conflict
  <2>1. Repair(a) /\ NothingElse
    BY <1>3 DEF RegisterCandidate, Conflict
  <2>2. QED  BY <2>1, RepairStep
<1>4. CASE ~ conflict
  <2>1. /\ IF Registered(s) THEN UNCHANGED registryVars ELSE RegisterManifest(s, h, ManifestOf[h])
        /\ author' = [author EXCEPT ![a].step = 1]
        /\ UNCHANGED <<started, results, directory, reviewer, approver, releaseVars>>
    BY <1>4 DEF RegisterCandidate
  <2> HIDE DEF conflict
  <2>2. PICK step \in 1..6 : step = 1
    OBVIOUS
  <2>3. /\ row \in Pipelines /\ row.pc = "register" /\ row.gates = 5 /\ row.step = 1
        /\ row.hash = h /\ row.attempt = author[a].attempt /\ row.root \in Attempt
        /\ h \in Renderable /\ h \in Hash /\ directory[a][author[a].attempt] # None
    <3> DEFINE at == [author[a] EXCEPT !.step = step]
    <3>1. /\ at \in Pipelines /\ at.pc = "register" /\ at.gates = 5 /\ at.step = step
          /\ at.hash = h /\ at.attempt = author[a].attempt
          /\ at.root = author[a].root /\ author[a].root \in Attempt
          /\ h \in Renderable /\ h \in Hash /\ directory[a][author[a].attempt] # None
      BY <1>1, RegisteringRow
    <3>2. at = row
      BY <2>2
    <3> HIDE DEF at, row
    <3>3. QED  BY <2>2, <3>1, <3>2
  <2>4. author' = [author EXCEPT ![a] = row]
    BY <2>1, AuthorInvGives
  <2> HIDE DEF row, h, s
  <2>5. Governed /\ SignsNothing
    <3>1. ManifestOf[h] \in Manifest
      BY <2>3, AuthorAssumption
    <3>2. QED  BY <1>2, <2>1, <2>3, <3>1, RegisterIsQuiet, StillIsQuiet
  <2>6. Registered(s)' /\ skill'[s].hash = h
    <3>1. CASE Registered(s)
      BY <1>4, <2>1, <3>1 DEF Registered, registryVars, conflict
    <3>2. CASE ~ Registered(s)
      BY <1>2, <2>1, <3>2 DEF Registered, RegisterManifest
    <3>3. QED  BY <3>1, <3>2
  <2>7. Len(skillEvents'[s]) >= 1
    <3>1. TrailOf(s)' /\ skillEvents'[s] \in Seq(Event)
      BY <1>2, <2>5 DEF Governed, RegistryInv, RegistryTypeOK, VersionInv, Event
    <3>2. skillEvents'[s] # <<>>
      BY <2>6, <3>1 DEF TrailOf
    <3>3. QED  BY <3>1, <3>2, LenProperties, EmptySeq
  <2>8. Arrives(a, row)
    BY <2>1, <2>3, <2>6, <2>7 DEF Arrives, s
  <2>9. directory' \in Directories /\ directory' = directory /\ started' \in 0..MaxRuns
    BY <1>2, <2>1, AuthorInvGives
  <2>10. QED  BY <2>1, <2>3, <2>4, <2>5, <2>8, <2>9, Travels
<1>5. QED  BY <1>3, <1>4

LEMMA AdvanceCandidateStep ==
  ASSUME AuthorInv, NEW a \in Author, AdvanceCandidate(a)
  PROVE  AuthorInv'
<1> DEFINE s == Target[a]
           h == author[a].hash
           i == author[a].step
           row == [author[a] EXCEPT !.step = i + 1]
<1>1. author[a].pc = "register" /\ i \in 1..5
  BY DEF AdvanceCandidate, In
<1>2. /\ s \in Skill /\ RegistryInv /\ author[a] \in Pipelines /\ started \in 0..MaxRuns
      /\ skill[s].hash = h /\ Len(skillEvents[s]) >= i
  BY <1>1, AuthorInvGives DEF RegisteredSoFar
<1>3. CASE skill[s].state # Lifecycle[i]
  <2>1. Repair(a) /\ NothingElse
    BY <1>3 DEF AdvanceCandidate, Conflict
  <2>2. QED  BY <2>1, RepairStep
<1>4. CASE ~ (skill[s].state # Lifecycle[i])
  <2>1. /\ Advance(s, Lifecycle[i + 1], Lifecycle[i])
        /\ author' = [author EXCEPT ![a].step = i + 1]
        /\ UNCHANGED <<started, results, directory, reviewer, approver, releaseVars>>
    BY <1>4 DEF AdvanceCandidate
  <2>2. i + 1 \in 1..6 /\ Lifecycle[i] \in SkillStates /\ Lifecycle[i + 1] \in SkillStates
    BY <1>1, LifecycleTable
  <2>3. /\ row \in Pipelines /\ row.pc = "register" /\ row.gates = 5 /\ row.step = i + 1
        /\ row.hash = h /\ row.attempt = author[a].attempt /\ row.root \in Attempt
        /\ h \in Renderable /\ directory[a][author[a].attempt] # None
    BY <1>1, <2>2, RegisteringRow
  <2>4. author' = [author EXCEPT ![a] = row]
    BY <2>1, AuthorInvGives
  <2> HIDE DEF row, h, s, i
  <2>5. Governed /\ SignsNothing
    BY <1>2, <2>1, <2>2, AdvanceIsQuiet
  <2>6. skill'[s].hash = h /\ Len(skillEvents'[s]) >= i + 1
    <3>1. /\ MovesOnly(s, Lifecycle[i + 1], skill[s].signature)
          /\ skill[s].signature \in Envelope \cup {None}
      BY <1>2, <2>1, <2>2, AdvanceMovesOnly
    <3>2. Moves(s, Lifecycle[i + 1])
      BY <1>2, <2>2, <3>1, MovesOnlyMoves
    <3>3. Len(skillEvents[s]) \in 1..9 /\ Len(skillEvents'[s]) = Len(skillEvents[s]) + 1
      BY <1>2, <3>2, MoveExtendsTrail
    <3>4. skill'[s].hash = h
      BY <1>2, <3>2 DEF Moves, s, h
    <3>5. i \in Nat /\ Len(skillEvents[s]) >= i
      BY <1>1, <1>2 DEF s, i
    <3>6. Len(skillEvents'[s]) >= i + 1
      BY <3>3, <3>5
    <3>7. QED  BY <3>4, <3>6
  <2>7. Arrives(a, row)
    BY <1>1, <2>1, <2>3, <2>6 DEF Arrives, s
  <2>8. directory' \in Directories /\ directory' = directory /\ started' \in 0..MaxRuns
    BY <1>2, <2>1, AuthorInvGives
  <2>9. QED  BY <2>1, <2>3, <2>4, <2>5, <2>7, <2>8, Travels
<1>5. QED  BY <1>3, <1>4

LEMMA ReturnCandidateStep ==
  ASSUME AuthorInv, NEW a \in Author, ReturnCandidate(a)
  PROVE  AuthorInv'
<1>1. /\ author[a].step = 6 /\ NothingElse /\ Return(a, "waiting_human_approval")
  BY DEF ReturnCandidate
<1>2. skill[Target[a]].hash = author[a].hash /\ Len(skillEvents[Target[a]]) >= 6
  BY <1>1, AuthorInvGives DEF RegisteredSoFar
<1>3. QED  BY <1>1, <1>2, ReturnStep

LEMMA KillStep ==
  ASSUME AuthorInv, NEW a \in Author, Kill(a)
  PROVE  AuthorInv'
  BY LeaveStep DEF Kill

-----------------------------------------------------------------------------
(***************************************************************************)
(* The reviewer, the registry CLI, the repository and the release tools:   *)
(* no pipeline moves and no result is written                              *)
(***************************************************************************)

\* what the directories held stays held, whatever it is edited to
PipelinesRest ==
  /\ author' = author /\ started' = started /\ results' = results /\ directory' \in Directories
  /\ \A a \in Author, i \in Attempt : directory[a][i] # None => directory'[a][i] # None

LEMMA RestingPipelines ==
  ASSUME AuthorInv, Governed, PipelinesRest
  PROVE  /\ author' \in [Author -> Pipelines] /\ started' \in 0..MaxRuns
         /\ results' \in [Author -> SUBSET Result] /\ directory' \in Directories
         /\ \A a \in Author : PipelineInv(a)'
         /\ ResultsGrow
<1>1. \A a \in Author : PipelineInv(a)'
  BY PipelineKept DEF PipelinesRest
<1>2. ResultsGrow
  BY DEF PipelinesRest, ResultsGrow
<1>3. QED  BY <1>1, <1>2, AuthorInvGives DEF PipelinesRest

LEMMA UnmovedRest ==
  ASSUME AuthorInv, UNCHANGED <<author, started, results, directory>>
  PROVE  PipelinesRest
  BY AuthorInvGives DEF PipelinesRest

\* a step that approves nothing through approve_cli
LEMMA ReleaseStep ==
  ASSUME AuthorInv, Governed, PipelinesRest, reviewer' = reviewer,
         approver' \in [Skill -> Programs],
         \A s \in Skill : approver'[s] = "approve_cli" => approver[s] = "approve_cli",
         KeysInv', SignedByPublished'
  PROVE  AuthorInv'
<1>1. ResultsGrow
  BY RestingPipelines
<1>2. ApprovedIsOffered'
  BY <1>1, ApprovalsKept
<1>3. ReviewerInv'
  BY <1>1, ReviewLasts
<1>4. reviewer' \in Reviewers
  BY AuthorInvGives
<1>5. QED  BY <1>2, <1>3, <1>4, RestingPipelines DEF AuthorInv, Governed, Directories

\* a step of which the pipelines, their reviewer and their results see nothing
LEMMA ElsewhereStep ==
  ASSUME AuthorInv, Governed, UNCHANGED authorVars, KeysInv', SignedByPublished'
  PROVE  AuthorInv'
<1>1. /\ UNCHANGED <<author, started, results, directory>>
      /\ reviewer' = reviewer /\ approver' = approver
  BY DEF authorVars
<1>2. approver' \in [Skill -> Programs]
  BY <1>1, AuthorInvGives
<1>3. QED  BY <1>1, <1>2, UnmovedRest, ReleaseStep

LEMMA UnchangedStep ==
  ASSUME AuthorInv, UNCHANGED allVars
  PROVE  AuthorInv'
<1>1. UNCHANGED authorVars /\ UNCHANGED registryVars /\ UNCHANGED releaseVars
  BY DEF allVars
<1>2. Governed /\ SignsNothing
  BY <1>1, AuthorInvGives, StillIsQuiet
<1>3. KeysInv' /\ SignedByPublished'
  BY <1>1, <1>2, KeysSame, SignaturesKept
<1>4. QED  BY <1>1, <1>2, <1>3, ElsewhereStep

LEMMA CheckCandidateStep ==
  ASSUME AuthorInv, NEW a \in Author, NEW result \in results[a], CheckCandidate(a, result)
  PROVE  AuthorInv'
<1>1. /\ result.status = "waiting_human_approval"
      /\ reviewer' = [pc |-> "approving", hash |-> result.hash, of |-> a]
      /\ UNCHANGED <<author, started, results, directory>> /\ approver' = approver
      /\ UNCHANGED registryVars /\ UNCHANGED releaseVars
  BY DEF CheckCandidate, Approvable, releaseVars, registryVars
<1>2. Governed /\ SignsNothing
  BY <1>1, AuthorInvGives, StillIsQuiet
<1>3. KeysInv' /\ SignedByPublished'
  BY <1>1, <1>2, KeysSame, SignaturesKept
<1>4. result.hash \in Hash
  <2>1. result \in Result
    BY AuthorInvGives
  <2>2. QED  BY <2>1, AuthorAssumption DEF Result
<1>5. /\ reviewer' \in Reviewers /\ reviewer'.of = a /\ reviewer'.hash = result.hash
  BY <1>1, <1>4 DEF Reviewers
<1>6. OfferedFor(Target[a], result.hash)'
  BY <1>1 DEF OfferedFor
<1>7. ReviewerInv'
  BY <1>5, <1>6 DEF ReviewerInv, OfferedFor
<1>8. PipelinesRest
  BY <1>1, UnmovedRest
<1>9. ApprovedIsOffered' /\ approver' \in [Skill -> Programs]
  BY <1>1, <1>2, <1>8, AuthorInvGives, RestingPipelines, ApprovalsKept
<1>10. QED  BY <1>2, <1>3, <1>5, <1>7, <1>8, <1>9, RestingPipelines
            DEF AuthorInv, Governed, Directories

\* approve_cli approves a version only under a hash its pipeline has offered
LEMMA ApproveCandidateStep ==
  ASSUME AuthorInv, ApproveCandidate
  PROVE  AuthorInv'
<1> DEFINE s == Target[reviewer.of]
           h == reviewer.hash
<1>1. /\ reviewer.pc = "approving" /\ reviewer' = [pc |-> "idle", hash |-> None, of |-> None]
      /\ UNCHANGED <<author, started, results, directory>> /\ UNCHANGED releaseVars
      /\ IF Reviewable(s, h)
           THEN Approve(s, h, "APPROVED") /\ approver' = [approver EXCEPT ![s] = "approve_cli"]
           ELSE UNCHANGED registryVars /\ approver' = approver
  BY DEF ApproveCandidate, ApprovedBy, releaseVars, registryVars
<1>2. /\ s \in Skill /\ OfferedFor(s, h) /\ RegistryInv /\ approver \in [Skill -> Programs]
  BY <1>1, AuthorInvGives DEF ReviewerInv
<1>3. reviewer' \in Reviewers /\ reviewer'.pc = "idle"
  BY <1>1 DEF Reviewers
<1>4. h \in Hash
  <2>1. PICK a \in Author : \E result \in results[a] : result.hash = h
    BY <1>2 DEF OfferedFor
  <2>2. \E result \in Result : result.hash = h
    BY <2>1, AuthorInvGives
  <2>3. QED  BY <2>1, <2>2, AuthorAssumption DEF Result
<1> HIDE DEF s, h
<1>5. Governed /\ SignsNothing
  <2>1. "APPROVED" \in Decisions
    BY DEF Decisions
  <2>2. QED  BY <1>1, <1>2, <1>4, <2>1, ApproveIsQuiet, StillIsQuiet
<1>6. PipelinesRest
  BY <1>1, UnmovedRest
<1>7. /\ approver' \in [Skill -> Programs]
      /\ \A x \in Skill : approver'[x] = "approve_cli" =>
           approver[x] = "approve_cli" \/ OfferedFor(x, skill[x].hash)
  <2>1. CASE Reviewable(s, h)
    <3>1. skill[s].hash = h
      BY <2>1 DEF Reviewable
    <3>2. OfferedFor(s, skill[s].hash)
      BY <1>2, <3>1
    <3>3. approver' = [approver EXCEPT ![s] = "approve_cli"] /\ "approve_cli" \in Programs
      BY <1>1, <2>1 DEF Programs
    <3>4. QED  BY <1>2, <3>2, <3>3
  <2>2. CASE ~ Reviewable(s, h)
    BY <1>1, <1>2, <2>2
  <2>3. QED  BY <2>1, <2>2
<1>8. ApprovedIsOffered'
  BY <1>5, <1>6, <1>7, RestingPipelines, ApprovalsKept
<1>9. ReviewerInv'
  BY <1>3 DEF ReviewerInv
<1>10. KeysInv' /\ SignedByPublished'
  BY <1>1, <1>5, KeysSame, SignaturesKept
<1>11. QED  BY <1>3, <1>5, <1>6, <1>7, <1>8, <1>9, <1>10, RestingPipelines
            DEF AuthorInv, Governed, Directories

LEMMA EditCandidateStep ==
  ASSUME AuthorInv, NEW a \in Author, NEW result \in results[a], NEW h \in Hash,
         EditCandidate(a, result, h)
  PROVE  AuthorInv'
<1> DEFINE here == result.root
<1>1. /\ directory' = [directory EXCEPT ![a][here] = h] /\ reviewer' = reviewer
      /\ author' = author /\ started' = started /\ results' = results /\ approver' = approver
      /\ UNCHANGED registryVars /\ UNCHANGED releaseVars
  BY DEF EditCandidate, releaseVars, registryVars
<1>2. h # None /\ directory \in Directories /\ approver \in [Skill -> Programs]
  BY NoneAssumption, AuthorInvGives
<1> HIDE DEF here
<1>3. PipelinesRest
  BY <1>1, <1>2 DEF PipelinesRest, Directories
<1>4. Governed /\ SignsNothing
  BY <1>1, AuthorInvGives, StillIsQuiet
<1>5. KeysInv' /\ SignedByPublished'
  BY <1>1, <1>4, KeysSame, SignaturesKept
<1>6. QED  BY <1>1, <1>2, <1>3, <1>4, <1>5, ReleaseStep

\* registration, an advance or a decision by hand, whatever the version and its content
LEMMA RegistryCliStep ==
  ASSUME AuthorInv, RegistryCli
  PROVE  AuthorInv'
<1>1. RegistryInv /\ approver \in [Skill -> Programs]
  BY AuthorInvGives
<1>2. CASE \E s \in Skill, h \in Hash, m \in Manifest : RegisterByHand(s, h, m)
  <2>1. UNCHANGED authorVars /\ UNCHANGED releaseVars
    BY <1>2 DEF RegisterByHand, authorVars, releaseVars
  <2>2. Governed /\ SignsNothing
    BY <1>1, <1>2, RegisterIsQuiet DEF RegisterByHand
  <2>3. QED  BY <2>1, <2>2, KeysSame, SignaturesKept, ElsewhereStep
<1>3. CASE \E s \in Skill, target, expected \in SkillStates : AdvanceByHand(s, target, expected)
  <2>1. UNCHANGED authorVars /\ UNCHANGED releaseVars
    BY <1>3 DEF AdvanceByHand, authorVars, releaseVars
  <2>2. Governed /\ SignsNothing
    BY <1>1, <1>3, AdvanceIsQuiet DEF AdvanceByHand
  <2>3. QED  BY <2>1, <2>2, KeysSame, SignaturesKept, ElsewhereStep
<1>4. CASE \E s \in Skill, h \in Hash, decision \in Decisions : ApproveByHand(s, h, decision)
  <2>1. PICK s \in Skill, h \in Hash, decision \in Decisions : ApproveByHand(s, h, decision)
    BY <1>4
  <2>2. /\ UNCHANGED <<author, started, results, directory>> /\ reviewer' = reviewer
        /\ UNCHANGED releaseVars /\ Approve(s, h, decision)
        /\ approver' = approver \/ approver' = [approver EXCEPT ![s] = "registry_cli"]
    BY <2>1 DEF ApproveByHand, ApprovedBy, releaseVars
  <2>3. Governed /\ SignsNothing
    BY <1>1, <2>2, ApproveIsQuiet
  <2>4. "registry_cli" \in Programs /\ "registry_cli" # "approve_cli"
    BY DEF Programs
  <2>5. /\ approver' \in [Skill -> Programs]
        /\ \A x \in Skill : approver'[x] = "approve_cli" => approver[x] = "approve_cli"
    BY <1>1, <2>2, <2>4
  <2>6. QED  BY <2>2, <2>3, <2>5, KeysSame, SignaturesKept, UnmovedRest, ReleaseStep
<1>5. QED  BY <1>2, <1>3, <1>4 DEF RegistryCli

LEMMA PublishStep ==
  ASSUME AuthorInv, NEW s \in Skill, NEW h \in Hash, Publish(s, h)
  PROVE  AuthorInv'
<1>1. /\ UNCHANGED authorVars /\ UNCHANGED registryVars /\ repo' = [repo EXCEPT ![s] = h]
      /\ UNCHANGED keyVars /\ envelope' = envelope /\ verifier' = verifier
  BY DEF Publish, authorVars, registryVars, keyVars
<1>2. Governed /\ SignsNothing
  BY <1>1, AuthorInvGives, StillIsQuiet
<1>3. KeysInv' /\ published' = published
  <2>1. KeysInv /\ repo \in [Skill -> Hash \cup {None}]
        /\ envelope \in [Skill -> Envelope \cup {None}] /\ verifier \in Verifiers
    BY AuthorInvGives, ReleaseTypeIs DEF KeysInv
  <2>2. repo' \in [Skill -> Hash \cup {None}]
    BY <1>1, <2>1
  <2>3. QED  BY <1>1, <2>1, <2>2, FilesKept DEF KeysInv
<1>4. SignedByPublished'
  BY <1>2, <1>3, SignaturesKept
<1>5. QED  BY <1>1, <1>2, <1>3, <1>4, ElsewhereStep

LEMMA FilesStep ==
  ASSUME AuthorInv, KeygenNext \/ SigningNext, UNCHANGED <<authorVars, registryVars>>
  PROVE  AuthorInv'
<1>1. UNCHANGED authorVars /\ UNCHANGED registryVars
  BY DEF authorVars, registryVars
<1>2. Governed /\ SignsNothing
  BY <1>1, AuthorInvGives, StillIsQuiet
<1>3. KeysInv' /\ published \subseteq published'
  BY AuthorInvGives, KeygenStep, SigningStep
<1>4. SignedByPublished'
  BY <1>2, <1>3, SignaturesKept
<1>5. QED  BY <1>1, <1>2, <1>3, <1>4, ElsewhereStep

\* what is recorded was verified with a key the trusted file held then
LEMMA RecordSignatureStep ==
  ASSUME AuthorInv, RecordSignature, UNCHANGED authorVars
  PROVE  AuthorInv'
<1> DEFINE e == verifier.envelope
<1>1. /\ verifier.pc = "record" /\ RecordVerifiedSignature(e) /\ verifier' = NoVerification
      /\ UNCHANGED keyVars /\ repo' = repo /\ envelope' = envelope
  BY DEF RecordSignature
<1>2. e \in Envelope /\ e.key \in published /\ KeysInv /\ RegistryInv
  BY <1>1, AuthorInvGives DEF KeysInv
<1> HIDE DEF e
<1>3. /\ Governed
      /\ \A x \in Skill : skill'[x].signature \in {None, skill[x].signature, e}
  BY <1>1, <1>2, SignatureGoverns
<1>4. KeysInv' /\ published' = published
  <2>1. /\ repo \in [Skill -> Hash \cup {None}] /\ envelope \in [Skill -> Envelope \cup {None}]
    BY <1>2, ReleaseTypeIs DEF KeysInv
  <2>2. QED  BY <1>1, <1>2, <2>1, VerifierOff, FilesKept
<1>5. SignedByPublished'
  <2>1. SignedByPublished
    BY AuthorInvGives
  <2>2. QED  BY <1>2, <1>3, <1>4, <2>1 DEF SignedByPublished
<1>6. QED  BY <1>3, <1>4, <1>5, ElsewhereStep

-----------------------------------------------------------------------------
LEMMA AuthorInitially == AuthorInit => AuthorInv
<1> SUFFICES ASSUME AuthorInit  PROVE AuthorInv
  OBVIOUS
<1>1. /\ RegistryInit /\ ReleaseInit
      /\ author = [a \in Author |-> Resting] /\ started = 0
      /\ directory = [a \in Author |-> [i \in Attempt |-> None]]
      /\ results = [a \in Author |-> {}]
      /\ reviewer = [pc |-> "idle", hash |-> None, of |-> None]
      /\ approver = [s \in Skill |-> "none"]
  BY DEF AuthorInit
<1>2. RegistryInv /\ \A s \in Skill : skill[s].signature = None
  BY <1>1, RegistryInitially DEF RegistryInit, NoRow
<1>3. KeysInv
  <2>1. keyFile \in KeyFiles /\ keyFile.private = None /\ keyFile.public = None
    BY <1>1 DEF ReleaseInit, KeyFiles
  <2>2. keygen \in [Keygen -> Keygens] /\ \A g \in Keygen : keygen[g].pc = "start"
    <3>1. [force |-> FALSE, pc |-> "start"] \in Keygens
      BY DEF Keygens, Quiet
    <3>2. keygen = [g \in Keygen |-> [force |-> FALSE, pc |-> "start"]]
      BY <1>1 DEF ReleaseInit
    <3>3. QED  BY <3>1, <3>2
  <2>3. /\ published = {} /\ unsettled = FALSE /\ verifier = NoVerification
        /\ repo \in [Skill -> Hash \cup {None}] /\ envelope \in [Skill -> Envelope \cup {None}]
    BY <1>1 DEF ReleaseInit
  <2>4. ReleaseTypeOK
    BY <2>1, <2>2, <2>3, VerifierOff, ReleaseTypeIs
  <2>5. PairInv
    BY <2>1, <2>2, QuietPlaces DEF PairInv
  <2>6. QED  BY <2>1, <2>3, <2>4, <2>5, VerifierOff DEF KeysInv
<1>4. SignedByPublished
  BY <1>2 DEF SignedByPublished
<1>5. Resting \in Pipelines /\ Resting.pc = "idle" /\ Resting.step = 0 /\ Resting.hash = None
  <2>1. 1 \in Attempt
    BY AuthorAssumption DEF Attempt
  <2>2. QED  BY <2>1 DEF Resting, Pipelines
<1>6. /\ author \in [Author -> Pipelines] /\ started \in 0..MaxRuns
      /\ directory \in [Author -> [Attempt -> Hash \cup {None}]]
      /\ results \in [Author -> SUBSET Result]
      /\ reviewer \in Reviewers /\ reviewer.pc = "idle"
      /\ approver \in [Skill -> Programs]
  BY <1>1, <1>5, AuthorAssumption DEF Reviewers, Programs
<1>7. \A a \in Author : author[a] = Resting /\ results[a] = {}
  BY <1>1
<1>8. \A a \in Author : PipelineInv(a)
  BY <1>5, <1>7 DEF PipelineInv, RegisteredSoFar, OffersStand
<1>9. ReviewerInv
  BY <1>6 DEF ReviewerInv
<1>10. ApprovedIsOffered
  BY <1>1 DEF ApprovedIsOffered
<1>11. QED  BY <1>2, <1>3, <1>4, <1>6, <1>8, <1>9, <1>10 DEF AuthorInv

LEMMA AuthorStep == AuthorInv /\ [AuthorNext \/ ReleaseNext]_allVars => AuthorInv'
<1> SUFFICES ASSUME AuthorInv, [AuthorNext \/ ReleaseNext]_allVars  PROVE AuthorInv'
  OBVIOUS
<1>1. CASE \E a \in Author : Ground(a) \/ Generate(a) \/ Render(a) \/ StaticScan(a) \/ Sandbox(a)
  BY <1>1, GroundStep, GenerateStep, RenderStep, StaticScanStep, SandboxStep
<1>2. CASE \E a \in Author : RegisterCandidate(a) \/ AdvanceCandidate(a) \/ ReturnCandidate(a)
  BY <1>2, RegisterCandidateStep, AdvanceCandidateStep, ReturnCandidateStep
<1>3. CASE \E a \in Author : Kill(a)
  BY <1>3, KillStep
<1>4. CASE \E a \in Author : \E result \in results[a] :
             CheckCandidate(a, result) \/ \E h \in Hash : EditCandidate(a, result, h)
  BY <1>4, CheckCandidateStep, EditCandidateStep
<1>5. CASE ApproveCandidate
  BY <1>5, ApproveCandidateStep
<1>6. CASE RegistryCli
  BY <1>6, RegistryCliStep
<1>7. CASE ReleaseNext
  BY <1>7, PublishStep, FilesStep, RecordSignatureStep DEF ReleaseNext
<1>8. CASE UNCHANGED allVars
  BY <1>8, UnchangedStep
<1>9. QED  BY <1>1, <1>2, <1>3, <1>4, <1>5, <1>6, <1>7, <1>8 DEF AuthorNext

(***************************************************************************)
(* The state of authoring and release is always one the invariant          *)
(* describes: a candidate under registration is in the registry as far as  *)
(* its pipeline has come, what any result offers stands in the registry,   *)
(* what is under review was offered, and the two key files are as far as   *)
(* the keygen at work (pipeline.py 60-159 and 235-269, cli.py 129-208,     *)
(* approve_cli.py, registry_cli.py 119-155, release_crypto.py).            *)
(***************************************************************************)
THEOREM AuthorInvariant == AuthoringSpec => []AuthorInv
BY AuthorInitially, AuthorStep, PTL DEF AuthoringSpec

\* The processes, directories, results and files always hold values of their types
\* (pipeline.py 60-269, release_crypto.py 85-303).
THEOREM AuthorTypes == AuthoringSpec => []AuthorTypeOK
<1>1. AuthorInv => AuthorTypeOK
  <2> SUFFICES ASSUME AuthorInv  PROVE AuthorTypeOK
    OBVIOUS
  <2>1. RegistryTypeOK /\ ReleaseTypeOK
    BY DEF AuthorInv, RegistryInv, KeysInv
  <2>2. ASSUME NEW a \in Author
        PROVE  /\ author[a].pc = "register" => author[a].gates = 5
               /\ author[a].pc \in {"scan", "sandbox", "register"} =>
                    directory[a][author[a].attempt] # None
    BY AuthorInvGives DEF PipelineInv
  <2>3. QED  BY <2>1, <2>2 DEF AuthorInv, AuthorTypeOK, Pipelines, Reviewers, Programs
<1>2. QED  BY <1>1, AuthorInvariant, PTL

(***************************************************************************)
(* Every result that waits for approval names the stored artifact of a     *)
(* version that went through SIMULATION_TESTED, for any number of authors  *)
(* that name the same version and any mix of kills, reruns, repairs and    *)
(* commands of registry_cli (pipeline.py 145-159 and 235-269,              *)
(* registry_cli.py 119-155).                                               *)
(***************************************************************************)
THEOREM OfferAlwaysRegistered == AuthoringSpec => []OfferIsRegistered
<1>1. AuthorInv => OfferIsRegistered
  <2> SUFFICES ASSUME AuthorInv, NEW a \in Author, NEW result \in results[a],
                      result.status = "waiting_human_approval"
      PROVE  skill[Target[a]].hash = result.hash /\ Reached(Target[a], "SIMULATION_TESTED")
    BY DEF OfferIsRegistered
  <2>1. /\ Target[a] \in Skill /\ skill[Target[a]].hash = result.hash
        /\ Len(skillEvents[Target[a]]) >= 6 /\ RegistryInv
    BY AuthorInvGives DEF OffersStand, StandsIn
  <2>2. RegistryTypeOK /\ TrailOf(Target[a])
    BY <2>1 DEF RegistryInv, VersionInv
  <2>3. Reached(Target[a], Lifecycle[6])
    BY <2>1, <2>2, ReachedByLength
  <2>4. QED  BY <2>1, <2>3, LifecycleTable
<1>2. QED  BY <1>1, AuthorInvariant, PTL

(***************************************************************************)
(* A version approved through approve_cli was offered by a pipeline that   *)
(* lived to say so, under the hash the registry holds, and the signature   *)
(* of a signed one was made with a key the trusted public file has held,   *)
(* also where registry_cli registers, advances and approves versions at    *)
(* any time (approve_cli.py 30-48, registry_cli.py 119-155,                *)
(* release_crypto.py 234-303).                                             *)
(***************************************************************************)
THEOREM ReleaseAlwaysTraceable == AuthoringSpec => []ReleaseIsTraceable
<1>1. AuthorInv => ReleaseIsTraceable
  BY DEF AuthorInv, ApprovedIsOffered, OfferedFor, SignedByPublished, ReleaseIsTraceable
<1>2. QED  BY <1>1, AuthorInvariant, PTL

(***************************************************************************)
(* While keygens neither overlap nor die and no forced one fails, a rest   *)
(* of all keygens finds two halves of one pair or two missing files        *)
(* (release_crypto.py 104-114).                                            *)
(***************************************************************************)
THEOREM PairAlwaysWhole == AuthoringSpec => []PairIsWhole
<1>1. AuthorInv => PairIsWhole
  BY DEF AuthorInv, KeysInv, PairInv, PairIsWhole
<1>2. QED  BY <1>1, AuthorInvariant, PTL

-----------------------------------------------------------------------------
\* a failed transaction leaves the registry alone
LEMMA ConflictLeavesRegistry ==
  ASSUME NEW a \in Author, Conflict(a)
  PROVE  UNCHANGED registryVars
  BY DEF Conflict, NothingElse

LEMMA AuthoringStepsTheRegistry ==
  ASSUME AuthorInv, [AuthorNext \/ ReleaseNext]_allVars
  PROVE  [RegistryNext]_registryVars
<1>1. CASE \E a \in Author : RegisterCandidate(a)
  <2>1. PICK a \in Author : RegisterCandidate(a)
    BY <1>1
  <2>2. author[a].pc = "register" /\ author[a].hash \in Hash /\ Target[a] \in Skill
    BY <2>1, AuthorInvGives, AuthorAssumption DEF RegisterCandidate, In, PipelineInv
  <2>3. ManifestOf[author[a].hash] \in Manifest
    BY <2>2, AuthorAssumption
  <2>4. \/ UNCHANGED registryVars
        \/ RegisterManifest(Target[a], author[a].hash, ManifestOf[author[a].hash])
    BY <2>1, ConflictLeavesRegistry DEF RegisterCandidate
  <2>5. QED  BY <2>2, <2>3, <2>4 DEF RegistryNext
<1>2. CASE \E a \in Author : AdvanceCandidate(a)
  <2>1. PICK a \in Author : AdvanceCandidate(a)
    BY <1>2
  <2> DEFINE i == author[a].step
  <2>2. i \in 1..5 /\ Target[a] \in Skill
    BY <2>1, AuthorInvGives DEF AdvanceCandidate
  <2>3. Lifecycle[i] \in SkillStates /\ Lifecycle[i + 1] \in SkillStates
    <3>1. i \in 1..10 /\ i + 1 \in 1..10
      BY <2>2
    <3>2. QED  BY <3>1, LifecycleTable
  <2>4. UNCHANGED registryVars \/ Advance(Target[a], Lifecycle[i + 1], Lifecycle[i])
    BY <2>1, ConflictLeavesRegistry DEF AdvanceCandidate
  <2>5. QED  BY <2>2, <2>3, <2>4 DEF RegistryNext
<1>3. CASE ApproveCandidate
  <2> DEFINE s == Target[reviewer.of]
  <2>1. s \in Skill /\ OfferedFor(s, reviewer.hash)
    BY <1>3, AuthorInvGives DEF ApproveCandidate, ReviewerInv
  <2>2. PICK a \in Author : \E result \in results[a] : result.hash = reviewer.hash
    BY <2>1 DEF OfferedFor
  <2>3. reviewer.hash \in Hash
    <3>1. \E result \in Result : result.hash = reviewer.hash
      BY <2>2, AuthorInvGives
    <3>2. QED  BY <3>1, AuthorAssumption DEF Result
  <2>4. UNCHANGED registryVars \/ Approve(s, reviewer.hash, "APPROVED")
    BY <1>3 DEF ApproveCandidate, ApprovedBy, registryVars
  <2>5. QED  BY <2>1, <2>3, <2>4 DEF RegistryNext, Decisions
<1>4. CASE RegistryCli
  BY <1>4 DEF RegistryCli, RegisterByHand, AdvanceByHand, ApproveByHand, ApprovedBy, RegistryNext
<1>5. CASE ReleaseNext
  <2>1. CASE RecordSignature
    BY <2>1, AuthorInvGives DEF RecordSignature, RegistryNext, KeysInv
  <2>2. CASE \/ \E s \in Skill, h \in Hash : Publish(s, h)
             \/ UNCHANGED registryVars
    BY <2>2 DEF Publish, registryVars
  <2>3. QED  BY <1>5, <2>1, <2>2 DEF ReleaseNext
<1>6. CASE \/ UNCHANGED allVars
           \/ \E a \in Author : \/ Ground(a) \/ Generate(a) \/ Render(a) \/ StaticScan(a) \/ Sandbox(a)
                                \/ ReturnCandidate(a) \/ Kill(a)
                                \/ \E result \in results[a] :
                                     \/ CheckCandidate(a, result)
                                     \/ \E h \in Hash : EditCandidate(a, result, h)
  BY <1>6 DEF Ground, Generate, Render, StaticScan, Sandbox, ReturnCandidate, Kill,
              CheckCandidate, EditCandidate, NothingElse, allVars, registryVars
<1>7. QED  BY <1>1, <1>2, <1>3, <1>4, <1>5, <1>6 DEF AuthorNext

(***************************************************************************)
(* Authoring and release implement the registry: whatever pipelines,       *)
(* reviewers, operators, signers and keygens do together, the tables see   *)
(* operations of registry.py only, called as their guards allow, so every  *)
(* theorem about the registry holds of the composition (pipeline.py        *)
(* 235-269, approve_cli.py 43-48, registry_cli.py 119-155,                 *)
(* release_crypto.py 283-303).                                             *)
(***************************************************************************)
THEOREM AuthoringImplementsRegistry == AuthoringSpec => RegistrySpec
<1>1. AuthorInit => RegistryInit
  BY DEF AuthorInit
<1>2. AuthorInv /\ [AuthorNext \/ ReleaseNext]_allVars => [RegistryNext]_registryVars
  BY AuthoringStepsTheRegistry
<1>3. QED  BY <1>1, <1>2, AuthorInvariant, PTL DEF AuthoringSpec, RegistrySpec
=============================================================================
