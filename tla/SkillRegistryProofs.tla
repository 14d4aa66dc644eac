------------------------ MODULE SkillRegistryProofs ------------------------
(***************************************************************************)
(* Every reachable registry is well governed, for any sets of versions,    *)
(* hashes, manifests and keys.  The inductive invariant adds to the        *)
(* properties of SkillRegistry what they leave open about signatures: one  *)
(* is stored exactly from SIGNED on, and it is the version's own.          *)
(***************************************************************************)
EXTENDS SkillRegistry, SequenceTheorems, TLAPS

SignatureOf(s) ==
  /\ skill[s].signature # None <=> skill[s].state \in {"SIGNED", "ACTIVE", "DEPRECATED"}
  /\ skill[s].signature # None => /\ skill[s].signature \in Envelope
                                  /\ skill[s].signature.skill = s
                                  /\ skill[s].signature.hash = skill[s].hash

VersionInv(s) == TrailOf(s) /\ ReviewOf(s) /\ SignatureOf(s)

RegistryInv == RegistryTypeOK /\ \A s \in Skill : VersionInv(s)

-----------------------------------------------------------------------------
\* Facts about the lifecycle table SKILL_STATES.
LEMMA LifecycleTable ==
  /\ \A i \in 1..10 : Lifecycle[i] \in SkillStates
  /\ \A i, j \in 1..10 : Lifecycle[i] = Lifecycle[j] => i = j
  /\ Lifecycle[6] = "SIMULATION_TESTED" /\ Lifecycle[7] = "HUMAN_APPROVED"
  /\ Lifecycle[8] = "SIGNED" /\ Lifecycle[9] = "ACTIVE" /\ Lifecycle[10] = "DEPRECATED"
  /\ Lifecycle[1] = "DRAFT"
BY DEF Lifecycle, SkillStates

\* SKILL_NEXT_STATE relates neighbours only.
LEMMA FollowsIsNext ==
  ASSUME NEW i \in 1..10, NEW target, Follows(Lifecycle[i], target)
  PROVE  i + 1 \in 1..10 /\ target = Lifecycle[i + 1]
BY LifecycleTable DEF Follows

\* Along a correct trail, a state has been reached once the trail is long enough.
LEMMA ReachedByLength ==
  ASSUME RegistryTypeOK, NEW s \in Skill, TrailOf(s), NEW k \in 1..10
  PROVE  Reached(s, Lifecycle[k]) <=> Len(skillEvents[s]) >= k
<1> DEFINE trail == skillEvents[s]
<1>1. trail \in Seq([hash : Hash, from : SkillStates \cup {None}, to : SkillStates])
  BY DEF RegistryTypeOK
<1>2. Len(trail) \in Nat /\ Len(trail) <= 10
  BY <1>1 DEF TrailOf
<1>3. \A i \in 1..Len(trail) : trail[i].to = Lifecycle[i]
  BY DEF TrailOf
<1>4. ASSUME Reached(s, Lifecycle[k]) PROVE Len(trail) >= k
  <2>1. PICK i \in 1..Len(trail) : trail[i].to = Lifecycle[k]
    BY <1>4 DEF Reached
  <2>2. i \in 1..10 /\ Lifecycle[i] = Lifecycle[k]
    BY <2>1, <1>2, <1>3
  <2>3. i = k
    BY <2>2, LifecycleTable
  <2> QED BY <2>1, <2>3, <1>2
<1>5. ASSUME Len(trail) >= k PROVE Reached(s, Lifecycle[k])
  BY <1>5, <1>2, <1>3 DEF Reached
<1> QED BY <1>4, <1>5

-----------------------------------------------------------------------------
LEMMA RegistryInitially == RegistryInit => RegistryInv
<1> SUFFICES ASSUME RegistryInit PROVE RegistryInv
  OBVIOUS
<1>1. RegistryTypeOK
  BY DEF RegistryInit, RegistryTypeOK, NoRow
<1>2. ASSUME NEW s \in Skill PROVE VersionInv(s)
  <2>1. /\ skill[s] = NoRow
        /\ skillEvents[s] = <<>> /\ Len(skillEvents[s]) = 0
        /\ skillApprovals[s] = <<>> /\ Len(skillApprovals[s]) = 0
    BY DEF RegistryInit
  <2>2. \A i : i \notin 1..0
    OBVIOUS
  <2>3. TrailOf(s)
    <3>1. Len(skillEvents[s]) <= 10 /\ ~ Registered(s)
      BY <2>1 DEF Registered, NoRow
    <3>2. \A i : i \notin 1..Len(skillEvents[s])
      BY <2>1, <2>2
    <3> QED BY <2>1, <3>1, <3>2 DEF TrailOf
  <2>4. ReviewOf(s)
    <3>1. \A i : i \notin 1..Len(skillApprovals[s]) /\ i \notin 1..Len(skillEvents[s])
      BY <2>1, <2>2
    <3> QED BY <3>1 DEF ReviewOf, Reached
  <2>5. SignatureOf(s)
    BY <2>1 DEF SignatureOf, NoRow
  <2> QED BY <2>3, <2>4, <2>5 DEF VersionInv
<1> QED BY <1>1, <1>2 DEF RegistryInv

-----------------------------------------------------------------------------
(***************************************************************************)
(* A version moves from its stored state to the next one, with one event.  *)
(* All four operations that change a state are of this form.               *)
(***************************************************************************)
Moves(s, target) ==
  /\ Registered(s)
  /\ Follows(skill[s].state, target)
  /\ skill'[s].state = target
  /\ skill'[s].hash = skill[s].hash
  /\ skillEvents'[s] =
       Append(skillEvents[s], [hash |-> skill[s].hash, from |-> skill[s].state, to |-> target])

LEMMA MoveExtendsTrail ==
  ASSUME RegistryInv, NEW s \in Skill, NEW target, Moves(s, target)
  PROVE  LET n == Len(skillEvents[s]) IN
         /\ n \in 1..9 /\ Len(skillEvents'[s]) = n + 1
         /\ skill[s].state = Lifecycle[n]
         /\ target = Lifecycle[n + 1]
         /\ \A i \in 1..n : skillEvents'[s][i] = skillEvents[s][i]
         /\ skillEvents'[s][n + 1] =
              [hash |-> skill[s].hash, from |-> Lifecycle[n], to |-> Lifecycle[n + 1]]
<1> DEFINE n == Len(skillEvents[s])
<1>1. skillEvents[s] \in Seq([hash : Hash, from : SkillStates \cup {None}, to : SkillStates])
  BY DEF RegistryInv, RegistryTypeOK
<1>2. n \in Nat /\ n <= 10 /\ skillEvents[s] # <<>>
  BY <1>1 DEF RegistryInv, VersionInv, TrailOf, Moves
<1>3. n \in 1..10
  <2>1. n # 0
    BY <1>1, <1>2
  <2> HIDE DEF n
  <2> QED BY <1>2, <2>1
<1>4. skill[s].state = Lifecycle[n]
  BY <1>2 DEF RegistryInv, VersionInv, TrailOf
<1>5. n + 1 \in 1..10 /\ target = Lifecycle[n + 1]
  BY <1>3, <1>4, FollowsIsNext DEF Moves
<1>6. skillEvents'[s] =
        Append(skillEvents[s], [hash |-> skill[s].hash, from |-> Lifecycle[n],
                                to |-> Lifecycle[n + 1]])
  BY <1>4, <1>5 DEF Moves
<1>7. /\ Len(skillEvents'[s]) = n + 1
      /\ \A i \in 1..n : skillEvents'[s][i] = skillEvents[s][i]
      /\ skillEvents'[s][n + 1] =
           [hash |-> skill[s].hash, from |-> Lifecycle[n], to |-> Lifecycle[n + 1]]
  BY <1>1, <1>6
<1>8. n \in 1..9
  <2> HIDE DEF n
  <2> QED BY <1>3, <1>5
<1> QED BY <1>4, <1>5, <1>7, <1>8

\* A move keeps the trail a walk along the lifecycle.
LEMMA MoveKeepsTrail ==
  ASSUME RegistryInv, NEW s \in Skill, NEW target, Moves(s, target)
  PROVE  TrailOf(s)'
<1> DEFINE n == Len(skillEvents[s])
<1>1. /\ n \in 1..9 /\ Len(skillEvents'[s]) = n + 1
      /\ target = Lifecycle[n + 1]
      /\ \A i \in 1..n : skillEvents'[s][i] = skillEvents[s][i]
      /\ skillEvents'[s][n + 1] =
           [hash |-> skill[s].hash, from |-> Lifecycle[n], to |-> Lifecycle[n + 1]]
  BY MoveExtendsTrail
<1>2. \A i \in 1..n : /\ skillEvents[s][i].hash = skill[s].hash
                      /\ skillEvents[s][i].to = Lifecycle[i]
                      /\ skillEvents[s][i].from = IF i = 1 THEN None ELSE Lifecycle[i - 1]
  BY DEF RegistryInv, VersionInv, TrailOf
<1>3. skill'[s].state = Lifecycle[n + 1] /\ skill'[s].hash = skill[s].hash
  BY <1>1 DEF Moves
<1>4. skillEvents'[s] # <<>> /\ Registered(s)'
  <2> HIDE DEF n
  <2>1. n + 1 \in 1..10
    BY <1>1
  <2>2. Lifecycle[n + 1] \in SkillStates
    BY <2>1, LifecycleTable
  <2>3. "ABSENT" \notin SkillStates
    BY DEF SkillStates
  <2>4. skillEvents'[s] # <<>>
    BY <1>1
  <2> QED BY <1>3, <2>2, <2>3, <2>4 DEF Registered
<1> HIDE DEF n
<1>5. ASSUME NEW i \in 1..(n + 1)
      PROVE  /\ skillEvents'[s][i].hash = skill'[s].hash
             /\ skillEvents'[s][i].to = Lifecycle[i]
             /\ skillEvents'[s][i].from = IF i = 1 THEN None ELSE Lifecycle[i - 1]
  <2>1. CASE i \in 1..n
    BY <2>1, <1>1, <1>2, <1>3
  <2>2. CASE i = n + 1
    BY <2>2, <1>1, <1>3
  <2> QED BY <2>1, <2>2, <1>1
<1> QED BY <1>1, <1>3, <1>4, <1>5, SMTT(20) DEF TrailOf

\* A move other than the approval leaves the review as it is.
LEMMA MoveKeepsReview ==
  ASSUME RegistryInv, NEW s \in Skill, NEW target, Moves(s, target),
         target # "HUMAN_APPROVED", skillApprovals'[s] = skillApprovals[s]
  PROVE  ReviewOf(s)'
<1> DEFINE n == Len(skillEvents[s])
<1>1. /\ n \in 1..9 /\ Len(skillEvents'[s]) = n + 1
      /\ target = Lifecycle[n + 1]
      /\ \A i \in 1..n : skillEvents'[s][i] = skillEvents[s][i]
      /\ skillEvents'[s][n + 1] =
           [hash |-> skill[s].hash, from |-> Lifecycle[n], to |-> Lifecycle[n + 1]]
  BY MoveExtendsTrail
<1> HIDE DEF n
<1>2. Reached(s, "HUMAN_APPROVED")' <=> \E i \in 1..(n + 1) : skillEvents'[s][i].to = "HUMAN_APPROVED"
  BY <1>1 DEF Reached
<1>3. Reached(s, "HUMAN_APPROVED") <=> \E i \in 1..n : skillEvents[s][i].to = "HUMAN_APPROVED"
  BY DEF Reached, n
<1>4. Reached(s, "HUMAN_APPROVED")' <=> Reached(s, "HUMAN_APPROVED")
  BY <1>1, <1>2, <1>3
<1> QED BY <1>4 DEF ReviewOf, RegistryInv, VersionInv, Moves

\* A move that leaves the signature alone does not reach SIGNED, and so stays on
\* the same side of it.
LEMMA MoveKeepsSignature ==
  ASSUME RegistryInv, NEW s \in Skill, NEW target, Moves(s, target),
         target # "SIGNED", skill'[s].signature = skill[s].signature
  PROVE  SignatureOf(s)'
<1>1. skill[s].state \in {"SIGNED", "ACTIVE", "DEPRECATED"} <=>
        target \in {"SIGNED", "ACTIVE", "DEPRECATED"}
  <2>1. PICK i \in 1..9 : skill[s].state = Lifecycle[i] /\ target = Lifecycle[i + 1]
    BY DEF Moves, Follows
  <2>2. i # 7
    BY <2>1, LifecycleTable
  <2> QED BY <2>1, <2>2 DEF Lifecycle
<1>2. skill'[s].hash = skill[s].hash /\ skill'[s].state = target
  BY DEF Moves
<1> QED BY <1>1, <1>2 DEF RegistryInv, VersionInv, SignatureOf

\* A version none of whose rows change keeps its invariant.
LEMMA VersionUnchanged ==
  ASSUME NEW s \in Skill, VersionInv(s), skill'[s] = skill[s],
         skillEvents'[s] = skillEvents[s], skillApprovals'[s] = skillApprovals[s]
  PROVE  VersionInv(s)'
BY DEF VersionInv, TrailOf, ReviewOf, SignatureOf, Registered, Reached

\* While a version is under review no decision approves it.
LEMMA UnderReview ==
  ASSUME RegistryInv, NEW s \in Skill, skill[s].state = "SIMULATION_TESTED"
  PROVE  \A i \in 1..Len(skillApprovals[s]) : skillApprovals[s][i].decision # "APPROVED"
<1> DEFINE n == Len(skillEvents[s])
<1>1. skillEvents[s] \in Seq([hash : Hash, from : SkillStates \cup {None}, to : SkillStates])
  BY DEF RegistryInv, RegistryTypeOK
<1>2. /\ n \in Nat /\ n <= 10 /\ n # 0
      /\ skill[s].state = Lifecycle[n]
  BY <1>1 DEF RegistryInv, VersionInv, TrailOf, Registered
<1>3. n = 6
  <2> HIDE DEF n
  <2>1. n \in 1..10
    BY <1>2
  <2> QED BY <1>2, <2>1, LifecycleTable
<1>4. ~ (n >= 7)
  <2> HIDE DEF n
  <2> QED BY <1>3
<1>5. ~ Reached(s, Lifecycle[7])
  BY <1>4, ReachedByLength DEF RegistryInv, VersionInv
<1> QED BY <1>5, LifecycleTable DEF RegistryInv, VersionInv, ReviewOf

-----------------------------------------------------------------------------
LEMMA RegisterKeepsInv ==
  ASSUME RegistryInv, NEW s \in Skill, NEW h \in Hash, NEW m \in Manifest,
         RegisterManifest(s, h, m)
  PROVE  RegistryInv'
<1> DEFINE event == [hash |-> h, from |-> None, to |-> "DRAFT"]
<1>1. /\ skill \in [Skill -> Row \cup {NoRow}]
      /\ skillEvents \in [Skill -> Seq([hash : Hash, from : SkillStates \cup {None},
                                        to : SkillStates])]
      /\ skillApprovals \in [Skill -> Seq([hash : Hash, decision : Decisions])]
  BY DEF RegistryInv, RegistryTypeOK
<1>2. /\ skill' = [skill EXCEPT ![s] = [state |-> "DRAFT", hash |-> h, manifest |-> m,
                                        signature |-> None]]
      /\ skillEvents' = [skillEvents EXCEPT ![s] = Append(@, event)]
      /\ skillApprovals' = skillApprovals
  BY DEF RegisterManifest, RecordEvent
<1>3. RegistryTypeOK'
  <2>1. event \in [hash : Hash, from : SkillStates \cup {None}, to : SkillStates]
    BY DEF SkillStates
  <2>2. [state |-> "DRAFT", hash |-> h, manifest |-> m, signature |-> None] \in Row
    BY DEF SkillStates, Row
  <2>3. skillEvents[s] \in Seq([hash : Hash, from : SkillStates \cup {None}, to : SkillStates])
    BY <1>1
  <2>4. Append(skillEvents[s], event) \in
          Seq([hash : Hash, from : SkillStates \cup {None}, to : SkillStates])
    BY <2>1, <2>3
  <2> HIDE DEF event
  <2> QED BY <1>1, <1>2, <2>2, <2>4 DEF RegistryTypeOK
<1>4. VersionInv(s)'
  <2>1. skillEvents[s] = <<>>
    BY DEF RegisterManifest, RegistryInv, VersionInv, TrailOf
  <2>2. /\ skillEvents'[s] = <<event>>
        /\ Len(skillEvents'[s]) = 1 /\ skillEvents'[s] # <<>> /\ skillEvents'[s][1] = event
    BY <1>1, <1>2, <2>1
  <2>3. /\ skill'[s] = [state |-> "DRAFT", hash |-> h, manifest |-> m, signature |-> None]
        /\ skillApprovals'[s] = skillApprovals[s]
    BY <1>1, <1>2
  <2>4. \A i \in 1..1 : i = 1
    OBVIOUS
  <2>5. TrailOf(s)'
    BY <2>2, <2>3, <2>4, LifecycleTable DEF TrailOf, Registered
  <2>6. \A i : i \notin 1..Len(skillApprovals[s])
    <3>1. \A i \in 1..Len(skillApprovals[s]) : skillApprovals[s][i].hash = skill[s].hash
      BY DEF RegistryInv, VersionInv, ReviewOf
    <3>2. skill[s] = NoRow
      BY <1>1 DEF RegisterManifest, Registered, Row, SkillStates
    <3>3. \A i \in 1..Len(skillApprovals[s]) : skillApprovals[s][i].hash \in Hash
      <4>1. skillApprovals[s] \in Seq([hash : Hash, decision : Decisions])
        BY <1>1
      <4>2. \A i \in 1..Len(skillApprovals[s]) :
              skillApprovals[s][i] \in [hash : Hash, decision : Decisions]
        BY <4>1, ElementOfSeq
      <4> QED BY <4>2
    <3> QED BY <3>1, <3>2, <3>3, NoneAssumption DEF NoRow
  <2>7. ReviewOf(s)'
    <3>1. ~ Reached(s, "HUMAN_APPROVED")'
      BY <2>2, <2>4 DEF Reached
    <3> QED BY <2>3, <2>6, <3>1 DEF ReviewOf
  <2>8. SignatureOf(s)'
    BY <2>3 DEF SignatureOf
  <2> QED BY <2>5, <2>7, <2>8 DEF VersionInv
<1>5. ASSUME NEW x \in Skill, x # s PROVE VersionInv(x)'
  <2>1. VersionInv(x)
    BY DEF RegistryInv
  <2> QED BY <1>1, <1>2, <1>5, <2>1, VersionUnchanged
<1> QED BY <1>3, <1>4, <1>5 DEF RegistryInv

(***************************************************************************)
(* The three other operations that write a row: s moves to target, keeping *)
(* its manifest, and only s is touched.                                    *)
(***************************************************************************)
MovesOnly(s, target, signature) ==
  /\ Registered(s)
  /\ Follows(skill[s].state, target)
  /\ skill' = [skill EXCEPT ![s] = [skill[s] EXCEPT !.state = target,
                                                    !.signature = signature]]
  /\ RecordEvent(s, skill[s].hash, skill[s].state, target)

LEMMA MovesOnlyMoves ==
  ASSUME RegistryInv, NEW s \in Skill, NEW target \in SkillStates,
         NEW signature \in Envelope \cup {None}, MovesOnly(s, target, signature)
  PROVE  /\ Moves(s, target)
         /\ skill'[s].signature = signature
         /\ skill' \in [Skill -> Row \cup {NoRow}]
         /\ skillEvents' \in [Skill -> Seq([hash : Hash, from : SkillStates \cup {None},
                                            to : SkillStates])]
         /\ \A x \in Skill : x # s => skill'[x] = skill[x] /\ skillEvents'[x] = skillEvents[x]
<1> DEFINE event == [hash |-> skill[s].hash, from |-> skill[s].state, to |-> target]
<1>1. /\ skill \in [Skill -> Row \cup {NoRow}]
      /\ skillEvents \in [Skill -> Seq([hash : Hash, from : SkillStates \cup {None},
                                        to : SkillStates])]
  BY DEF RegistryInv, RegistryTypeOK
<1>2. skill[s] \in Row
  BY <1>1 DEF MovesOnly, Registered, NoRow
<1>3. [skill[s] EXCEPT !.state = target, !.signature = signature] \in Row
  BY <1>2 DEF Row
<1>4. event \in [hash : Hash, from : SkillStates \cup {None}, to : SkillStates]
  BY <1>2 DEF Row
<1>5. /\ skill' = [skill EXCEPT ![s] = [skill[s] EXCEPT !.state = target,
                                                        !.signature = signature]]
      /\ skillEvents' = [skillEvents EXCEPT ![s] = Append(@, event)]
  BY DEF MovesOnly, RecordEvent
<1>6. Append(skillEvents[s], event) \in
        Seq([hash : Hash, from : SkillStates \cup {None}, to : SkillStates])
  <2>1. skillEvents[s] \in Seq([hash : Hash, from : SkillStates \cup {None}, to : SkillStates])
    BY <1>1
  <2> HIDE DEF event
  <2> QED BY <1>4, <2>1
<1>7. /\ skill'[s].state = target /\ skill'[s].hash = skill[s].hash
      /\ skill'[s].signature = signature
  BY <1>1, <1>2, <1>5 DEF Row
<1>8. skillEvents'[s] = Append(skillEvents[s], event)
  BY <1>1, <1>5
<1>9. Moves(s, target)
  BY <1>7, <1>8 DEF Moves, MovesOnly
<1> HIDE DEF event
<1> QED BY <1>1, <1>3, <1>5, <1>6, <1>7, <1>9

LEMMA AdvanceMovesOnly ==
  ASSUME RegistryInv, NEW s \in Skill, NEW target \in SkillStates, NEW expected \in SkillStates,
         Advance(s, target, expected)
  PROVE  /\ MovesOnly(s, target, skill[s].signature) /\ skillApprovals' = skillApprovals
         /\ skill[s].signature \in Envelope \cup {None}
<1>1. skill[s].state \in SkillStates /\ "ABSENT" \notin SkillStates
  BY DEF Advance, TransitionSkill, SkillStates
<1>2. skill[s] \in Row
  BY <1>1 DEF RegistryInv, RegistryTypeOK, NoRow
<1>3. skill' = [skill EXCEPT ![s].state = target]
  BY DEF Advance, TransitionSkill
<1>4. [skill[s] EXCEPT !.state = target] =
        [skill[s] EXCEPT !.state = target, !.signature = skill[s].signature]
  BY <1>2 DEF Row
<1>5. skill' = [skill EXCEPT ![s] = [skill[s] EXCEPT !.state = target,
                                            !.signature = skill[s].signature]]
  BY <1>3, <1>4
<1>6. Registered(s) /\ skill[s].signature \in Envelope \cup {None}
  BY <1>1, <1>2 DEF Registered, Row
<1> QED BY <1>5, <1>6 DEF Advance, TransitionSkill, MovesOnly

LEMMA AdvanceKeepsInv ==
  ASSUME RegistryInv, NEW s \in Skill, NEW target \in SkillStates, NEW expected \in SkillStates,
         Advance(s, target, expected)
  PROVE  RegistryInv'
<1>1. MovesOnly(s, target, skill[s].signature) /\ skillApprovals' = skillApprovals
      /\ skill[s].signature \in Envelope \cup {None}
  BY AdvanceMovesOnly
<1>2. /\ Moves(s, target)
      /\ skill'[s].signature = skill[s].signature
      /\ skill' \in [Skill -> Row \cup {NoRow}]
      /\ skillEvents' \in [Skill -> Seq([hash : Hash, from : SkillStates \cup {None},
                                         to : SkillStates])]
      /\ \A x \in Skill : x # s => skill'[x] = skill[x] /\ skillEvents'[x] = skillEvents[x]
  BY <1>1, MovesOnlyMoves
<1>3. RegistryTypeOK'
  BY <1>1, <1>2 DEF RegistryInv, RegistryTypeOK
<1>4. VersionInv(s)'
  <2>1. target # "HUMAN_APPROVED" /\ target # "SIGNED"
    BY DEF Advance
  <2> QED BY <1>1, <1>2, <2>1, MoveKeepsTrail, MoveKeepsReview, MoveKeepsSignature DEF VersionInv
<1>5. ASSUME NEW x \in Skill, x # s PROVE VersionInv(x)'
  BY <1>1, <1>2, <1>5, VersionUnchanged DEF RegistryInv
<1> QED BY <1>3, <1>4, <1>5 DEF RegistryInv

LEMMA SignatureMovesOnly ==
  ASSUME RegistryInv, NEW envelope \in Envelope, RecordVerifiedSignature(envelope)
  PROVE  MovesOnly(envelope.skill, "SIGNED", envelope) /\ skillApprovals' = skillApprovals
<1> DEFINE s == envelope.skill
<1>0. s \in Skill /\ envelope.hash \in Hash
  BY DEF Envelope
<1>1. Registered(s) /\ skill[s].state = "HUMAN_APPROVED" /\ skill[s].hash = envelope.hash
  BY DEF RecordVerifiedSignature, Registered
<1>2. Follows("HUMAN_APPROVED", "SIGNED")
  BY DEF Follows, Lifecycle
<1>3. skill' = [skill EXCEPT ![s] = [skill[s] EXCEPT !.state = "SIGNED",
                                            !.signature = envelope]]
  BY <1>0 DEF RecordVerifiedSignature, RegistryInv, RegistryTypeOK
<1> QED BY <1>1, <1>2, <1>3 DEF RecordVerifiedSignature, MovesOnly

LEMMA SignatureKeepsInv ==
  ASSUME RegistryInv, NEW envelope \in Envelope, RecordVerifiedSignature(envelope)
  PROVE  RegistryInv'
<1> DEFINE s == envelope.skill
<1>1. s \in Skill /\ envelope.hash \in Hash
  BY DEF Envelope
<1>2. MovesOnly(s, "SIGNED", envelope) /\ skillApprovals' = skillApprovals
  BY SignatureMovesOnly
<1> HIDE DEF s
<1>3. /\ Moves(s, "SIGNED")
      /\ skill'[s].signature = envelope
      /\ skill' \in [Skill -> Row \cup {NoRow}]
      /\ skillEvents' \in [Skill -> Seq([hash : Hash, from : SkillStates \cup {None},
                                         to : SkillStates])]
      /\ \A x \in Skill : x # s => skill'[x] = skill[x] /\ skillEvents'[x] = skillEvents[x]
  <2>1. "SIGNED" \in SkillStates
    BY DEF SkillStates
  <2> QED BY <1>1, <1>2, <2>1, MovesOnlyMoves
<1>4. RegistryTypeOK'
  BY <1>2, <1>3 DEF RegistryInv, RegistryTypeOK
<1>5. SignatureOf(s)'
  <2>1. /\ skill'[s].state = "SIGNED" /\ skill'[s].hash = envelope.hash
        /\ envelope.skill = s
    BY <1>3 DEF Moves, RecordVerifiedSignature, s
  <2>2. envelope # None
    BY NoneAssumption DEF Envelope
  <2> QED BY <1>3, <2>1, <2>2 DEF SignatureOf
<1>6. VersionInv(s)'
  BY <1>1, <1>2, <1>3, <1>5, MoveKeepsTrail, MoveKeepsReview DEF VersionInv
<1>7. ASSUME NEW x \in Skill, x # s PROVE VersionInv(x)'
  BY <1>2, <1>3, <1>7, VersionUnchanged DEF RegistryInv
<1> QED BY <1>4, <1>6, <1>7 DEF RegistryInv

\* Either decision leaves its row in skill_approvals.
LEMMA DecisionIsRecorded ==
  ASSUME RegistryInv, NEW s \in Skill, NEW h \in Hash, NEW decision \in Decisions,
         Approve(s, h, decision)
  PROVE  /\ skillApprovals' \in [Skill -> Seq([hash : Hash, decision : Decisions])]
         /\ \A x \in Skill : x # s => skillApprovals'[x] = skillApprovals[x]
         /\ Len(skillApprovals[s]) \in Nat
         /\ Len(skillApprovals'[s]) = Len(skillApprovals[s]) + 1
         /\ \A i \in 1..Len(skillApprovals[s]) : skillApprovals'[s][i] = skillApprovals[s][i]
         /\ skillApprovals'[s][Len(skillApprovals[s]) + 1] =
              [hash |-> skill[s].hash, decision |-> decision]
<1> DEFINE row == [hash |-> skill[s].hash, decision |-> decision]
<1>1. skillApprovals \in [Skill -> Seq([hash : Hash, decision : Decisions])]
  BY DEF RegistryInv, RegistryTypeOK
<1>2. skillApprovals' = [skillApprovals EXCEPT ![s] = Append(@, row)]
  BY DEF Approve
<1>3. row \in [hash : Hash, decision : Decisions]
  BY DEF Approve, Reviewable
<1> HIDE DEF row
<1>4. skillApprovals[s] \in Seq([hash : Hash, decision : Decisions])
  BY <1>1
<1>5. /\ Append(skillApprovals[s], row) \in Seq([hash : Hash, decision : Decisions])
      /\ Len(skillApprovals[s]) \in Nat
      /\ Len(Append(skillApprovals[s], row)) = Len(skillApprovals[s]) + 1
      /\ \A i \in 1..Len(skillApprovals[s]) :
           Append(skillApprovals[s], row)[i] = skillApprovals[s][i]
      /\ Append(skillApprovals[s], row)[Len(skillApprovals[s]) + 1] = row
  BY <1>3, <1>4
<1>6. skillApprovals'[s] = Append(skillApprovals[s], row)
  BY <1>1, <1>2
<1> QED BY <1>1, <1>2, <1>5, <1>6 DEF row

LEMMA RejectKeepsInv ==
  ASSUME RegistryInv, NEW s \in Skill, NEW h \in Hash, Approve(s, h, "REJECTED")
  PROVE  RegistryInv'
<1> DEFINE n == Len(skillApprovals[s])
<1>1. skill' = skill /\ skillEvents' = skillEvents /\ skill[s].state = "SIMULATION_TESTED"
  BY DEF Approve, Reviewable
<1>2. /\ skillApprovals' \in [Skill -> Seq([hash : Hash, decision : Decisions])]
      /\ \A x \in Skill : x # s => skillApprovals'[x] = skillApprovals[x]
      /\ n \in Nat /\ Len(skillApprovals'[s]) = n + 1
      /\ \A i \in 1..n : skillApprovals'[s][i] = skillApprovals[s][i]
      /\ skillApprovals'[s][n + 1] = [hash |-> skill[s].hash, decision |-> "REJECTED"]
  BY DecisionIsRecorded DEF Decisions
<1>3. RegistryTypeOK'
  BY <1>1, <1>2 DEF RegistryInv, RegistryTypeOK
<1>4. \A i \in 1..n : /\ skillApprovals[s][i].hash = skill[s].hash
                      /\ skillApprovals[s][i].decision # "APPROVED"
  BY <1>1, UnderReview DEF RegistryInv, VersionInv, ReviewOf
<1>5. ~ Reached(s, "HUMAN_APPROVED")
  BY <1>4 DEF RegistryInv, VersionInv, ReviewOf
<1> HIDE DEF n
<1>6. \A i \in 1..(n + 1) : i \in 1..n \/ i = n + 1
  BY <1>2
<1>7. \A i \in 1..(n + 1) : /\ skillApprovals'[s][i].hash = skill[s].hash
                            /\ skillApprovals'[s][i].decision # "APPROVED"
  <2>1. ASSUME NEW i \in 1..n
        PROVE  /\ skillApprovals'[s][i].hash = skill[s].hash
               /\ skillApprovals'[s][i].decision # "APPROVED"
    BY <1>2, <1>4
  <2>2. /\ skillApprovals'[s][n + 1].hash = skill[s].hash
        /\ skillApprovals'[s][n + 1].decision # "APPROVED"
    BY <1>2
  <2> QED BY <1>6, <2>1, <2>2
<1>8. ReviewOf(s)'
  <2>1. Len(skillApprovals'[s]) = n + 1
    BY <1>2
  <2>2. ~ Reached(s, "HUMAN_APPROVED")'
    BY <1>1, <1>5 DEF Reached
  <2>3. \A i \in 1..Len(skillApprovals'[s]) : /\ skillApprovals'[s][i].hash = skill'[s].hash
                                              /\ skillApprovals'[s][i].decision # "APPROVED"
    BY <1>1, <1>7, <2>1
  <2> QED BY <2>2, <2>3 DEF ReviewOf
<1>9. VersionInv(s)'
  BY <1>1, <1>8 DEF RegistryInv, VersionInv, TrailOf, SignatureOf, Registered
<1>10. ASSUME NEW x \in Skill, x # s PROVE VersionInv(x)'
  BY <1>1, <1>2, <1>10, VersionUnchanged DEF RegistryInv
<1> QED BY <1>3, <1>9, <1>10 DEF RegistryInv

LEMMA ApproveMovesOnly ==
  ASSUME RegistryInv, NEW s \in Skill, NEW h \in Hash, Approve(s, h, "APPROVED")
  PROVE  /\ MovesOnly(s, "HUMAN_APPROVED", skill[s].signature)
         /\ skill[s].signature \in Envelope \cup {None}
<1>1. Registered(s) /\ skill[s].state = "SIMULATION_TESTED"
  BY DEF Approve, Reviewable
<1>2. skill[s] \in Row /\ skill \in [Skill -> Row \cup {NoRow}]
  BY <1>1 DEF Registered, RegistryInv, RegistryTypeOK, NoRow
<1>3. Follows("SIMULATION_TESTED", "HUMAN_APPROVED")
  BY DEF Follows, Lifecycle
<1>4. skill' = [skill EXCEPT ![s].state = "HUMAN_APPROVED"]
  BY DEF Approve
<1>5. [skill[s] EXCEPT !.state = "HUMAN_APPROVED"] =
        [skill[s] EXCEPT !.state = "HUMAN_APPROVED", !.signature = skill[s].signature]
  BY <1>2 DEF Row
<1>6. skill' = [skill EXCEPT ![s] = [skill[s] EXCEPT !.state = "HUMAN_APPROVED",
                                            !.signature = skill[s].signature]]
  BY <1>4, <1>5
<1>7. skill[s].signature \in Envelope \cup {None}
  BY <1>2 DEF Row
<1>8. RecordEvent(s, skill[s].hash, skill[s].state, "HUMAN_APPROVED")
  BY <1>1 DEF Approve
<1> QED BY <1>1, <1>3, <1>6, <1>7, <1>8 DEF MovesOnly

LEMMA ApproveKeepsInv ==
  ASSUME RegistryInv, NEW s \in Skill, NEW h \in Hash, Approve(s, h, "APPROVED")
  PROVE  RegistryInv'
<1> DEFINE n == Len(skillApprovals[s])
<1>1. MovesOnly(s, "HUMAN_APPROVED", skill[s].signature)
      /\ skill[s].signature \in Envelope \cup {None}
  BY ApproveMovesOnly
<1>2. /\ Moves(s, "HUMAN_APPROVED")
      /\ skill'[s].signature = skill[s].signature
      /\ skill' \in [Skill -> Row \cup {NoRow}]
      /\ skillEvents' \in [Skill -> Seq([hash : Hash, from : SkillStates \cup {None},
                                         to : SkillStates])]
      /\ \A x \in Skill : x # s => skill'[x] = skill[x] /\ skillEvents'[x] = skillEvents[x]
  <2>1. "HUMAN_APPROVED" \in SkillStates
    BY DEF SkillStates
  <2> QED BY <1>1, <2>1, MovesOnlyMoves
<1>3. /\ skillApprovals' \in [Skill -> Seq([hash : Hash, decision : Decisions])]
      /\ \A x \in Skill : x # s => skillApprovals'[x] = skillApprovals[x]
      /\ n \in Nat /\ Len(skillApprovals'[s]) = n + 1
      /\ \A i \in 1..n : skillApprovals'[s][i] = skillApprovals[s][i]
      /\ skillApprovals'[s][n + 1] = [hash |-> skill[s].hash, decision |-> "APPROVED"]
  BY DecisionIsRecorded DEF Decisions
<1>4. RegistryTypeOK'
  BY <1>2, <1>3 DEF RegistryInv, RegistryTypeOK
<1>5. \A i \in 1..n : /\ skillApprovals[s][i].hash = skill[s].hash
                      /\ skillApprovals[s][i].decision # "APPROVED"
  <2>1. skill[s].state = "SIMULATION_TESTED"
    BY DEF Approve, Reviewable
  <2> QED BY <2>1, UnderReview DEF RegistryInv, VersionInv, ReviewOf
<1> HIDE DEF n
<1>6. \A i \in 1..(n + 1) : i \in 1..n \/ i = n + 1
  BY <1>3
<1>7. skill'[s].hash = skill[s].hash
  BY <1>2 DEF Moves
<1>8. \A i \in 1..(n + 1) :
        /\ skillApprovals'[s][i].hash = skill'[s].hash
        /\ skillApprovals'[s][i].decision = "APPROVED" => i = n + 1
  BY <1>3, <1>5, <1>6, <1>7
<1>9. \E i \in 1..(n + 1) : skillApprovals'[s][i].decision = "APPROVED"
  <2>1. n + 1 \in 1..(n + 1)
    BY <1>3
  <2> QED BY <1>3, <2>1
<1>10. Reached(s, "HUMAN_APPROVED")'
  <2> DEFINE k == Len(skillEvents[s])
  <2>1. /\ k \in 1..9 /\ Len(skillEvents'[s]) = k + 1
        /\ "HUMAN_APPROVED" = Lifecycle[k + 1]
        /\ skillEvents'[s][k + 1] =
             [hash |-> skill[s].hash, from |-> Lifecycle[k], to |-> Lifecycle[k + 1]]
    BY <1>2, MoveExtendsTrail
  <2> HIDE DEF k
  <2>2. k + 1 \in 1..(k + 1) /\ skillEvents'[s][k + 1].to = "HUMAN_APPROVED"
    BY <2>1
  <2> QED BY <2>1, <2>2 DEF Reached
<1>11. ReviewOf(s)'
  BY <1>3, <1>8, <1>9, <1>10 DEF ReviewOf
<1>12. VersionInv(s)'
  BY <1>2, <1>11, MoveKeepsTrail, MoveKeepsSignature DEF VersionInv
<1>13. ASSUME NEW x \in Skill, x # s PROVE VersionInv(x)'
  BY <1>2, <1>3, <1>13, VersionUnchanged DEF RegistryInv
<1> QED BY <1>4, <1>12, <1>13 DEF RegistryInv

-----------------------------------------------------------------------------
LEMMA RegistryStep == RegistryInv /\ [RegistryNext]_registryVars => RegistryInv'
<1> SUFFICES ASSUME RegistryInv, [RegistryNext]_registryVars PROVE RegistryInv'
  OBVIOUS
<1>1. ASSUME NEW s \in Skill, NEW h \in Hash, NEW m \in Manifest, RegisterManifest(s, h, m)
      PROVE  RegistryInv'
  BY <1>1, RegisterKeepsInv
<1>2. ASSUME NEW s \in Skill, NEW target \in SkillStates, NEW expected \in SkillStates,
             Advance(s, target, expected)
      PROVE  RegistryInv'
  BY <1>2, AdvanceKeepsInv
<1>3. ASSUME NEW s \in Skill, NEW h \in Hash, NEW decision \in Decisions,
             Approve(s, h, decision)
      PROVE  RegistryInv'
  BY <1>3, ApproveKeepsInv, RejectKeepsInv DEF Decisions
<1>4. ASSUME NEW envelope \in Envelope, RecordVerifiedSignature(envelope)
      PROVE  RegistryInv'
  BY <1>4, SignatureKeepsInv
<1>5. CASE UNCHANGED registryVars
  <2>1. skill' = skill /\ skillEvents' = skillEvents /\ skillApprovals' = skillApprovals
    BY <1>5 DEF registryVars
  <2>2. \A s \in Skill : VersionInv(s)'
    BY <2>1, VersionUnchanged DEF RegistryInv
  <2> QED BY <2>1, <2>2 DEF RegistryInv, RegistryTypeOK
<1> QED BY <1>1, <1>2, <1>3, <1>4, <1>5 DEF RegistryNext

(***************************************************************************)
(* The inductive invariant holds in every reachable state.                 *)
(***************************************************************************)
THEOREM RegistryInvariant == RegistrySpec => []RegistryInv
BY RegistryInitially, RegistryStep, PTL DEF RegistrySpec

\* The tables always hold rows of their types.
THEOREM RegistryTypes == RegistrySpec => []RegistryTypeOK
<1>1. RegistryInv => RegistryTypeOK
  BY DEF RegistryInv
<1> QED BY <1>1, RegistryInvariant, PTL

\* The audit trail of a version is its walk along the lifecycle.
THEOREM TrailAlwaysLifecycle == RegistrySpec => []TrailIsLifecycle
<1>1. RegistryInv => TrailIsLifecycle
  BY DEF RegistryInv, VersionInv, TrailIsLifecycle
<1> QED BY <1>1, RegistryInvariant, PTL

\* An approval ends the review it belongs to.
THEOREM ApprovalAlwaysClosesReview == RegistrySpec => []ApprovalClosesReview
<1>1. RegistryInv => ApprovalClosesReview
  BY DEF RegistryInv, VersionInv, ApprovalClosesReview
<1> QED BY <1>1, RegistryInvariant, PTL

(***************************************************************************)
(* Nothing becomes ACTIVE without its simulation test, its human approval  *)
(* and its own release signature.                                          *)
(***************************************************************************)
THEOREM ActiveAlwaysGoverned == RegistrySpec => []ActiveIsGoverned
<1>1. RegistryInv => ActiveIsGoverned
  <2> SUFFICES ASSUME RegistryInv, NEW s \in Skill, skill[s].state \in {"ACTIVE", "DEPRECATED"}
      PROVE  /\ Reached(s, "SIMULATION_TESTED")
             /\ \E i \in 1..Len(skillApprovals[s]) :
                  skillApprovals[s][i] = [hash |-> skill[s].hash, decision |-> "APPROVED"]
             /\ skill[s].signature \in Envelope
             /\ skill[s].signature.skill = s
             /\ skill[s].signature.hash = skill[s].hash
    BY DEF ActiveIsGoverned
  <2> DEFINE n == Len(skillEvents[s])
  <2>1. TrailOf(s) /\ ReviewOf(s) /\ SignatureOf(s) /\ RegistryTypeOK
    BY DEF RegistryInv, VersionInv
  <2>2. n \in Nat /\ n <= 10 /\ n # 0 /\ skill[s].state = Lifecycle[n]
    <3>1. skillEvents[s] \in Seq([hash : Hash, from : SkillStates \cup {None}, to : SkillStates])
      BY <2>1 DEF RegistryTypeOK
    <3> QED BY <2>1, <3>1 DEF TrailOf, Registered
  <2>3. n >= 6 /\ n >= 7
    <3> HIDE DEF n
    <3>1. n \in 1..10
      BY <2>2
    <3>2. n = 9 \/ n = 10
      BY <2>2, <3>1, LifecycleTable
    <3> QED BY <3>2
  <2>4. Reached(s, "SIMULATION_TESTED") /\ Reached(s, "HUMAN_APPROVED")
    BY <2>1, <2>3, ReachedByLength, LifecycleTable
  <2>5. PICK i \in 1..Len(skillApprovals[s]) : skillApprovals[s][i].decision = "APPROVED"
    BY <2>1, <2>4 DEF ReviewOf
  <2>6. skillApprovals[s][i] = [hash |-> skill[s].hash, decision |-> "APPROVED"]
    <3>1. skillApprovals[s] \in Seq([hash : Hash, decision : Decisions])
      BY <2>1 DEF RegistryTypeOK
    <3>2. skillApprovals[s][i] \in [hash : Hash, decision : Decisions]
      BY <3>1, ElementOfSeq
    <3>3. skillApprovals[s][i].hash = skill[s].hash
      BY <2>1 DEF ReviewOf
    <3> QED BY <2>5, <3>2, <3>3
  <2> QED BY <2>1, <2>4, <2>5, <2>6 DEF SignatureOf
<1> QED BY <1>1, RegistryInvariant, PTL
-----------------------------------------------------------------------------
\* What a step leaves to version s.
Pinned(s) ==
  /\ Registered(s) =>
       /\ skill'[s].hash = skill[s].hash
       /\ skill'[s].manifest = skill[s].manifest
       /\ skill'[s].state # skill[s].state => Follows(skill[s].state, skill'[s].state)
  /\ skill[s].signature # None => skill'[s].signature = skill[s].signature
  /\ IsPrefixOf(skillEvents[s], skillEvents'[s])
  /\ IsPrefixOf(skillApprovals[s], skillApprovals'[s])

Event == [hash : Hash, from : SkillStates \cup {None}, to : SkillStates]
Decision == [hash : Hash, decision : Decisions]

\* An append-only table keeps what it held.
LEMMA TablesGrow ==
  ASSUME RegistryTypeOK, RegistryTypeOK', NEW s \in Skill, NEW event, NEW row,
         \/ skillEvents'[s] = skillEvents[s]
         \/ skillEvents'[s] = Append(skillEvents[s], event) /\ event \in Event,
         \/ skillApprovals'[s] = skillApprovals[s]
         \/ skillApprovals'[s] = Append(skillApprovals[s], row) /\ row \in Decision
  PROVE  /\ IsPrefixOf(skillEvents[s], skillEvents'[s])
         /\ IsPrefixOf(skillApprovals[s], skillApprovals'[s])
<1>1. skillEvents[s] \in Seq(Event) /\ skillApprovals[s] \in Seq(Decision)
  BY DEF RegistryTypeOK, Event, Decision
<1>2. IsPrefixOf(skillEvents[s], skillEvents'[s])
  <2>1. IsPrefixOf(skillEvents[s], skillEvents[s])
    BY <1>1 DEF IsPrefixOf
  <2>2. event \in Event => IsPrefixOf(skillEvents[s], Append(skillEvents[s], event))
    BY <1>1 DEF IsPrefixOf
  <2> QED BY <2>1, <2>2, Zenon
<1>3. IsPrefixOf(skillApprovals[s], skillApprovals'[s])
  <2>1. IsPrefixOf(skillApprovals[s], skillApprovals[s])
    BY <1>1 DEF IsPrefixOf
  <2>2. row \in Decision => IsPrefixOf(skillApprovals[s], Append(skillApprovals[s], row))
    BY <1>1 DEF IsPrefixOf
  <2> QED BY <2>1, <2>2, Zenon
<1> QED BY <1>2, <1>3

LEMMA UntouchedIsPinned ==
  ASSUME RegistryTypeOK, RegistryTypeOK', NEW s \in Skill, skill'[s] = skill[s],
         skillEvents'[s] = skillEvents[s], skillApprovals'[s] = skillApprovals[s]
  PROVE  Pinned(s)
BY TablesGrow DEF Pinned

LEMMA RegisterPins ==
  ASSUME RegistryInv, RegistryTypeOK', NEW s \in Skill, NEW h \in Hash, NEW m \in Manifest,
         RegisterManifest(s, h, m), NEW x \in Skill
  PROVE  Pinned(x)
<1>1. RegistryTypeOK /\ SignatureOf(x)
  BY DEF RegistryInv, VersionInv
<1>2. CASE x # s
  <2>1. skill'[x] = skill[x] /\ skillEvents'[x] = skillEvents[x]
        /\ skillApprovals'[x] = skillApprovals[x]
    BY <1>1, <1>2 DEF RegisterManifest, RecordEvent, RegistryTypeOK
  <2> QED BY <1>1, <2>1, UntouchedIsPinned
<1>3. CASE x = s
  <2>1. ~ Registered(x) /\ skill[x].signature = None
    <3>1. ~ Registered(x)
      BY <1>3 DEF RegisterManifest
    <3>2. skill[x].state \notin {"SIGNED", "ACTIVE", "DEPRECATED"}
      BY <3>1 DEF Registered
    <3> QED BY <1>1, <3>1, <3>2 DEF SignatureOf
  <2> DEFINE event == [hash |-> h, from |-> None, to |-> "DRAFT"]
  <2>2. event \in Event
    BY DEF Event, SkillStates
  <2>3. skillEvents'[x] = Append(skillEvents[x], event) /\ skillApprovals'[x] = skillApprovals[x]
    BY <1>1, <1>3 DEF RegisterManifest, RecordEvent, RegistryTypeOK
  <2> HIDE DEF event
  <2> QED BY <1>1, <2>1, <2>2, <2>3, TablesGrow DEF Pinned
<1> QED BY <1>2, <1>3

(***************************************************************************)
(* A step that moves one version along the lifecycle, keeps its content    *)
(* and sets no signature where one is stored.                              *)
(***************************************************************************)
LEMMA MovePins ==
  ASSUME RegistryInv, RegistryTypeOK', NEW s \in Skill, NEW target \in SkillStates,
         NEW signature \in Envelope \cup {None}, MovesOnly(s, target, signature),
         skill[s].signature # None => signature = skill[s].signature,
         NEW row,
         \A x \in Skill :
           \/ skillApprovals'[x] = skillApprovals[x]
           \/ x = s /\ skillApprovals'[x] = Append(skillApprovals[x], row) /\ row \in Decision,
         NEW x \in Skill
  PROVE  Pinned(x)
<1>1. RegistryTypeOK
  BY DEF RegistryInv
<1>2. /\ Moves(s, target) /\ skill'[s].signature = signature
      /\ \A y \in Skill : y # s => skill'[y] = skill[y] /\ skillEvents'[y] = skillEvents[y]
  BY MovesOnlyMoves
<1>3. CASE x # s
  BY <1>1, <1>2, <1>3, UntouchedIsPinned
<1>4. CASE x = s
  <2> DEFINE event == [hash |-> skill[s].hash, from |-> skill[s].state, to |-> target]
  <2>1. skill[s] \in Row
    BY <1>1 DEF RegistryTypeOK, MovesOnly, Registered, NoRow
  <2>2. event \in Event
    BY <2>1 DEF Row, Event
  <2>3. skillEvents'[s] = Append(skillEvents[s], event)
    BY <1>2 DEF Moves
  <2>4. skill'[s].manifest = skill[s].manifest
    BY <1>1, <2>1 DEF MovesOnly, RegistryTypeOK, Row
  <2>5. Follows(skill[s].state, skill'[s].state) /\ skill'[s].hash = skill[s].hash
    BY <1>2 DEF Moves
  <2> HIDE DEF event
  <2>6. /\ IsPrefixOf(skillEvents[s], skillEvents'[s])
        /\ IsPrefixOf(skillApprovals[s], skillApprovals'[s])
    BY <1>1, <2>2, <2>3, TablesGrow
  <2> QED BY <1>2, <1>4, <2>4, <2>5, <2>6 DEF Pinned
<1> QED BY <1>3, <1>4

LEMMA AdvancePins ==
  ASSUME RegistryInv, RegistryTypeOK', NEW s \in Skill, NEW target \in SkillStates,
         NEW expected \in SkillStates, Advance(s, target, expected), NEW x \in Skill
  PROVE  Pinned(x)
<1>1. MovesOnly(s, target, skill[s].signature) /\ skill[s].signature \in Envelope \cup {None}
  BY AdvanceMovesOnly
<1>2. skillApprovals' = skillApprovals
  BY DEF Advance, TransitionSkill
<1> QED BY <1>1, <1>2, MovePins

LEMMA SignaturePins ==
  ASSUME RegistryInv, RegistryTypeOK', NEW envelope \in Envelope,
         RecordVerifiedSignature(envelope), NEW x \in Skill
  PROVE  Pinned(x)
<1> DEFINE s == envelope.skill
<1>1. s \in Skill
  BY DEF Envelope
<1>2. MovesOnly(s, "SIGNED", envelope)
  BY SignatureMovesOnly
<1>3. skillApprovals' = skillApprovals /\ skill[s].state = "HUMAN_APPROVED"
  BY DEF RecordVerifiedSignature
<1> HIDE DEF s
<1>4. skill[s].signature = None
  BY <1>1, <1>3 DEF RegistryInv, VersionInv, SignatureOf
<1>5. "SIGNED" \in SkillStates
  BY DEF SkillStates
<1> QED BY <1>1, <1>2, <1>3, <1>4, <1>5, MovePins

LEMMA ApprovePins ==
  ASSUME RegistryInv, RegistryTypeOK', NEW s \in Skill, NEW h \in Hash,
         NEW decision \in Decisions, Approve(s, h, decision), NEW x \in Skill
  PROVE  Pinned(x)
<1> DEFINE row == [hash |-> skill[s].hash, decision |-> decision]
<1>1. RegistryTypeOK /\ row \in Decision
  BY DEF RegistryInv, Approve, Reviewable, Decision
<1>2. skillApprovals' = [skillApprovals EXCEPT ![s] = Append(@, row)]
  BY DEF Approve
<1> HIDE DEF row
<1>3. \A y \in Skill :
        \/ skillApprovals'[y] = skillApprovals[y]
        \/ y = s /\ skillApprovals'[y] = Append(skillApprovals[y], row) /\ row \in Decision
  BY <1>1, <1>2 DEF RegistryTypeOK
<1>4. CASE decision = "APPROVED"
  <2>1. MovesOnly(s, "HUMAN_APPROVED", skill[s].signature)
        /\ skill[s].signature \in Envelope \cup {None}
    BY <1>4, ApproveMovesOnly
  <2>2. "HUMAN_APPROVED" \in SkillStates
    BY DEF SkillStates
  <2> QED BY <1>3, <2>1, <2>2, MovePins
<1>5. CASE decision # "APPROVED"
  <2>1. skill' = skill /\ skillEvents' = skillEvents
    BY <1>5 DEF Approve
  <2>2. /\ IsPrefixOf(skillEvents[x], skillEvents'[x])
        /\ IsPrefixOf(skillApprovals[x], skillApprovals'[x])
    BY <1>1, <1>3, <2>1, TablesGrow
  <2> QED BY <2>1, <2>2 DEF Pinned
<1> QED BY <1>4, <1>5

LEMMA PinStep ==
  ASSUME RegistryInv, RegistryInv', [RegistryNext]_registryVars
  PROVE  \A s \in Skill : Pinned(s)
<1> SUFFICES ASSUME NEW x \in Skill PROVE Pinned(x)
  OBVIOUS
<1>1. RegistryTypeOK /\ RegistryTypeOK'
  BY DEF RegistryInv
<1>2. CASE UNCHANGED registryVars
  BY <1>1, <1>2, UntouchedIsPinned DEF registryVars
<1>3. CASE RegistryNext
  BY <1>1, <1>3, RegisterPins, AdvancePins, ApprovePins, SignaturePins DEF RegistryNext
<1> QED BY <1>2, <1>3

(***************************************************************************)
(* Once registered, a version keeps its hash, manifest and signature, only *)
(* moves forward, and its audit tables only grow.                          *)
(***************************************************************************)
THEOREM VersionsArePinned == RegistrySpec => VersionPinned
<1>1. RegistryInv /\ RegistryInv' /\ [RegistryNext]_registryVars =>
        [\A s \in Skill : Pinned(s)]_registryVars
  BY PinStep
<1> QED BY <1>1, RegistryInvariant, PTL DEF RegistrySpec, VersionPinned, Pinned
=============================================================================
