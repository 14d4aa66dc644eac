--------------------------- MODULE MCSkillAuthor ---------------------------
(***************************************************************************)
(* Two requests for one version, two drafts and an edit, one repair each,  *)
(* three runs in all, and two keygens with keys of their own.              *)
(***************************************************************************)
EXTENDS SkillAuthor, TLC

CONSTANTS a1, a2, g1, g2, k1, k2, s1, h1, h2, edited, m1

MCAuthor == {a1, a2}
MCTarget == [a \in MCAuthor |-> s1]
MCKeygen == {g1, g2}
MCKeyOf == [g \in MCKeygen |-> IF g = g1 THEN k1 ELSE k2]
MCKey == {k1, k2}
MCSkill == {s1}
MCHash == {h1, h2, edited}
MCRenderable == {h1, h2}
MCManifest == {m1}
MCManifestOf == [h \in MCHash |-> m1]

(***************************************************************************)
(* The steps of authoring (pipelines, approve_cli, registry_cli up to the  *)
(* approval) neither read nor write the files the release tools work on,   *)
(* and the tools touch only versions that are approved, with which those   *)
(* steps are done: both kinds commute.  Here the tools run last, when no   *)
(* process is at work, and the keygens once there is something to sign.    *)
(***************************************************************************)
Unpublished == \A s \in Skill : repo[s] = None

AtRest == reviewer.pc = "idle" /\ \A a \in Author : In(a, "idle")

MCNext ==
  \/ Unpublished /\ AuthorNext
  \/ /\ AtRest
     /\ \/ \E s \in Skill, h \in Hash : Publish(s, h)
        \/ ~ Unpublished /\ ReleaseNext
        \/ \E s \in Skill, target, expected \in {"SIGNED", "ACTIVE", "DEPRECATED"} :
             AdvanceByHand(s, target, expected)

MCSpec == AuthorInit /\ [][MCNext]_allVars

\* what authoring left behind is not read, written or judged any more
View == IF Unpublished THEN allVars ELSE <<releaseVars, registryVars>>

Symmetry == Permutations(MCAuthor) \cup Permutations(MCRenderable)
=============================================================================
