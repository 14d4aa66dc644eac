-------------------------- MODULE MCSkillRegistry --------------------------
(* Two versions, two artifacts, both manifest classes, one rejection.      *)
EXTENDS SkillRegistry, TLC

CONSTANTS s1, s2, h1, h2, readOnly, controlled, k1

MCSkill == {s1, s2}
MCHash == {h1, h2}
MCManifest == {readOnly, controlled}
MCControlled == {controlled}
MCKey == {k1}

Symmetry == Permutations(MCSkill) \cup Permutations(MCHash)
=============================================================================
