------------------------------ MODULE MCSkills ------------------------------
(* Instances of Skills for TLC: a skill of the registry, which needs a domain, one *)
(* that ships with the application, and one with the empty slug, whose directory   *)
(* is that of all learned skills.                                                  *)
EXTENDS Skills, TLC
CONSTANTS weather, empty, d1
MCMentions == [s \in Slugs |-> IF s = weather THEN {d1} ELSE {}]
MCWithin == [s \in Slugs |-> IF s = empty THEN Learned ELSE {s}]
Symmetry == Permutations(Handlers)
=============================================================================
