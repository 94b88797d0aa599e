---------------------------- MODULE MCEntityGraph ----------------------------
(* Two spellings of one name and another entity that documents relate them to. *)
EXTENDS EntityGraph, TLC

CONSTANTS e1, e2, e3

MCSpellings == {{e1, e2}}
MCFacts == {<<e1, e3>>, <<e2, e3>>, <<e1, e2>>}
Symmetry == Permutations(Assets) \cup Permutations(Sessions)
==============================================================================
