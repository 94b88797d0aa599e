---------------------------- MODULE MCUnitVectors ----------------------------
(* Two documents of a space, the first with up to two units. *)
EXTENDS UnitVectors, TLC

CONSTANTS u1, u2, u3, d1, d2

MCOf == [u \in Units |-> IF u = u3 THEN d2 ELSE d1]
Symmetry == Permutations({u1, u2}) \cup Permutations(Columns) \cup Permutations(Requests) \cup Permutations(Workers)
==============================================================================
