---------------------------- MODULE MCMineruSlots ----------------------------
(***************************************************************************)
(* Instances of MineruSlots for TLC.                                        *)
(***************************************************************************)
EXTENDS MineruSlots, TLC

\* Processes and tokens are interchangeable.
Symmetry == Permutations(Worker) \cup Permutations(Token)
=============================================================================
