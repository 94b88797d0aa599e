----------------------------- MODULE MCPipeline -----------------------------
(***************************************************************************)
(* Instances of Pipeline for TLC.                                           *)
(***************************************************************************)
EXTENDS Pipeline, TLC

\* Tasks, unit identities and batches are interchangeable.
Symmetry == Permutations(Task) \cup Permutations(Gen) \cup Permutations(Batch)
=============================================================================
