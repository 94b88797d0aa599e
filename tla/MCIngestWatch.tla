---------------------------- MODULE MCIngestWatch ----------------------------
(* Small instances of IngestWatch. *)
EXTENDS IngestWatch, TLC

Symmetry == Permutations(Scanners) \cup Permutations(Files)
=============================================================================
