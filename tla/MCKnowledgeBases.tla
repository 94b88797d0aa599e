-------------------------- MODULE MCKnowledgeBases --------------------------
(* The knowledge bases of one space for TLC: names, documents and clients are interchangeable, *)
(* tags are not, as they are locked in the order of their ids.                                *)
EXTENDS KnowledgeBases, TLC

Interchangeable == Permutations(Clients) \cup Permutations(Keys) \cup Permutations(Assets)
=============================================================================
