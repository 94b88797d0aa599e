----------------------------- MODULE MCFolders -----------------------------
(* The folders of one space for TLC: rows and requests are interchangeable. *)
EXTENDS Folders, TLC

Interchangeable ==
    Permutations(Requests) \cup Permutations(Folders) \cup Permutations(Assets)
        \cup Permutations(Names)
=============================================================================
