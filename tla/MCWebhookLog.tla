---------------------------- MODULE MCWebhookLog ----------------------------
(***************************************************************************)
(* Instances of WebhookLog for TLC.                                         *)
(***************************************************************************)
EXTENDS WebhookLog, TLC

\* Dispatchers are interchangeable.
Symmetry == Permutations(Dispatcher)
=============================================================================
