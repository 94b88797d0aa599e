-------------------------- MODULE MCWebhookDelivery --------------------------
(***************************************************************************)
(* Instances of WebhookDelivery for TLC.                                    *)
(***************************************************************************)
EXTENDS WebhookDelivery, TLC

\* Tasks are interchangeable.
Symmetry == Permutations(Task)
=============================================================================
