------------------------------ MODULE MCWebhook ------------------------------
(* Small instances of Webhook for TLC. *)
EXTENDS Webhook, TLC

Symmetry == Permutations(Records) \cup Permutations(Endpoints)
=============================================================================
