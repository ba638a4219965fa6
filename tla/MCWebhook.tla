----------------------------- MODULE MCWebhook ------------------------------
(* Model values for Webhook: the one key the indexer appends under.          *)
EXTENDS Webhook

MCKeyHash == [k \in Key |-> 0]
=============================================================================
