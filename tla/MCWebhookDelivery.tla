------------------------- MODULE MCWebhookDelivery -------------------------
(* WebhookDelivery on small instances. *)
EXTENDS WebhookDelivery, TLC

CONSTANTS h1
OneHook == [d \in Delivery |-> h1]

Symmetric == Permutations(Lease) \cup Permutations(Worker)
=============================================================================
