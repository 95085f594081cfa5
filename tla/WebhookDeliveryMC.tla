------------------------- MODULE WebhookDeliveryMC -------------------------
(***************************************************************************)
(* Small instances of WebhookDelivery: one or two endpoints subscribed to  *)
(* the terminal outcome of a document.process run.                         *)
(***************************************************************************)
EXTENDS WebhookDelivery, TLC

AllSubscribed == [s \in Sources |-> Endpoints]

ProcessSymmetry == Permutations(Dispatchers) \cup Permutations(Operators)
=============================================================================
