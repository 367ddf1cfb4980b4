-------------------------- MODULE MCWebhookDelivery --------------------------
(***************************************************************************)
(* One event: its requests, retries and duplicates race for the ledger,    *)
(* whose entries for different events do not meet.                         *)
(***************************************************************************)
EXTENDS WebhookDelivery

CONSTANT e1

OneEvent == {e1}
=============================================================================
