-------------------------- MODULE MCPartnerDelivery --------------------------
(***************************************************************************)
(* A small instance of PartnerDelivery: one row, the policies and answers  *)
(* of MCTransmissionWorker.                                                *)
(***************************************************************************)
EXTENDS MCTransmissionWorker, PartnerDelivery

OneJob == {j1}
=============================================================================
