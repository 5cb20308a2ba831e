--------------------------- MODULE MCWebhookSink ---------------------------
(***************************************************************************)
(* Two endpoints and up to three attempts each, with one delivery that is  *)
(* handed to the sink twice.                                               *)
(***************************************************************************)
EXTENDS WebhookSink

CONSTANTS d1  \* a delivery id

MCOneDelivery == {d1}
=============================================================================
