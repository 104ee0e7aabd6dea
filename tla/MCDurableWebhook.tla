--------------------------- MODULE MCDurableWebhook ---------------------------
(***************************************************************************)
(* Small instances of the durable webhook workers.                         *)
(***************************************************************************)
EXTENDS DurableWebhook

CONSTANTS w1, w2

=============================================================================
