-------------------------- MODULE MCVolatileWebhook --------------------------
(***************************************************************************)
(* Small instances of the volatile webhook workers.                        *)
(***************************************************************************)
EXTENDS VolatileWebhook

CONSTANTS w1, w2

\* Before the same attempt both webhook modes wait equally long.  (deliver's
\* running delay, and DurableEndpoint::retry_delay_ms.)
ASSUME BackoffsAgree == \A n \in 1..max_attempts : delay_after[n] = retry_delay_ms(n + 1)

=============================================================================
