----------------------------- MODULE MCLifecycle -----------------------------
(***************************************************************************)
(* Small instances of the daemon.                                          *)
(***************************************************************************)
EXTENDS Lifecycle

CONSTANTS c1, c2

=============================================================================
