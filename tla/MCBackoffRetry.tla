--------------------------- MODULE MCBackoffRetry ---------------------------
(* Instances of BackoffRetry for TLC. *)
EXTENDS BackoffRetry
=============================================================================
