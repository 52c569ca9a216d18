---------------------------- MODULE MCBfdCodisPy ----------------------------
(* Instances of BfdCodisPy for TLC. *)
EXTENDS BfdCodisPy
=============================================================================
