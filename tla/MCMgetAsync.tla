---------------------------- MODULE MCMgetAsync ----------------------------
(* Instances of MgetAsync for TLC. *)
EXTENDS MgetAsync
=============================================================================
