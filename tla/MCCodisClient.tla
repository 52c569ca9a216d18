--------------------------- MODULE MCCodisClient ---------------------------
(* Instances of CodisClient for TLC: the model values are in the .cfg files. *)
EXTENDS CodisClient
=============================================================================
