---- MODULE MCConfigSync ----
(* Instance of ConfigSync for TLC; every value is in the .cfg files. *)
EXTENDS ConfigSync
=============================================================================
