--------------------------- MODULE MCKeyLifecycle ---------------------------
(* Instance of KeyLifecycle for TLC; every value is in the .cfg files. *)
EXTENDS KeyLifecycle
=============================================================================
