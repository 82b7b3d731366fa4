---- MODULE MCDispatcher ----
(* Instance of Dispatcher for TLC; every value is in the .cfg files. *)
EXTENDS Dispatcher
=============================================================================
