---- MODULE MCNetWorker ----
(* Instance of NetWorker for TLC; the second event is one the server rejects. *)
EXTENDS NetWorker
PoisonedEvents == {2}
NoPoison == {}
=============================================================================
