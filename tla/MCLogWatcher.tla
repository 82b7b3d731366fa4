---------------------------- MODULE MCLogWatcher ----------------------------
(* Instance of LogWatcher for TLC: two biomes, one log in each of two
   directories. *)
EXTENDS LogWatcher

Spelling == [NORMAL |-> "NORMAL", HELL |-> "HELL"]
Directory == [f \in File |-> IF f = "a.log" THEN "d1" ELSE "d2"]

Rpc(hover) ==
  [marker |-> "rpc", wellFormed |-> TRUE, setsPresence |-> TRUE, hover |-> hover, game |-> "sols"]
MCLines == {Rpc("NORMAL"), Rpc("HELL")}
=============================================================================
