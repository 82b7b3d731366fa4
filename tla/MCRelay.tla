------------------------------ MODULE MCRelay ------------------------------
(* Instance of Relay for TLC: two occurrences of the biome, one after the other or, on two
   accounts, overlapping; and one after the end of an occurrence the macro never told. *)
EXTENDS Relay, TLC

CONSTANTS h1, h2, consumer, heartbeat

MCStreams == {<<0, 0, 1>>, <<0, 0, 2>>, <<0, Unseen, 0>>}
Symmetry == Permutations(Handler) \cup Permutations(Flusher)
=============================================================================
