------------------------- MODULE MCDetectionEngine -------------------------
(* Instance of DetectionEngine for TLC: every kind of line the parser tells
   apart, two biomes (one also in lower case), two places, one account. *)
EXTENDS DetectionEngine

Spelling == [NORMAL |-> "NORMAL", normal |-> "NORMAL", HELL |-> "HELL", blank |-> ""]

Rpc(hover, game) ==
  [marker |-> "rpc", wellFormed |-> TRUE, setsPresence |-> TRUE, hover |-> hover, game |-> game]
Join(place, user) ==
  [marker |-> "join", wellFormed |-> TRUE, place |-> place, user |-> user]

MCPlaceLists == {{}, {1}}

MCLines ==
  {Rpc("NORMAL", "sols"), Rpc("normal", "absent"), Rpc("HELL", "absent"),
   Rpc("HELL", "sols"), Rpc("HELL", "other"), Rpc("blank", "sols"),
   [Rpc("HELL", "sols") EXCEPT !.wellFormed = FALSE],
   [Rpc("HELL", "sols") EXCEPT !.setsPresence = FALSE],
   Join(1, "u"), Join(2, ""), [Join(1, "u") EXCEPT !.wellFormed = FALSE],
   [marker |-> "none"]}
=============================================================================
