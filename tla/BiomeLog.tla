------------------------------ MODULE BiomeLog ------------------------------
(***************************************************************************)
(* macro/biomebeacon/detection/parser.py and engine.py: what one line of a *)
(* Roblox log does to the state of its instance, as operators.             *)
(*                                                                         *)
(* A raw line is a record of what the parser looks at.  Of the text of a   *)
(* hoverText only strip().upper() matters: Canonical maps each text to the *)
(* biome it names, or to NoBiome when it is blank or absent.               *)
(***************************************************************************)
EXTENDS Integers, Sequences

CONSTANTS
  Biome,      \* upper-case biome names
  HoverText,  \* texts of data.largeImage.hoverText
  Canonical,  \* [HoverText -> Biome \cup {NoBiome}]
  Place,      \* Roblox place ids
  User,       \* Roblox user ids
  Lines,      \* the raw lines that occur
  NoBiome, NoUser

ASSUME CanonicalAssumption ==
  /\ Canonical \in [HoverText -> Biome \cup {NoBiome}]
  /\ NoBiome \notin Biome /\ NoUser \notin User

\* What data.smallImage.hoverText says: "Sol's RNG", something else, nothing.
Game == {"sols", "other", "absent"}

\* Lines with a marker.  `wellFormed`: a JSON object follows [BloxstrapRPC], and
\* a placeid follows [FLog::GameJoinLoadTime].  An object whose parts are of other types
\* is no raw line here: parse_line raises, which LogWatcher!FeedFails follows.
RpcLine == [marker : {"rpc"}, wellFormed : BOOLEAN, setsPresence : BOOLEAN,
            hover : HoverText, game : Game]
JoinLine == [marker : {"join"}, wellFormed : BOOLEAN, place : Place, user : User \cup {NoUser}]
NoiseLine == [marker : {"none"}]
RawLine == RpcLine \cup JoinLine \cup NoiseLine

ASSUME LinesAssumption == Lines \subseteq RawLine

Unparsed == [kind |-> "none"]

\* Mutant: without `if not biome`.
ParseLine_BlankBiome(line) ==
  CASE line.marker = "rpc" /\ line.wellFormed /\ line.setsPresence
         -> [kind |-> "rpc", biome |-> Canonical[line.hover], game |-> line.game]
    [] line.marker = "join" /\ line.wellFormed
         -> [kind |-> "join", place |-> line.place, user |-> line.user]
    [] OTHER -> Unparsed

\* parse_line
ParseLine(line) ==
  CASE /\ line.marker = "rpc" /\ line.wellFormed /\ line.setsPresence
       /\ Canonical[line.hover] # NoBiome
         -> [kind |-> "rpc", biome |-> Canonical[line.hover], game |-> line.game]
    [] line.marker = "join" /\ line.wellFormed
         -> [kind |-> "join", place |-> line.place, user |-> line.user]
    [] OTHER -> Unparsed

-----------------------------------------------------------------------------
(* InstanceState; the fields nothing reads (biome_since, place_id) are left out. *)

InstanceState ==
  [known : BOOLEAN, biome : Biome \cup {NoBiome}, user : User \cup {NoUser},
   in_target_game : BOOLEAN]

\* An instance the dict does not hold.
Absent == [known |-> FALSE, biome |-> NoBiome, user |-> NoUser, in_target_game |-> FALSE]

Event == [type : {"started", "ended"}, biome : Biome, user : User \cup {NoUser}]

\* setdefault: only a line that parses creates the instance.
Current(state) == [state EXCEPT !.known = TRUE]

\* A GameJoin line.
AfterJoin(state, join, place_ids) ==
  [state EXCEPT !.user = IF join.user = NoUser THEN @ ELSE join.user,
                !.in_target_game = place_ids = {} \/ join.place \in place_ids]

\* Mutant: anonymous RPCs count before the game was ever seen.
Admitted_NoGate(state, rpc) == rpc.game # "other"

\* The gate before an RPC: the game names itself, or the instance was identified.
Admitted(state, rpc) == rpc.game = "sols" \/ (rpc.game = "absent" /\ state.in_target_game)

AfterRpc(state, rpc) ==
  [state EXCEPT !.biome = rpc.biome,
                !.in_target_game = @ \/ rpc.game = "sols"]

Ended(state) ==
  IF state.biome = NoBiome THEN <<>>
  ELSE <<[type |-> "ended", biome |-> state.biome, user |-> state.user]>>

\* Mutant: the new biome is announced before the end of the old one.
Transition_Swapped(state, rpc) ==
  IF rpc.biome = state.biome THEN <<>>
  ELSE <<[type |-> "started", biome |-> rpc.biome, user |-> state.user]>> \o Ended(state)

\* The events of an admitted RPC: nothing when the biome is the same.
Transition(state, rpc) ==
  IF rpc.biome = state.biome THEN <<>>
  ELSE Append(Ended(state),
              [type |-> "started", biome |-> rpc.biome, user |-> state.user])

\* process_line: the new state of the instance and the events it returns.
ProcessLine(state, line, place_ids) ==
  LET parsed == ParseLine(line)
      at == Current(state)
  IN  CASE parsed.kind = "none" -> [state |-> state, events |-> <<>>]
        [] parsed.kind = "join" ->
             [state |-> AfterJoin(at, parsed, place_ids), events |-> <<>>]
        [] parsed.kind = "rpc" /\ Admitted(at, parsed) ->
             [state |-> AfterRpc(at, parsed), events |-> Transition(at, parsed)]
        [] OTHER -> [state |-> at, events |-> <<>>]
=============================================================================
