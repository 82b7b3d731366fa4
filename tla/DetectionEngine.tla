--------------------------- MODULE DetectionEngine ---------------------------
(***************************************************************************)
(* macro/biomebeacon/detection/engine.py: the DetectionEngine object, fed  *)
(* by the watcher thread while the network thread replaces its place_ids   *)
(* and the UI thread clears its instances.                                 *)
(*                                                                         *)
(* log and emitted are history variables of the current life of each       *)
(* instance: the lines it was fed, each with the place ids of that moment, *)
(* and the events they produced.                                           *)
(***************************************************************************)
EXTENDS BiomeLog, FiniteSetsExt, SequencesExt

CONSTANTS
  Instance,    \* log file names
  PlaceLists,  \* the lists of place ids the server's settings may hold
  MaxLines     \* bound on the lines of one life

ASSUME EngineAssumption ==
  PlaceLists \subseteq SUBSET Place /\ MaxLines \in Nat

VARIABLES
  place_ids,  \* place_ids
  instances,  \* [Instance -> its InstanceState]
  log,        \* history: [Instance -> Seq of the lines fed]
  emitted     \* history: [Instance -> Seq of the events returned]

vars == <<place_ids, instances, log, emitted>>

\* Types.
TypeOK ==
  /\ place_ids \subseteq Place
  /\ instances \in [Instance -> InstanceState]
  /\ log \in [Instance -> Seq([line : Lines, place_ids : SUBSET Place])]
  /\ emitted \in [Instance -> Seq(Event)]

Init ==
  /\ place_ids = {}
  /\ instances = [i \in Instance |-> Absent]
  /\ log = [i \in Instance |-> <<>>]
  /\ emitted = [i \in Instance |-> <<>>]

\* process_line(i, line).  A join reads place_ids twice, here in one step: left out is
\* a list that the network thread empties in between, which no place is in.
Feed(i, line) ==
  /\ Len(log[i]) < MaxLines
  /\ LET result == ProcessLine(instances[i], line, place_ids) IN
       /\ instances' = [instances EXCEPT ![i] = result.state]
       /\ emitted' = [emitted EXCEPT ![i] = @ \o result.events]
  /\ log' = [log EXCEPT ![i] = Append(@, [line |-> line, place_ids |-> place_ids])]
  /\ UNCHANGED place_ids

Forget(gone) ==
  /\ instances' = [i \in Instance |-> IF i \in gone THEN Absent ELSE instances[i]]
  /\ log' = [i \in Instance |-> IF i \in gone THEN <<>> ELSE log[i]]
  /\ emitted' = [i \in Instance |-> IF i \in gone THEN <<>> ELSE emitted[i]]
  /\ UNCHANGED place_ids

\* drop_instance(i): the log went quiet.  No synthetic `ended`.
DropInstance(i) == instances[i].known /\ Forget({i})

\* instances.clear() of set_log_dir.
ClearInstances == Forget(Instance)

\* on_place_ids of the network thread, after a config fetch.
SetPlaceIds ==
  /\ place_ids' \in PlaceLists
  /\ UNCHANGED <<instances, log, emitted>>

Next ==
  \/ \E i \in Instance : DropInstance(i) \/ \E line \in Lines : Feed(i, line)
  \/ ClearInstances
  \/ SetPlaceIds

Spec == Init /\ [][Next]_vars

-----------------------------------------------------------------------------
(* Properties: the incremental engine against a definition over the whole log. *)

Parsed(i, k) == ParseLine(log[i][k].line)

\* Entries of log i that say which game the client is in: joins, and RPCs of the
\* game itself.
Identifies(i, k) ==
  \/ Parsed(i, k).kind = "join"
  \/ Parsed(i, k).kind = "rpc" /\ Parsed(i, k).game = "sols"

SaysTarget(i, k) ==
  \/ Parsed(i, k).kind = "rpc"
  \/ log[i][k].place_ids = {} \/ Parsed(i, k).place \in log[i][k].place_ids

\* The RPC entries that count: named by the game, or anonymous and after an entry
\* that put the client in the game, with none that took it out since.
Counts(i, k) ==
  /\ Parsed(i, k).kind = "rpc"
  /\ \/ Parsed(i, k).game = "sols"
     \/ /\ Parsed(i, k).game = "absent"
        /\ \E j \in 1..(k - 1) :
             /\ Identifies(i, j) /\ SaysTarget(i, j)
             /\ \A m \in (j + 1)..(k - 1) : ~Identifies(i, m)

Counted(i) == {k \in 1..Len(log[i]) : Counts(i, k)}

\* The counted entries whose biome differs from the counted one before.
Changes(i) ==
  {k \in Counted(i) :
     LET before == {j \in Counted(i) : j < k} IN
     before = {} \/ Parsed(i, Max(before)).biome # Parsed(i, k).biome}

\* The account of the last join before entry k that names one.
UserAt(i, k) ==
  LET joins == {j \in 1..(k - 1) : Parsed(i, j).kind = "join" /\ Parsed(i, j).user # NoUser}
  IN  IF joins = {} THEN NoUser ELSE Parsed(i, Max(joins)).user

\* The members of a finite set of numbers, in order.
InOrder(S) == {s \in [1..Cardinality(S) -> S] : \A j, k \in DOMAIN s : j < k => s[j] < s[k]}

\* The events of a life are exactly the changes of biome of its log: one `started`
\* for the first, `ended` of the old then `started` of the new for each later
\* one, under the account that was then logged in.
StreamMatches ==
  \A i \in Instance : \E change \in InOrder(Changes(i)) :
    LET n == Cardinality(Changes(i))
        at(k) == Parsed(i, change[k]).biome
        user(k) == UserAt(i, change[k])
    IN  /\ Len(emitted[i]) = IF n = 0 THEN 0 ELSE 2 * n - 1
        /\ \A k \in 1..n :
             emitted[i][2 * k - 1] = [type |-> "started", biome |-> at(k), user |-> user(k)]
        /\ \A k \in 1..(n - 1) :
             emitted[i][2 * k] = [type |-> "ended", biome |-> at(k), user |-> user(k + 1)]

\* Two biomes never run at once in one life: whoever reads the events sees each
\* `started` closed by the `ended` of the same biome before the next `started`,
\* and the last one still open is the biome the engine holds.
StreamAlternates ==
  \A i \in Instance :
    LET s == emitted[i] IN
    /\ \A k \in 1..Len(s) : s[k].type = IF k % 2 = 1 THEN "started" ELSE "ended"
    /\ \A k \in 1..(Len(s) - 1) : s[k].type = "started" => s[k + 1].biome = s[k].biome
    /\ s # <<>> => /\ Last(s).type = "started"
                   /\ Last(s).biome = instances[i].biome
    /\ s = <<>> => instances[i].biome = NoBiome
=============================================================================
