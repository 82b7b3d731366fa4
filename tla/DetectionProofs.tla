--------------------------- MODULE DetectionProofs ---------------------------
(***************************************************************************)
(* Proofs about macro/biomebeacon/detection: DetectionEngine and           *)
(* LogWatcher, for any set of lines, biomes, places, instances and files.  *)
(*                                                                         *)
(* Of the engine, first StreamAlternates, inductive together with the      *)
(* types; then StreamMatches, from an invariant that says what each field  *)
(* of an InstanceState remembers of the log: the gate (GateMoves), the     *)
(* account (UserMoves), the biome (BiomeMoves), and the events told        *)
(* (ToldMore).  Of the watcher, its types and ReadsEachLineOnce, from the  *)
(* invariant WatcherIInv, and ToldInTurn, which puts the two together.     *)
(***************************************************************************)
EXTENDS DetectionEngine, LogWatcher, SequenceTheorems, FiniteSetTheorems,
        WellFoundedInduction, TLAPS

\* What the parser returns.
LEMMA ParseTyped ==
  ASSUME NEW line \in RawLine
  PROVE  LET p == ParseLine(line) IN
         \/ p.kind = "none"
         \/ p.kind = "join" /\ p.place \in Place /\ p.user \in User \cup {NoUser}
         \/ p.kind = "rpc" /\ p.biome \in Biome /\ p.game \in Game
<1>1. CASE line \in RpcLine
  BY <1>1, CanonicalAssumption DEF ParseLine, RpcLine, Unparsed
<1>2. CASE line \in JoinLine
  BY <1>2 DEF ParseLine, JoinLine, Unparsed
<1>3. CASE line \in NoiseLine
  BY <1>3 DEF ParseLine, NoiseLine, Unparsed
<1> QED
  BY <1>1, <1>2, <1>3 DEF RawLine

\* What a line may do to an instance and to its stream: the biome stays and there is
\* no event, or `started` of the new biome, after `ended` of the old if there was one.
Begins(new, b, u) == new.biome = b /\ b \in Biome /\ u \in User \cup {NoUser}
Start(b, u) == [type |-> "started", biome |-> b, user |-> u]
End(b, u) == [type |-> "ended", biome |-> b, user |-> u]
Effect(old, new, events) ==
  \/ events = <<>> /\ new.biome = old.biome
  \/ \E b, u : Begins(new, b, u) /\ old.biome = NoBiome /\ events = <<Start(b, u)>>
  \/ \E b, u : /\ Begins(new, b, u) /\ old.biome # NoBiome
               /\ events = <<End(old.biome, u), Start(b, u)>>

LEMMA AppendOne ==
  ASSUME NEW S, NEW x \in S, NEW y \in S
  PROVE  Append(<<x>>, y) = <<x, y>>
<1>1. <<x>> \in Seq(S) /\ Len(<<x>>) = 1 /\ <<x>>[1] = x
  OBVIOUS
<1>2. <<x, y>> \in Seq(S) /\ Len(<<x, y>>) = 2 /\ <<x, y>>[1] = x /\ <<x, y>>[2] = y
  OBVIOUS
<1>3. Append(<<x>>, y) \in Seq(S) /\ Len(Append(<<x>>, y)) = 2
      /\ Append(<<x>>, y)[1] = x /\ Append(<<x>>, y)[2] = y
  BY <1>1, AppendProperties
<1> DEFINE a == Append(<<x>>, y)  b == <<x, y>>
<1>4. a \in Seq(S) /\ b \in Seq(S) /\ Len(a) = 2 /\ Len(b) = 2 /\ a[1] = b[1] /\ a[2] = b[2]
  BY <1>2, <1>3
<1> HIDE DEF a, b
<1>5. \A i \in 1..Len(a) : a[i] = b[i]
  BY <1>4
<1>6. a = b
  BY <1>4, <1>5, SeqEqual
<1> QED
  BY <1>6 DEF a, b

LEMMA RpcEffect ==
  ASSUME NEW at \in InstanceState, NEW p, p.biome \in Biome
  PROVE  /\ AfterRpc(at, p) \in InstanceState
         /\ Effect(at, AfterRpc(at, p), Transition(at, p))
<1>1. AfterRpc(at, p) \in InstanceState /\ AfterRpc(at, p).biome = p.biome
  BY DEF AfterRpc, InstanceState
<1>2. Begins(AfterRpc(at, p), p.biome, at.user)
  BY <1>1 DEF Begins, InstanceState
<1>3. CASE p.biome = at.biome
  BY <1>1, <1>3 DEF Effect, Transition
<1>4. CASE p.biome # at.biome /\ at.biome = NoBiome
  <2>1. Transition(at, p) = <<Start(p.biome, at.user)>>
    BY <1>4 DEF Transition, Ended, Start
  <2> QED
    BY <1>1, <1>2, <1>4, <2>1 DEF Effect
<1>5. CASE p.biome # at.biome /\ at.biome # NoBiome
  <2>1. Transition(at, p) = <<End(at.biome, at.user), Start(p.biome, at.user)>>
    <3>1. Transition(at, p) = Append(<<End(at.biome, at.user)>>, Start(p.biome, at.user))
      BY <1>5 DEF Transition, Ended, Start, End
    <3>2. End(at.biome, at.user) \in Event /\ Start(p.biome, at.user) \in Event
      BY <1>5 DEF InstanceState, Start, End, Event
    <3> QED
      BY <3>1, AppendOne, <3>2
  <2> QED
    BY <1>1, <1>2, <1>5, <2>1 DEF Effect
<1> QED
  BY <1>3, <1>4, <1>5

LEMMA LineEffect ==
  ASSUME NEW state \in InstanceState, NEW line \in RawLine, NEW ids
  PROVE  /\ ProcessLine(state, line, ids).state \in InstanceState
         /\ Effect(state, ProcessLine(state, line, ids).state,
                   ProcessLine(state, line, ids).events)
<1> DEFINE p == ParseLine(line)
           at == Current(state)
<1>1. at \in InstanceState /\ at.biome = state.biome
  BY DEF Current, InstanceState
<1>2. CASE p.kind = "none"
  <2>1. ProcessLine(state, line, ids) = [state |-> state, events |-> <<>>]
    BY <1>2 DEF ProcessLine
  <2> QED
    BY <2>1 DEF Effect
<1>3. CASE p.kind = "join" /\ p.user \in User \cup {NoUser}
  <2>1. ProcessLine(state, line, ids) = [state |-> AfterJoin(at, p, ids), events |-> <<>>]
    BY <1>3 DEF ProcessLine
  <2>2. AfterJoin(at, p, ids) \in InstanceState /\ AfterJoin(at, p, ids).biome = at.biome
    BY <1>1, <1>3 DEF AfterJoin, InstanceState
  <2> QED
    BY <1>1, <2>1, <2>2 DEF Effect
<1>4. CASE p.kind = "rpc" /\ ~Admitted(at, p)
  <2>1. ProcessLine(state, line, ids) = [state |-> at, events |-> <<>>]
    BY <1>4 DEF ProcessLine
  <2> QED
    BY <1>1, <2>1 DEF Effect
<1>5. CASE p.kind = "rpc" /\ p.biome \in Biome /\ Admitted(at, p)
  <2>1. ProcessLine(state, line, ids)
          = [state |-> AfterRpc(at, p), events |-> Transition(at, p)]
    BY <1>5 DEF ProcessLine
  <2> HIDE DEF p, at
  <2>2. AfterRpc(at, p) \in InstanceState /\ Effect(at, AfterRpc(at, p), Transition(at, p))
    BY <1>1, <1>5, RpcEffect
  <2> QED
    BY <1>1, <2>1, <2>2 DEF Effect
<1> QED
  BY <1>2, <1>3, <1>4, <1>5, ParseTyped

\* The stream of one instance, given the state the engine holds for it.
Sound(s, state) ==
  /\ s \in Seq(Event)
  /\ \A k \in 1..Len(s) : s[k].type = IF k % 2 = 1 THEN "started" ELSE "ended"
  /\ \A k \in 1..(Len(s) - 1) : s[k].type = "started" => s[k + 1].biome = s[k].biome
  /\ s # <<>> => s[Len(s)].type = "started" /\ s[Len(s)].biome = state.biome
  /\ s = <<>> => state.biome = NoBiome

LEMMA SoundEmpty == Sound(<<>>, Absent)
BY DEF Sound, Absent

LEMMA SoundStep ==
  ASSUME NEW old \in InstanceState, NEW new, NEW events, Effect(old, new, events),
         NEW s, Sound(s, old)
  PROVE  Sound(s \o events, new)
<1>0. s \in Seq(Event) /\ Len(s) \in Nat
  BY DEF Sound
<1>1. CASE events = <<>> /\ new.biome = old.biome
  <2>1. s \o events = s
    BY <1>0, <1>1
  <2> QED
    BY <1>1, <2>1 DEF Sound
<1>2. ASSUME NEW b, NEW u, Begins(new, b, u), old.biome = NoBiome, events = <<Start(b, u)>>
      PROVE  Sound(s \o events, new)
  <2>1. s = <<>>
    <3> SUFFICES ASSUME s # <<>> PROVE FALSE
      OBVIOUS
    <3>1. Len(s) \in 1..Len(s) /\ s[Len(s)] \in Event /\ s[Len(s)].biome = NoBiome
      BY <1>0, <1>2, EmptySeq, ElementOfSeq DEF Sound
    <3> QED
      BY <3>1, CanonicalAssumption DEF Event
  <2>2. /\ s \o events \in Seq(Event) /\ Len(s \o events) = 1
        /\ (s \o events)[1] = Start(b, u)
    <3>1. Start(b, u) \in Event
      BY <1>2 DEF Begins, Start, Event
    <3> QED
      BY <1>2, <2>1, <3>1
  <2>3. Start(b, u).type = "started" /\ Start(b, u).biome = new.biome
    BY <1>2 DEF Begins, Start
  <2> QED
    BY <2>2, <2>3 DEF Sound
<1>3. ASSUME NEW b, NEW u, Begins(new, b, u), old.biome # NoBiome,
             events = <<End(old.biome, u), Start(b, u)>>
      PROVE  Sound(s \o events, new)
  <2> DEFINE t == s \o events  n == Len(s)
  <2>1. s # <<>> /\ n \in Nat \ {0} /\ s[n].type = "started" /\ s[n].biome = old.biome
    BY <1>0, <1>3, EmptySeq DEF Sound
  <2>2. n % 2 = 1
    BY <1>0, <2>1 DEF Sound
  <2>3. Start(b, u) \in Event /\ End(old.biome, u) \in Event
    BY <1>3 DEF InstanceState, Begins, Start, End, Event
  <2>4. /\ t \in Seq(Event) /\ Len(t) = n + 2
        /\ \A k \in 1..n : t[k] = s[k]
        /\ t[n + 1] = End(old.biome, u)
        /\ t[n + 2] = Start(b, u)
    <3>1. events \in Seq(Event) /\ Len(events) = 2
      BY <1>3, <2>3
    <3> QED
      BY <1>0, <1>3, <3>1
  <2>5. /\ \A k \in 1..n : t[k].type = IF k % 2 = 1 THEN "started" ELSE "ended"
        /\ \A k \in 1..(n - 1) : t[k].type = "started" => t[k + 1].biome = t[k].biome
    BY <1>0, <2>4 DEF Sound
  <2>6. /\ t[n].biome = old.biome
        /\ t[n + 1].type = "ended" /\ t[n + 1].biome = old.biome
        /\ t[n + 2].type = "started" /\ t[n + 2].biome = new.biome
    BY <1>3, <2>1, <2>4 DEF Begins, Start, End
  <2>7. n \in Nat \ {0}
    BY <2>1
  <2> HIDE DEF t, n
  <2>8. (n + 1) % 2 = 0 /\ (n + 2) % 2 = 1
    BY <2>2, <2>7
  <2>9. ASSUME NEW k \in 1..(n + 2)
        PROVE  t[k].type = IF k % 2 = 1 THEN "started" ELSE "ended"
    <3>1. k \in 1..n \/ k = n + 1 \/ k = n + 2
      BY <2>7
    <3> QED
      BY <3>1, <2>5, <2>6, <2>8
  <2>10. ASSUME NEW k \in 1..(n + 1), t[k].type = "started"
         PROVE  t[k + 1].biome = t[k].biome
    <3>1. k \in 1..(n - 1) \/ k = n \/ k = n + 1
      BY <2>7
    <3> QED
      BY <3>1, <2>5, <2>6, <2>10
  <2>11. t # <<>>
    BY <2>4, <2>7, EmptySeq
  <2>12. (n + 2) - 1 = n + 1
    BY <2>7
  <2>13. Sound(t, new)
    BY <2>4, <2>6, <2>9, <2>10, <2>11, <2>12 DEF Sound
  <2> QED
    BY <2>13 DEF t
<1> QED
  BY <1>1, <1>2, <1>3 DEF Effect

-----------------------------------------------------------------------------

IInv ==
  /\ TypeOK
  /\ \A i \in Instance : Sound(emitted[i], instances[i])

LEMMA InitInductive == Init => IInv
BY DEF Init, IInv, TypeOK, Sound, Absent, InstanceState

LEMMA FeedStep ==
  ASSUME IInv, NEW i \in Instance, NEW line \in Lines, Feed(i, line)
  PROVE  IInv'
<1> DEFINE r == ProcessLine(instances[i], line, place_ids)
           entry == [line |-> line, place_ids |-> place_ids]
<1>1. line \in RawLine /\ place_ids \in SUBSET Place /\ instances[i] \in InstanceState
  BY LinesAssumption DEF IInv, TypeOK
<1>2. /\ instances' = [instances EXCEPT ![i] = r.state]
      /\ emitted' = [emitted EXCEPT ![i] = emitted[i] \o r.events]
      /\ log' = [log EXCEPT ![i] = Append(log[i], entry)]
      /\ place_ids' = place_ids
  BY DEF Feed
<1>3. r.state \in InstanceState /\ Effect(instances[i], r.state, r.events)
  BY <1>1, LineEffect
<1> HIDE DEF r
<1>4. Sound(emitted[i] \o r.events, r.state)
  BY <1>1, <1>3, SoundStep DEF IInv
<1>5. emitted[i] \o r.events \in Seq(Event)
  BY <1>4 DEF Sound
<1>6. Append(log[i], entry) \in Seq([line : Lines, place_ids : SUBSET Place])
  <2>1. entry \in [line : Lines, place_ids : SUBSET Place]
    BY <1>1
  <2>2. log[i] \in Seq([line : Lines, place_ids : SUBSET Place])
    BY DEF IInv, TypeOK
  <2> HIDE DEF entry
  <2> QED
    BY <2>1, <2>2, AppendProperties
<1> HIDE DEF entry
<1>7. TypeOK'
  BY <1>2, <1>3, <1>5, <1>6 DEF IInv, TypeOK
<1>8. ASSUME NEW q \in Instance PROVE Sound(emitted'[q], instances'[q])
  <2>1. CASE q = i
    <3>1. emitted'[q] = emitted[i] \o r.events /\ instances'[q] = r.state
      BY <2>1, <1>2 DEF IInv, TypeOK
    <3> QED
      BY <3>1, <1>4
  <2>2. CASE q # i
    <3>1. emitted'[q] = emitted[q] /\ instances'[q] = instances[q]
      BY <2>2, <1>2 DEF IInv, TypeOK
    <3> QED
      BY <3>1 DEF IInv
  <2> QED
    BY <2>1, <2>2
<1> QED
  BY <1>7, <1>8 DEF IInv, Sound

LEMMA ForgetStep ==
  ASSUME IInv, NEW gone, Forget(gone)
  PROVE  IInv'
<1>1. ASSUME NEW i \in Instance
      PROVE  /\ log'[i] = <<>> \/ log'[i] = log[i]
             /\ \/ instances'[i] = Absent /\ emitted'[i] = <<>>
                \/ instances'[i] = instances[i] /\ emitted'[i] = emitted[i]
  BY DEF Forget
<1>2. ASSUME NEW i \in Instance PROVE Sound(emitted'[i], instances'[i])
  BY <1>1, SoundEmpty DEF IInv
<1>3. TypeOK'
  <2>1. Absent \in InstanceState
    BY DEF Absent, InstanceState
  <2>2. ASSUME NEW i \in Instance
        PROVE  /\ instances'[i] \in InstanceState /\ emitted'[i] \in Seq(Event)
               /\ log'[i] \in Seq([line : Lines, place_ids : SUBSET Place])
    <3> DEFINE Entry == [line : Lines, place_ids : SUBSET Place]
    <3>1. /\ instances[i] \in InstanceState /\ emitted[i] \in Seq(Event)
          /\ log[i] \in Seq(Entry)
      BY DEF IInv, TypeOK
    <3>2. <<>> \in Seq(Event) /\ <<>> \in Seq(Entry)
      BY EmptySeq
    <3> HIDE DEF Entry
    <3>3. instances'[i] \in InstanceState /\ emitted'[i] \in Seq(Event) /\ log'[i] \in Seq(Entry)
      BY <1>1, <2>1, <3>1, <3>2
    <3> QED
      BY <3>3 DEF Entry
  <2>3. /\ instances' = [i \in Instance |-> instances'[i]]
        /\ emitted' = [i \in Instance |-> emitted'[i]]
        /\ log' = [i \in Instance |-> log'[i]]
    BY Zenon DEF Forget
  <2>4. place_ids' \subseteq Place
    BY DEF IInv, TypeOK, Forget
  <2> QED
    BY <2>2, <2>3, <2>4 DEF TypeOK
<1> QED
  BY <1>2, <1>3 DEF IInv, Sound

LEMMA Inductive == Spec => []IInv
<1>1. ASSUME IInv, [Next]_vars PROVE IInv'
  <2>1. ASSUME NEW i \in Instance, DropInstance(i) PROVE IInv'
    BY <1>1, <2>1, ForgetStep DEF DropInstance
  <2>2. CASE ClearInstances
    BY <1>1, <2>2, ForgetStep DEF ClearInstances
  <2>3. CASE SetPlaceIds
    BY <1>1, <2>3, EngineAssumption DEF SetPlaceIds, IInv, TypeOK, Sound
  <2>4. CASE UNCHANGED vars
    BY <1>1, <2>4 DEF vars, IInv, TypeOK, Sound
  <2> QED
    BY <1>1, <2>1, <2>2, <2>3, <2>4, FeedStep DEF Next
<1> QED
  BY <1>1, InitInductive, PTL DEF Spec

\* Type correctness.
THEOREM TypeCorrect == Spec => []TypeOK
<1>1. IInv => TypeOK
  BY DEF IInv
<1> QED
  BY <1>1, Inductive, PTL

\* Whatever lines come, in whatever order, and whenever place_ids change or an
\* instance is forgotten: the events of a life alternate, every `ended` names the
\* biome that was open, and the one left open is the biome the engine holds.
THEOREM EventsAlternate == Spec => []StreamAlternates
<1>1. ASSUME IInv PROVE StreamAlternates
  <2> SUFFICES ASSUME NEW i \in Instance
               PROVE  LET s == emitted[i] IN
                 /\ \A k \in 1..Len(s) : s[k].type = IF k % 2 = 1 THEN "started" ELSE "ended"
                 /\ \A k \in 1..(Len(s) - 1) :
                      s[k].type = "started" => s[k + 1].biome = s[k].biome
                 /\ s # <<>> => /\ Last(s).type = "started"
                                /\ Last(s).biome = instances[i].biome
                 /\ s = <<>> => instances[i].biome = NoBiome
    BY DEF StreamAlternates
  <2> QED
    BY <1>1 DEF IInv, Sound, Last
<1> QED
  BY <1>1, Inductive, PTL

-----------------------------------------------------------------------------
(* What the state of an instance remembers of its log. *)

\* The first n entries say that the client is in the game.
InGame(i, n) ==
  \E j \in 1..n : /\ Identifies(i, j) /\ SaysTarget(i, j)
                  /\ \A m \in (j + 1)..n : ~Identifies(i, m)

NamesUser(i, k) == Parsed(i, k).kind = "join" /\ Parsed(i, k).user # NoUser

\* u is the account of the last of the first n entries that names one.
LastUser(i, n, u) ==
  \/ u = NoUser /\ \A j \in 1..n : ~NamesUser(i, j)
  \/ \E m \in 1..n : /\ NamesUser(i, m) /\ u = Parsed(i, m).user
                     /\ \A j \in (m + 1)..n : ~NamesUser(i, j)

\* b is the biome of the last counted entry.
LastBiome(i, b) ==
  \/ Counted(i) = {} /\ b = NoBiome
  \/ \E m \in Counted(i) : b = Parsed(i, m).biome /\ \A j \in Counted(i) : j <= m

\* s tells of n biomes, each with the account under which it began; the last one is b.
Tells(s, n, biome, user, b) ==
  /\ Len(s) = IF n = 0 THEN 0 ELSE 2 * n - 1
  /\ \A k \in 1..n : s[2 * k - 1] = Start(biome[k], user[k])
  /\ \A k \in 1..(n - 1) : s[2 * k] = End(biome[k], user[k + 1])
  /\ b = IF n = 0 THEN NoBiome ELSE biome[n]

BiomesOf(i, n, change) == [k \in 1..n |-> Parsed(i, change[k]).biome]
UsersOf(i, n, change) == [k \in 1..n |-> UserAt(i, change[k])]

\* The events of i are those of these changes, the last one to the biome b.
Told(i, change, b) ==
  LET n == Cardinality(Changes(i)) IN
  /\ change \in InOrder(Changes(i))
  /\ Tells(emitted[i], n, BiomesOf(i, n, change), UsersOf(i, n, change), b)

Remembers(i) ==
  /\ instances[i].in_target_game <=> InGame(i, Len(log[i]))
  /\ LastUser(i, Len(log[i]), instances[i].user)
  /\ LastBiome(i, instances[i].biome)
  /\ \E change : Told(i, change, instances[i].biome)

\* The part of the log before the new entry reads as it did.
SamePast(i, n) ==
  /\ n \in Nat /\ Len(log[i]) = n /\ Len(log'[i]) = n + 1
  /\ \A k \in 1..n : /\ Parsed(i, k)' = Parsed(i, k)
                     /\ Identifies(i, k)' <=> Identifies(i, k)
                     /\ SaysTarget(i, k)' <=> SaysTarget(i, k)

LEMMA FedLog ==
  ASSUME IInv, NEW i \in Instance, NEW line \in Lines, Feed(i, line), NEW n, n = Len(log[i])
  PROVE  /\ SamePast(i, n)
         /\ log'[i][n + 1] = [line |-> line, place_ids |-> place_ids]
         /\ instances'[i] = ProcessLine(instances[i], line, place_ids).state
         /\ emitted'[i] = emitted[i] \o ProcessLine(instances[i], line, place_ids).events
         /\ \A q \in Instance : q # i => /\ log'[q] = log[q] /\ instances'[q] = instances[q]
                                         /\ emitted'[q] = emitted[q]
<1> DEFINE entry == [line |-> line, place_ids |-> place_ids]
<1>1. /\ log' = [log EXCEPT ![i] = Append(log[i], entry)]
      /\ instances' = [instances EXCEPT ![i] = ProcessLine(instances[i], line, place_ids).state]
      /\ emitted' = [emitted EXCEPT ![i] = emitted[i] \o ProcessLine(instances[i], line, place_ids).events]
  BY DEF Feed
<1>2. entry \in [line : Lines, place_ids : SUBSET Place]
  BY DEF IInv, TypeOK
<1> HIDE DEF entry
<1>3. log[i] \in Seq([line : Lines, place_ids : SUBSET Place])
  BY DEF IInv, TypeOK
<1>4. /\ log'[i] = Append(log[i], entry)
      /\ \A q \in Instance : q # i => /\ log'[q] = log[q] /\ instances'[q] = instances[q]
                                      /\ emitted'[q] = emitted[q]
  BY <1>1 DEF IInv, TypeOK
<1>5. /\ n \in Nat /\ Len(log'[i]) = n + 1 /\ log'[i][n + 1] = entry
      /\ \A k \in 1..n : log'[i][k] = log[i][k]
  BY <1>2, <1>3, <1>4, AppendProperties, LenProperties
<1>6. /\ instances'[i] = ProcessLine(instances[i], line, place_ids).state
      /\ emitted'[i] = emitted[i] \o ProcessLine(instances[i], line, place_ids).events
  BY <1>1 DEF IInv, TypeOK
<1>7. ASSUME NEW k \in 1..n
      PROVE  /\ Parsed(i, k)' = Parsed(i, k)
             /\ Identifies(i, k)' <=> Identifies(i, k)
             /\ SaysTarget(i, k)' <=> SaysTarget(i, k)
  <2>1. log'[i][k] = log[i][k]
    BY <1>5
  <2> QED
    BY <2>1 DEF Parsed, Identifies, SaysTarget
<1> QED
  BY <1>4, <1>5, <1>6, <1>7 DEF SamePast, entry

\* A line that does not say which game the client is in leaves the gate as it was; one that
\* does sets it.
LEMMA GateMoves ==
  ASSUME NEW i, NEW n, SamePast(i, n)
  PROVE  /\ \A k \in 0..n : InGame(i, k)' <=> InGame(i, k)
         /\ ~Identifies(i, n + 1)' => (InGame(i, n + 1)' <=> InGame(i, n))
         /\ Identifies(i, n + 1)' => (InGame(i, n + 1)' <=> SaysTarget(i, n + 1)')
<1>1. n \in Nat
  BY DEF SamePast
<1>2. ASSUME NEW k \in 0..n PROVE InGame(i, k)' <=> InGame(i, k)
  <2>1. \A j \in 1..k : j \in 1..n /\ \A m \in (j + 1)..k : m \in 1..n
    BY <1>1
  <2> QED
    BY <2>1 DEF InGame, SamePast
<1>3. ASSUME ~Identifies(i, n + 1)' PROVE InGame(i, n + 1)' <=> InGame(i, n)
  <2>1. InGame(i, n)' <=> InGame(i, n)
    BY <1>1, <1>2
  <2>2. ASSUME InGame(i, n)' PROVE InGame(i, n + 1)'
    <3>1. PICK j \in 1..n : /\ Identifies(i, j)' /\ SaysTarget(i, j)'
                            /\ \A m \in (j + 1)..n : ~Identifies(i, m)'
      BY <2>2 DEF InGame
    <3>2. j \in 1..(n + 1) /\ \A m \in (j + 1)..(n + 1) : m \in (j + 1)..n \/ m = n + 1
      BY <1>1
    <3>3. \A m \in (j + 1)..(n + 1) : ~Identifies(i, m)'
      BY <1>3, <3>1, <3>2
    <3> QED
      BY <3>1, <3>2, <3>3 DEF InGame
  <2>3. ASSUME InGame(i, n + 1)' PROVE InGame(i, n)'
    <3>1. PICK j \in 1..(n + 1) : /\ Identifies(i, j)' /\ SaysTarget(i, j)'
                                  /\ \A m \in (j + 1)..(n + 1) : ~Identifies(i, m)'
      BY <2>3 DEF InGame
    <3>2. j # n + 1
      BY <1>3, <3>1
    <3>3. j \in 1..n /\ \A m \in (j + 1)..n : m \in (j + 1)..(n + 1)
      BY <1>1, <3>2
    <3> QED
      BY <3>1, <3>3 DEF InGame
  <2> QED
    BY <2>1, <2>2, <2>3
<1>4. ASSUME Identifies(i, n + 1)' PROVE InGame(i, n + 1)' <=> SaysTarget(i, n + 1)'
  <2>1. n + 1 \in 1..(n + 1) /\ \A m \in ((n + 1) + 1)..(n + 1) : FALSE
    BY <1>1
  <2>2. \A j \in 1..(n + 1) : j = n + 1 \/ n + 1 \in (j + 1)..(n + 1)
    BY <1>1
  <2> QED
    BY <1>4, <2>1, <2>2 DEF InGame
<1> QED
  BY <1>2, <1>3, <1>4

\* The account of a life is that of the last join that named one.
LEMMA UserMoves ==
  ASSUME NEW i, NEW n, SamePast(i, n), NEW u, LastUser(i, n, u)
  PROVE  /\ NamesUser(i, n + 1)' => LastUser(i, n + 1, Parsed(i, n + 1).user)'
         /\ ~NamesUser(i, n + 1)' => LastUser(i, n + 1, u)'
<1>1. n \in Nat /\ \A k \in 1..n : NamesUser(i, k)' <=> NamesUser(i, k)
  BY DEF SamePast, NamesUser
<1>2. n + 1 \in 1..(n + 1) /\ \A m \in ((n + 1) + 1)..(n + 1) : FALSE
  BY <1>1
<1>3. ASSUME ~NamesUser(i, n + 1)' PROVE LastUser(i, n + 1, u)'
  <2>1. CASE u = NoUser /\ \A j \in 1..n : ~NamesUser(i, j)
    <3>1. \A j \in 1..(n + 1) : j \in 1..n \/ j = n + 1
      BY <1>1
    <3> QED
      BY <1>1, <1>3, <2>1, <3>1 DEF LastUser
  <2>2. ASSUME NEW m \in 1..n, NamesUser(i, m), u = Parsed(i, m).user,
               \A j \in (m + 1)..n : ~NamesUser(i, j)
        PROVE  LastUser(i, n + 1, u)'
    <3>1. m \in 1..(n + 1) /\ \A j \in (m + 1)..(n + 1) : (j \in 1..n /\ j \in (m + 1)..n) \/ j = n + 1
      BY <1>1
    <3>2. \A j \in (m + 1)..(n + 1) : ~NamesUser(i, j)'
      BY <1>1, <1>3, <2>2, <3>1
    <3>3. NamesUser(i, m)' /\ u = Parsed(i, m)'.user
      BY <1>1, <2>2 DEF SamePast
    <3> QED
      BY <3>1, <3>2, <3>3 DEF LastUser
  <2> QED
    BY <2>1, <2>2 DEF LastUser
<1> QED
  BY <1>2, <1>3 DEF LastUser

\* An entry counts by what comes before it.
LEMMA CountsBy ==
  ASSUME NEW i, NEW n \in Nat
  PROVE  Counts(i, n + 1) <=> /\ Parsed(i, n + 1).kind = "rpc"
                              /\ \/ Parsed(i, n + 1).game = "sols"
                                 \/ Parsed(i, n + 1).game = "absent" /\ InGame(i, n)
<1>1. (n + 1) - 1 = n
  OBVIOUS
<1> QED
  BY <1>1 DEF Counts, InGame

LEMMA CountsMove ==
  ASSUME NEW i, NEW n, SamePast(i, n)
  PROVE  /\ \A k \in 1..n : Counts(i, k)' <=> Counts(i, k)
         /\ Counted(i) \subseteq 1..n
         /\ Counted(i)' = IF Counts(i, n + 1)' THEN Counted(i) \cup {n + 1} ELSE Counted(i)
<1>1. n \in Nat /\ Len(log[i]) = n /\ Len(log'[i]) = n + 1
  BY DEF SamePast
<1>2. ASSUME NEW k \in 1..n PROVE Counts(i, k)' <=> Counts(i, k)
  <2>1. PICK m \in 0..n : k = m + 1
    <3>1. k - 1 \in 0..n /\ k = (k - 1) + 1
      BY <1>1
    <3> QED
      BY <3>1
  <2>2. InGame(i, m)' <=> InGame(i, m)
    BY GateMoves
  <2>3. Parsed(i, k)' = Parsed(i, k) /\ m \in Nat
    BY <1>1 DEF SamePast
  <2>4. Counts(i, m + 1)' <=> /\ Parsed(i, m + 1)'.kind = "rpc"
                              /\ \/ Parsed(i, m + 1)'.game = "sols"
                                 \/ Parsed(i, m + 1)'.game = "absent" /\ InGame(i, m)'
    <3>1. (m + 1) - 1 = m
      BY <2>3
    <3> QED
      BY <3>1 DEF Counts, InGame
  <2>5. Counts(i, m + 1) <=> /\ Parsed(i, m + 1).kind = "rpc"
                             /\ \/ Parsed(i, m + 1).game = "sols"
                                \/ Parsed(i, m + 1).game = "absent" /\ InGame(i, m)
    BY <2>3, CountsBy
  <2> QED
    BY <2>1, <2>2, <2>3, <2>4, <2>5
<1>3. Counted(i)' = {k \in 1..(n + 1) : Counts(i, k)'}
  BY <1>1 DEF Counted
<1>4. Counted(i) = {k \in 1..n : Counts(i, k)}
  BY <1>1 DEF Counted
<1>5. \A k : k \in 1..(n + 1) <=> k \in 1..n \/ k = n + 1
  BY <1>1
<1>6. Counted(i)' = IF Counts(i, n + 1)' THEN Counted(i) \cup {n + 1} ELSE Counted(i)
  BY <1>2, <1>3, <1>4, <1>5
<1> QED
  BY <1>2, <1>4, <1>6

\* A set of numbers that is not empty and has a bound has a greatest member: its least bound.
LEMMA MaxIs ==
  ASSUME NEW n \in Nat, NEW S, S \subseteq 1..n, S # {}
  PROVE  Max(S) \in S /\ \A x \in S : x <= Max(S)
<1> DEFINE bounds == {b \in Nat : \A x \in S : x <= b}
<1>1. n \in bounds /\ bounds \subseteq Nat
  OBVIOUS
<1>2. PICK b \in bounds : \A c \in bounds : ~(<<c, b>> \in OpToRel(<, Nat))
  <2> HIDE DEF bounds
  <2> QED
    BY <1>1, NatLessThanWellFounded, WFMin
<1>3. b \in S
  <2> SUFFICES ASSUME b \notin S PROVE FALSE
    OBVIOUS
  <2>1. PICK x \in S : x <= b
    OBVIOUS
  <2>2. b - 1 \in Nat /\ b - 1 < b
    BY <2>1
  <2>3. \A y \in S : y <= b - 1
    BY <2>2
  <2>4. <<b - 1, b>> \in OpToRel(<, Nat)
    BY <2>2 DEF OpToRel
  <2> QED
    BY <1>2, <2>2, <2>3, <2>4
<1>4. \E k \in S : \A x \in S : k >= x
  BY <1>3
<1>5. Max(S) \in S /\ \A x \in S : Max(S) >= x
  BY <1>4 DEF Max
<1> QED
  BY <1>5

LEMMA Greatest ==
  ASSUME NEW n \in Nat, NEW S, S \subseteq 1..n, NEW m \in S, \A x \in S : x <= m
  PROVE  Max(S) = m
<1>1. Max(S) \in S /\ m <= Max(S)
  BY MaxIs
<1>2. Max(S) <= m
  BY <1>1, Zenon
<1>3. Max(S) \in 1..n /\ m \in 1..n
  BY <1>1, Zenon
<1> QED
  BY <1>1, <1>2, <1>3

LEMMA UserAtIs ==
  ASSUME NEW i, NEW n \in Nat, NEW u, LastUser(i, n, u)
  PROVE  UserAt(i, n + 1) = u
<1> DEFINE joins == {j \in 1..((n + 1) - 1) :
                        Parsed(i, j).kind = "join" /\ Parsed(i, j).user # NoUser}
<1>1. joins = {j \in 1..n : NamesUser(i, j)}
  <2>1. (n + 1) - 1 = n
    OBVIOUS
  <2> QED
    BY <2>1 DEF NamesUser
<1>2. UserAt(i, n + 1) = IF joins = {} THEN NoUser ELSE Parsed(i, Max(joins)).user
  BY DEF UserAt
<1> HIDE DEF joins
<1>3. CASE u = NoUser /\ \A j \in 1..n : ~NamesUser(i, j)
  BY <1>1, <1>2, <1>3
<1>4. ASSUME NEW m \in 1..n, NamesUser(i, m), u = Parsed(i, m).user,
             \A j \in (m + 1)..n : ~NamesUser(i, j)
      PROVE  UserAt(i, n + 1) = u
  <2>1. m \in joins /\ joins \subseteq 1..n
    BY <1>1, <1>4
  <2>2. \A x \in joins : x <= m
    <3> SUFFICES ASSUME NEW x \in joins, ~(x <= m) PROVE FALSE
      OBVIOUS
    <3>1. x \in 1..n /\ NamesUser(i, x)
      BY <1>1
    <3>2. x \in (m + 1)..n
      BY <3>1
    <3> QED
      BY <1>4, <3>1, <3>2
  <2>3. Max(joins) = m
    BY <2>1, <2>2, Greatest
  <2> QED
    BY <1>2, <1>4, <2>1, <2>3
<1> QED
  BY <1>3, <1>4 DEF LastUser

Joins(i, k) == {j \in 1..(k - 1) : NamesUser(i, j)}

LEMMA PastUsers ==
  ASSUME NEW i, NEW n, SamePast(i, n), NEW k \in 1..(n + 1)
  PROVE  UserAt(i, k)' = UserAt(i, k)
<1>1. n \in Nat /\ \A j \in 1..(k - 1) : j \in 1..n
  BY DEF SamePast
<1>2. \A j \in 1..(k - 1) : /\ Parsed(i, j)' = Parsed(i, j)
                            /\ NamesUser(i, j)' <=> NamesUser(i, j)
  BY <1>1 DEF SamePast, NamesUser
<1>3. Joins(i, k)' = Joins(i, k) /\ Joins(i, k) \subseteq 1..n
  BY <1>1, <1>2 DEF Joins
<1>4. UserAt(i, k) = IF Joins(i, k) = {} THEN NoUser ELSE Parsed(i, Max(Joins(i, k))).user
  BY DEF UserAt, Joins, NamesUser
<1>5. CASE Joins(i, k) = {}
  <2>1. UserAt(i, k)' = NoUser
    BY <1>3, <1>5 DEF UserAt, Joins, NamesUser
  <2> QED
    BY <1>4, <1>5, <2>1
<1>6. CASE Joins(i, k) # {}
  <2>1. PICK m : m = Max(Joins(i, k))
    OBVIOUS
  <2>2. m \in Joins(i, k) /\ m \in 1..(k - 1)
    BY <1>1, <1>3, <1>6, <2>1, MaxIs DEF Joins
  <2>3. UserAt(i, k)' = Parsed(i, m)'.user
    BY <1>3, <1>6, <2>1 DEF UserAt, Joins, NamesUser
  <2> QED
    BY <1>2, <1>4, <1>6, <2>1, <2>2, <2>3
<1> QED
  BY <1>5, <1>6

\* What a line does to the state of its instance, field by field.
LEMMA Processed ==
  ASSUME NEW state \in InstanceState, NEW line \in RawLine, NEW ids,
         NEW p, p = ParseLine(line), NEW r, r = ProcessLine(state, line, ids)
  PROVE  /\ p.kind = "join" => (r.state.in_target_game <=> (ids = {} \/ p.place \in ids))
         /\ p.kind = "rpc" /\ p.game = "sols" => r.state.in_target_game
         /\ p.kind # "join" /\ ~(p.kind = "rpc" /\ p.game = "sols")
              => (r.state.in_target_game <=> state.in_target_game)
         /\ r.state.user = IF p.kind = "join" /\ p.user # NoUser THEN p.user ELSE state.user
         /\ IF p.kind = "rpc" /\ (p.game = "sols" \/ (p.game = "absent" /\ state.in_target_game))
              THEN /\ r.state.biome = p.biome /\ p.biome \in Biome
                   /\ r.events = Transition(Current(state), p)
              ELSE r.state.biome = state.biome /\ r.events = <<>>
<1> DEFINE at == Current(state)
<1>1. /\ at \in InstanceState /\ at.biome = state.biome /\ at.user = state.user
      /\ at.in_target_game <=> state.in_target_game
  BY DEF Current, InstanceState
<1>2. CASE p.kind = "none"
  <2>1. r = [state |-> state, events |-> <<>>]
    BY <1>2 DEF ProcessLine
  <2> QED
    BY <1>2, <2>1
<1>3. CASE p.kind = "join" /\ p.place \in Place /\ p.user \in User \cup {NoUser}
  <2>1. r = [state |-> AfterJoin(at, p, ids), events |-> <<>>]
    BY <1>3 DEF ProcessLine
  <2> HIDE DEF at
  <2>2. /\ AfterJoin(at, p, ids).biome = at.biome
        /\ AfterJoin(at, p, ids).user = IF p.user # NoUser THEN p.user ELSE at.user
        /\ AfterJoin(at, p, ids).in_target_game <=> (ids = {} \/ p.place \in ids)
    BY <1>1 DEF AfterJoin, InstanceState
  <2> QED
    BY <1>1, <1>3, <2>1, <2>2
<1>4. CASE p.kind = "rpc" /\ p.biome \in Biome /\ p.game \in Game /\ ~Admitted(at, p)
  <2>1. r = [state |-> at, events |-> <<>>]
    BY <1>4 DEF ProcessLine
  <2>2. ~(p.game = "sols" \/ (p.game = "absent" /\ state.in_target_game))
    BY <1>1, <1>4 DEF Admitted
  <2> HIDE DEF at
  <2>3. r.state = at /\ r.events = <<>> /\ p.kind # "join"
    BY <1>4, <2>1
  <2>4. r.state.in_target_game <=> state.in_target_game
    BY <1>1, <2>3
  <2>5. p.game # "sols"
    BY <2>2
  <2> QED
    BY <1>1, <1>4, <2>2, <2>3, <2>4, <2>5
<1>5. CASE p.kind = "rpc" /\ p.biome \in Biome /\ p.game \in Game /\ Admitted(at, p)
  <2>1. r = [state |-> AfterRpc(at, p), events |-> Transition(at, p)]
    BY <1>5 DEF ProcessLine
  <2>2. p.game = "sols" \/ (p.game = "absent" /\ state.in_target_game)
    BY <1>1, <1>5 DEF Admitted
  <2> HIDE DEF at
  <2>3. /\ AfterRpc(at, p).biome = p.biome /\ AfterRpc(at, p).user = at.user
        /\ AfterRpc(at, p).in_target_game <=> (at.in_target_game \/ p.game = "sols")
    BY <1>1 DEF AfterRpc, InstanceState
  <2>4. r.state = AfterRpc(at, p) /\ r.events = Transition(at, p)
    BY <2>1
  <2>5. r.events = Transition(Current(state), p)
    BY <2>4 DEF at
  <2> QED
    BY <1>1, <1>5, <2>2, <2>3, <2>4, <2>5
<1>6. \/ p.kind = "none"
      \/ p.kind = "join" /\ p.place \in Place /\ p.user \in User \cup {NoUser}
      \/ p.kind = "rpc" /\ p.biome \in Biome /\ p.game \in Game
  BY ParseTyped
<1> QED
  BY <1>2, <1>3, <1>4, <1>5, <1>6

\* The events of one more change: `ended` of the biome that was open, if there was one,
\* and `started`.
Turn(b, new, u) ==
  IF b = NoBiome THEN <<Start(new, u)>> ELSE <<End(b, u), Start(new, u)>>

\* g is f, and then x.
Longer(g, n, f, x) == (\A k \in 1..n : g[k] = f[k]) /\ g[n + 1] = x

LEMMA TellsMore ==
  ASSUME NEW s \in Seq(Event), NEW n \in Nat, NEW biome, NEW user, NEW b,
         Tells(s, n, biome, user, b), NEW new \in Biome, NEW u \in User \cup {NoUser},
         NEW biome2, Longer(biome2, n, biome, new), NEW user2, Longer(user2, n, user, u)
  PROVE  Tells(s \o Turn(b, new, u), n + 1, biome2, user2, new)
<1> DEFINE events == Turn(b, new, u)  t == s \o events  c == n + 1
<1>e. events = IF b = NoBiome THEN <<Start(new, u)>> ELSE <<End(b, u), Start(new, u)>>
  BY DEF Turn
<1>l. /\ \A k \in 1..n : biome2[k] = biome[k] /\ user2[k] = user[k]
      /\ biome2[n + 1] = new /\ user2[n + 1] = u
  BY DEF Longer
<1>0. Start(new, u) \in Event
  BY DEF Start, Event
<1> HIDE DEF events
<1>c. c \in Nat \ {0} /\ c = n + 1 /\ c - 1 = n
  OBVIOUS
<1>1. CASE n = 0
  <2>1. Len(s) = 0 /\ b = NoBiome
    BY <1>1 DEF Tells
  <2>2. events = <<Start(new, u)>> /\ events \in Seq(Event) /\ Len(events) = 1 /\ events[1] = Start(new, u)
    BY <1>0, <1>e, <2>1
  <2>3. Len(t) = 1 /\ t[1] = Start(new, u)
    BY <2>1, <2>2, ConcatProperties
  <2> HIDE DEF t, c
  <2>4. c = 1 /\ biome2[c] = new /\ user2[c] = u
    BY <1>1, <1>c, <1>l
  <2>5. Tells(t, c, biome2, user2, new)
    BY <2>3, <2>4 DEF Tells
  <2> QED
    BY <2>5 DEF t, c, events
<1>2. CASE n # 0
  <2>1. /\ Len(s) = 2 * n - 1 /\ b = biome[n]
        /\ \A k \in 1..n : s[2 * k - 1] = Start(biome[k], user[k])
        /\ \A k \in 1..(n - 1) : s[2 * k] = End(biome[k], user[k + 1])
    BY <1>2 DEF Tells
  <2>2. b \in Biome
    <3>1. n \in 1..n /\ 2 * n - 1 \in 1..Len(s)
      BY <1>2, <2>1
    <3>2. s[2 * n - 1] = Start(b, user[n]) /\ s[2 * n - 1] \in Event
      BY <2>1, <3>1, ElementOfSeq
    <3> QED
      BY <3>2 DEF Start, Event
  <2>3. events = <<End(b, u), Start(new, u)>>
    BY <1>e, <2>2, CanonicalAssumption
  <2>4. End(b, u) \in Event
    BY <2>2 DEF End, Event
  <2>5. /\ events \in Seq(Event) /\ Len(events) = 2
        /\ events[1] = End(b, u) /\ events[2] = Start(new, u)
    BY <1>0, <2>3, <2>4
  <2>6. /\ Len(t) = 2 * c - 1
        /\ \A k \in 1..(2 * n - 1) : t[k] = s[k]
        /\ t[2 * n] = End(b, u)
        /\ t[2 * c - 1] = Start(new, u)
    <3>1. /\ Len(t) = Len(s) + 2
          /\ \A k \in 1..Len(s) : t[k] = s[k]
          /\ t[Len(s) + 1] = events[1]
          /\ t[Len(s) + 2] = events[2]
      <4>1. /\ Len(t) = Len(s) + Len(events)
            /\ \A k \in 1..(Len(s) + Len(events)) :
                 t[k] = IF k <= Len(s) THEN s[k] ELSE events[k - Len(s)]
        BY <2>5, ConcatProperties
      <4>2. Len(s) \in Nat
        BY <2>1
      <4> HIDE DEF t
      <4> QED
        BY <2>5, <4>1, <4>2
    <3>2. Len(s) + 1 = 2 * n /\ Len(s) + 2 = 2 * c - 1
      BY <2>1
    <3> QED
      BY <2>1, <2>5, <3>1, <3>2
  <2> HIDE DEF t, c
  <2>7. biome2[c] = new /\ user2[c] = u
    BY <1>c, <1>l
  <2>8. ASSUME NEW k \in 1..c PROVE t[2 * k - 1] = Start(biome2[k], user2[k])
    <3>1. CASE k = c
      BY <2>6, <2>7, <3>1
    <3>2. CASE k # c
      <4>1. k \in 1..n /\ 2 * k - 1 \in 1..(2 * n - 1)
        BY <1>c, <3>2
      <4> QED
        BY <1>l, <2>1, <2>6, <4>1
    <3> QED
      BY <3>1, <3>2
  <2>9. ASSUME NEW k \in 1..n PROVE t[2 * k] = End(biome2[k], user2[k + 1])
    <3>1. CASE k = n
      BY <1>c, <1>l, <2>1, <2>6, <2>7, <3>1
    <3>2. CASE k # n
      <4>1. k \in 1..(n - 1) /\ k + 1 \in 1..n /\ 2 * k \in 1..(2 * n - 1)
        BY <3>2
      <4> QED
        BY <1>l, <2>1, <2>6, <4>1
    <3> QED
      BY <3>1, <3>2
  <2>10. Tells(t, c, biome2, user2, new)
    BY <1>c, <2>6, <2>7, <2>8, <2>9 DEF Tells
  <2> QED
    BY <2>10 DEF t, c, events
<1> QED
  BY <1>1, <1>2

\* The changes among the counted entries.
Before(i, k) == {j \in Counted(i) : j < k}
Differs(i, k) == Before(i, k) = {} \/ Parsed(i, Max(Before(i, k))).biome # Parsed(i, k).biome

\* What was a change stays one.
LEMMA PastChanges ==
  ASSUME NEW i, NEW n, SamePast(i, n), NEW k \in 1..n
  PROVE  Differs(i, k)' <=> Differs(i, k)
<1>0. n \in Nat /\ \A j \in 1..n : Parsed(i, j)' = Parsed(i, j)
  BY DEF SamePast
<1>a. /\ Counted(i) \subseteq 1..n
      /\ Counted(i)' = IF Counts(i, n + 1)' THEN Counted(i) \cup {n + 1} ELSE Counted(i)
  BY CountsMove
<1>1. Before(i, k)' = Before(i, k) /\ Before(i, k) \subseteq 1..n
  <2>1. Before(i, k) = {j \in Counted(i) : j < k} /\ Before(i, k)' = {j \in Counted(i)' : j < k}
    BY DEF Before
  <2>2. ~(n + 1 < k)
    BY <1>0
  <2> QED
    BY <1>a, <2>1, <2>2
<1>2. CASE Before(i, k) = {}
  BY <1>1, <1>2 DEF Differs
<1>3. CASE Before(i, k) # {}
  <2>1. PICK m : m = Max(Before(i, k))
    OBVIOUS
  <2>2. m \in 1..n
    BY <1>0, <1>1, <1>3, <2>1, MaxIs
  <2>3. Differs(i, k) <=> Parsed(i, m).biome # Parsed(i, k).biome
    BY <1>3, <2>1 DEF Differs
  <2>4. Differs(i, k)' <=> Parsed(i, m)'.biome # Parsed(i, k)'.biome
    BY <1>1, <1>3, <2>1 DEF Differs
  <2> QED
    BY <1>0, <2>2, <2>3, <2>4
<1> QED
  BY <1>2, <1>3

\* An entry that counts is a change when its biome is not the one the log ended with.
LEMMA ChangesMove ==
  ASSUME NEW i, NEW n, SamePast(i, n), NEW b, LastBiome(i, b),
         NEW new, new = Parsed(i, n + 1)'.biome, new # NoBiome
  PROVE  /\ Changes(i) \subseteq 1..n
         /\ Changes(i)' = IF Counts(i, n + 1)' /\ new # b THEN Changes(i) \cup {n + 1}
                          ELSE Changes(i)
<1>0. n \in Nat /\ \A k \in 1..n : Parsed(i, k)' = Parsed(i, k)
  BY DEF SamePast
<1>1. /\ Counted(i) \subseteq 1..n
      /\ Counted(i)' = IF Counts(i, n + 1)' THEN Counted(i) \cup {n + 1} ELSE Counted(i)
  BY CountsMove
<1>2. Changes(i) = {k \in Counted(i) : Differs(i, k)}
  BY DEF Changes, Before, Differs
<1>3. Changes(i)' = {k \in Counted(i)' : Differs(i, k)'}
  BY DEF Changes, Before, Differs
<1>4. ASSUME NEW k \in 1..n PROVE Differs(i, k)' <=> Differs(i, k)
  BY PastChanges
<1>5. Differs(i, n + 1)' <=> new # b
  <2>1. Before(i, n + 1)' = Counted(i)
    <3>1. Before(i, n + 1)' = {j \in Counted(i)' : j < n + 1}
      BY DEF Before
    <3>2. ~(n + 1 < n + 1) /\ \A j \in Counted(i) : j < n + 1
      BY <1>0, <1>1
    <3> QED
      BY <1>1, <3>1, <3>2
  <2>2. CASE Counted(i) = {} /\ b = NoBiome
    BY <2>1, <2>2 DEF Differs
  <2>3. ASSUME NEW m \in Counted(i), b = Parsed(i, m).biome, \A j \in Counted(i) : j <= m
        PROVE  Differs(i, n + 1)' <=> new # b
    <3>1. Max(Counted(i)) = m
      BY <1>0, <1>1, <2>3, Greatest
    <3>2. m \in 1..n /\ Counted(i) # {}
      BY <1>1
    <3>3. Differs(i, n + 1)' <=> Parsed(i, m)'.biome # Parsed(i, n + 1)'.biome
      BY <2>1, <3>1, <3>2 DEF Differs
    <3> QED
      BY <1>0, <2>3, <3>2, <3>3
  <2> QED
    BY <2>2, <2>3 DEF LastBiome
<1>6. n + 1 \notin Counted(i)
  BY <1>0, <1>1
<1>7. CASE Counts(i, n + 1)'
  <2>1. Counted(i)' = Counted(i) \cup {n + 1}
    BY <1>1, <1>7
  <2> QED
    BY <1>1, <1>2, <1>3, <1>4, <1>5, <1>7, <2>1
<1>8. CASE ~Counts(i, n + 1)'
  <2>1. Counted(i)' = Counted(i)
    BY <1>1, <1>8
  <2> QED
    BY <1>1, <1>2, <1>3, <1>4, <1>8, <2>1
<1> QED
  BY <1>7, <1>8

\* An entry that does not count changes nothing.
LEMMA SameChanges ==
  ASSUME NEW i, NEW n, SamePast(i, n), ~Counts(i, n + 1)'
  PROVE  Changes(i) \subseteq 1..n /\ Changes(i)' = Changes(i)
<1>0. n \in Nat /\ \A k \in 1..n : Parsed(i, k)' = Parsed(i, k)
  BY DEF SamePast
<1>1. Counted(i) \subseteq 1..n /\ Counted(i)' = Counted(i)
  BY CountsMove
<1>2. Changes(i) = {k \in Counted(i) : Differs(i, k)}
  BY DEF Changes, Before, Differs
<1>3. Changes(i)' = {k \in Counted(i)' : Differs(i, k)'}
  BY DEF Changes, Before, Differs
<1>4. ASSUME NEW k \in 1..n PROVE Differs(i, k)' <=> Differs(i, k)
  BY PastChanges
<1> QED
  BY <1>1, <1>2, <1>3, <1>4

LEMMA TellsSame ==
  ASSUME NEW s, NEW n \in Nat, NEW biome, NEW user, NEW b, Tells(s, n, biome, user, b),
         NEW biome2, NEW user2, \A k \in 1..n : biome2[k] = biome[k] /\ user2[k] = user[k]
  PROVE  Tells(s, n, biome2, user2, b)
<1>1. \A k \in 1..(n - 1) : k \in 1..n /\ k + 1 \in 1..n
  OBVIOUS
<1>2. n # 0 => n \in 1..n
  OBVIOUS
<1> QED
  BY <1>1, <1>2 DEF Tells

LEMMA OrderTyped ==
  ASSUME NEW n \in Nat, NEW C, C \subseteq 1..n, NEW c \in InOrder(C),
         NEW size, size = Cardinality(C)
  PROVE  IsFiniteSet(C) /\ size \in Nat /\ \A k \in 1..size : c[k] \in C
<1>1. IsFiniteSet(1..n)
  BY FS_Interval
<1>2. IsFiniteSet(C) /\ size \in Nat
  BY <1>1, FS_Subset, FS_CardinalityType
<1> QED
  BY <1>2 DEF InOrder

Later(d, size, c, x) == d = [k \in 1..(size + 1) |-> IF k = size + 1 THEN x ELSE c[k]]

\* A later number extends a set in order.
LEMMA OneLater ==
  ASSUME NEW n \in Nat, NEW C, C \subseteq 1..n, NEW c \in InOrder(C),
         NEW size, size = Cardinality(C), NEW d, Later(d, size, c, n + 1)
  PROVE  /\ size \in Nat /\ Cardinality(C \cup {n + 1}) = size + 1
         /\ d \in InOrder(C \cup {n + 1})
<1>d. d = [k \in 1..(size + 1) |-> IF k = size + 1 THEN n + 1 ELSE c[k]]
  BY DEF Later
<1>1. IsFiniteSet(C)
  BY OrderTyped
<1>2. n + 1 \notin C
  OBVIOUS
<1>3. size \in Nat /\ Cardinality(C \cup {n + 1}) = size + 1
  BY <1>1, <1>2, FS_CardinalityType, FS_AddElement
<1>4. c \in [1..size -> C] /\ \A j, k \in 1..size : j < k => c[j] < c[k]
  BY DEF InOrder
<1> DEFINE D == C \cup {n + 1}
<1>5. d \in [1..(size + 1) -> D]
  <2>1. \A k \in 1..(size + 1) : k = size + 1 \/ k \in 1..size
    BY <1>3
  <2> QED
    BY <1>d, <1>4, <2>1
<1>6. ASSUME NEW j \in 1..(size + 1), NEW k \in 1..(size + 1), j < k
      PROVE  d[j] < d[k]
  <2>0. j \in 1..size /\ j # size + 1
    BY <1>3, <1>6
  <2>1. j \in 1..size /\ d[j] = c[j] /\ c[j] \in 1..n
    BY <1>d, <1>4, <2>0
  <2>2. CASE k = size + 1
    <3>1. d[k] = n + 1
      BY <1>d, <2>2
    <3> QED
      BY <2>1, <3>1
  <2>3. CASE k # size + 1
    <3>1. k \in 1..size /\ d[k] = c[k]
      BY <1>d, <1>3, <2>3
    <3> QED
      BY <1>4, <1>6, <2>1, <3>1
  <2> QED
    BY <2>2, <2>3
<1>7. d \in InOrder(D)
  <2>1. Cardinality(D) = size + 1
    BY <1>3
  <2> HIDE DEF D
  <2> QED
    BY <1>5, <1>6, <2>1 DEF InOrder
<1> QED
  BY <1>3, <1>4, <1>7

\* No change, no event: the story is the same.
LEMMA ToldSame ==
  ASSUME NEW i, NEW n, SamePast(i, n), Changes(i) \subseteq 1..n, Changes(i)' = Changes(i),
         emitted'[i] = emitted[i], NEW b, NEW change, Told(i, change, b)
  PROVE  Told(i, change, b)'
<1> DEFINE size == Cardinality(Changes(i))
<1>1. /\ change \in InOrder(Changes(i))
      /\ Tells(emitted[i], size, BiomesOf(i, size, change), UsersOf(i, size, change), b)
  BY DEF Told
<1>2. n \in Nat /\ size \in Nat /\ \A k \in 1..size : change[k] \in 1..n /\ change[k] \in 1..(n + 1)
  <2>1. n \in Nat
    BY DEF SamePast
  <2>2. size \in Nat /\ \A k \in 1..size : change[k] \in Changes(i)
    BY <1>1, <2>1, OrderTyped
  <2> QED
    BY <2>1, <2>2
<1>3. \A k \in 1..size : /\ Parsed(i, change[k])' = Parsed(i, change[k])
                         /\ UserAt(i, change[k])' = UserAt(i, change[k])
  BY <1>2, PastUsers DEF SamePast
<1>4. PICK N : N = size
  OBVIOUS
<1>5. Told(i, change, b)' <=>
        /\ change \in InOrder(Changes(i))
        /\ Tells(emitted[i], N, BiomesOf(i, N, change)', UsersOf(i, N, change)', b)
  BY <1>4 DEF Told, InOrder, Tells, Start, End
<1> HIDE DEF size
<1>6. \A k \in 1..N : /\ BiomesOf(i, N, change)'[k] = BiomesOf(i, N, change)[k]
                      /\ UsersOf(i, N, change)'[k] = UsersOf(i, N, change)[k]
  BY <1>3, <1>4 DEF BiomesOf, UsersOf
<1>7. Tells(emitted[i], N, BiomesOf(i, N, change)', UsersOf(i, N, change)', b)
  BY <1>1, <1>2, <1>4, <1>6, TellsSame
<1> QED
  BY <1>1, <1>5, <1>7

\* One more change, one more turn of the story.
LEMMA ToldMore ==
  ASSUME NEW i, NEW n, SamePast(i, n), Changes(i) \subseteq 1..n,
         Changes(i)' = Changes(i) \cup {n + 1}, emitted[i] \in Seq(Event),
         NEW b, NEW change, Told(i, change, b),
         NEW new \in Biome, new = Parsed(i, n + 1)'.biome,
         NEW u \in User \cup {NoUser}, UserAt(i, n + 1) = u,
         emitted'[i] = emitted[i] \o Turn(b, new, u)
  PROVE  \E d : Told(i, d, new)'
<1>0. n \in Nat
  BY DEF SamePast
<1>1. PICK size : size = Cardinality(Changes(i))
  OBVIOUS
<1>2. /\ change \in InOrder(Changes(i))
      /\ Tells(emitted[i], size, BiomesOf(i, size, change), UsersOf(i, size, change), b)
  BY <1>1 DEF Told
<1>3. size \in Nat /\ \A k \in 1..size : change[k] \in 1..n /\ change[k] \in 1..(n + 1)
  <2>1. size \in Nat /\ \A k \in 1..size : change[k] \in Changes(i)
    BY <1>0, <1>1, <1>2, OrderTyped
  <2> QED
    BY <1>0, <2>1
<1>4. PICK d : Later(d, size, change, n + 1)
  BY DEF Later
<1>5. Cardinality(Changes(i)') = size + 1 /\ d \in InOrder(Changes(i)')
  <2>1. PICK C : C = Changes(i)
    OBVIOUS
  <2>2. C \subseteq 1..n /\ change \in InOrder(C) /\ size = Cardinality(C)
    BY <1>1, <1>2, <2>1
  <2>3. Cardinality(C \cup {n + 1}) = size + 1 /\ d \in InOrder(C \cup {n + 1})
    BY <1>0, <1>4, <2>2, OneLater
  <2> QED
    BY <2>1, <2>3
<1>6. d[size + 1] = n + 1 /\ \A k \in 1..size : d[k] = change[k]
  BY <1>3, <1>4 DEF Later
<1>7. /\ \A k \in 1..size : /\ Parsed(i, d[k])' = Parsed(i, change[k])
                            /\ UserAt(i, d[k])' = UserAt(i, change[k])
      /\ Parsed(i, d[size + 1])'.biome = new /\ UserAt(i, d[size + 1])' = u
  <2>1. n + 1 \in 1..(n + 1)
    BY <1>0
  <2>2. UserAt(i, n + 1)' = u /\ \A k \in 1..size : UserAt(i, change[k])' = UserAt(i, change[k])
    BY <1>3, <2>1, PastUsers
  <2>3. \A k \in 1..size : Parsed(i, change[k])' = Parsed(i, change[k])
    BY <1>3 DEF SamePast
  <2>4. ASSUME NEW k \in 1..size
        PROVE  Parsed(i, d[k])' = Parsed(i, change[k]) /\ UserAt(i, d[k])' = UserAt(i, change[k])
    BY <1>6, <2>2, <2>3 DEF Parsed, UserAt
  <2>5. Parsed(i, d[size + 1])'.biome = new /\ UserAt(i, d[size + 1])' = u
    BY <1>6, <2>2 DEF Parsed, UserAt
  <2> QED
    BY <2>4, <2>5
<1>8. PICK N : N = size + 1 /\ N \in Nat
  BY <1>3
<1>9. PICK biome2, user2 : biome2 = BiomesOf(i, N, d)' /\ user2 = UsersOf(i, N, d)'
  OBVIOUS
<1>10. /\ \A k \in 1..size : /\ biome2[k] = BiomesOf(i, size, change)[k]
                             /\ user2[k] = UsersOf(i, size, change)[k]
       /\ biome2[size + 1] = new /\ user2[size + 1] = u
  <2>1. \A k \in 1..size : k \in 1..N
    BY <1>3, <1>8
  <2>2. size + 1 \in 1..N
    BY <1>3, <1>8
  <2>3. \A k \in 1..N : biome2[k] = Parsed(i, d[k])'.biome /\ user2[k] = UserAt(i, d[k])'
    BY <1>9 DEF BiomesOf, UsersOf
  <2> QED
    BY <1>7, <2>1, <2>2, <2>3 DEF BiomesOf, UsersOf
<1>11. Tells(emitted'[i], N, biome2, user2, new)
  <2>1. PICK s, bio, usr : /\ s = emitted[i] /\ bio = BiomesOf(i, size, change)
                          /\ usr = UsersOf(i, size, change)
    OBVIOUS
  <2>2. /\ s \in Seq(Event) /\ Tells(s, size, bio, usr, b)
        /\ emitted'[i] = s \o Turn(b, new, u)
        /\ Longer(biome2, size, bio, new) /\ Longer(user2, size, usr, u)
    BY <1>2, <1>10, <2>1 DEF Longer
  <2>3. Tells(s \o Turn(b, new, u), size + 1, biome2, user2, new)
    BY <1>3, <2>2, TellsMore
  <2> QED
    BY <1>8, <2>2, <2>3
<1>12. Told(i, d, new)' <=>
         /\ d \in InOrder(Changes(i)')
         /\ Tells(emitted'[i], N, BiomesOf(i, N, d)', UsersOf(i, N, d)', new)
  BY <1>5, <1>8 DEF Told, InOrder, Tells, Start, End
<1> QED
  BY <1>5, <1>9, <1>11, <1>12

\* The counted biome of a life is that of its last counted entry.
LEMMA BiomeMoves ==
  ASSUME NEW i, NEW n, SamePast(i, n), NEW b, LastBiome(i, b)
  PROVE  /\ Counts(i, n + 1)' => LastBiome(i, Parsed(i, n + 1).biome)'
         /\ ~Counts(i, n + 1)' => LastBiome(i, b)'
<1>0. n \in Nat /\ \A k \in 1..n : Parsed(i, k)' = Parsed(i, k)
  BY DEF SamePast
<1>1. /\ Counted(i) \subseteq 1..n
      /\ Counted(i)' = IF Counts(i, n + 1)' THEN Counted(i) \cup {n + 1} ELSE Counted(i)
  BY CountsMove
<1>2. CASE Counts(i, n + 1)'
  <2>1. n + 1 \in Counted(i)' /\ \A j \in Counted(i)' : j <= n + 1
    BY <1>0, <1>1, <1>2
  <2> QED
    BY <1>2, <2>1 DEF LastBiome
<1>3. CASE ~Counts(i, n + 1)'
  <2>1. Counted(i)' = Counted(i)
    BY <1>1, <1>3
  <2>2. CASE Counted(i) = {} /\ b = NoBiome
    BY <1>3, <2>1, <2>2 DEF LastBiome
  <2>3. ASSUME NEW m \in Counted(i), b = Parsed(i, m).biome, \A j \in Counted(i) : j <= m
        PROVE  LastBiome(i, b)'
    <3>1. m \in 1..n /\ b = Parsed(i, m)'.biome
      BY <1>0, <1>1, <2>3
    <3> QED
      BY <2>1, <2>3, <3>1 DEF LastBiome
  <2> QED
    BY <1>3, <2>2, <2>3 DEF LastBiome
<1> QED
  BY <1>2, <1>3

LEMMA TransitionIs ==
  ASSUME NEW state \in InstanceState, NEW p, p.biome \in Biome
  PROVE  Transition(Current(state), p)
           = IF p.biome = state.biome THEN <<>> ELSE Turn(state.biome, p.biome, state.user)
<1> DEFINE at == Current(state)
<1>1. at.biome = state.biome /\ at.user = state.user /\ at.biome \in Biome \cup {NoBiome}
      /\ at.user \in User \cup {NoUser}
  BY DEF Current, InstanceState
<1> HIDE DEF at
<1>2. Start(p.biome, at.user) \in Event
  BY <1>1 DEF Start, Event
<1>3. CASE p.biome = at.biome
  BY <1>1, <1>3 DEF Transition, at
<1>4. CASE p.biome # at.biome /\ at.biome = NoBiome
  <2>1. Transition(at, p) = Append(<<>>, Start(p.biome, at.user))
    BY <1>4 DEF Transition, Ended, Start
  <2>2. Turn(at.biome, p.biome, at.user) = <<Start(p.biome, at.user)>>
    BY <1>4 DEF Turn
  <2> QED
    BY <1>1, <1>4, <2>1, <2>2 DEF at
<1>5. CASE p.biome # at.biome /\ at.biome # NoBiome
  <2>1. Transition(at, p) = Append(<<End(at.biome, at.user)>>, Start(p.biome, at.user))
    BY <1>5 DEF Transition, Ended, Start, End
  <2>2. Turn(at.biome, p.biome, at.user) = <<End(at.biome, at.user), Start(p.biome, at.user)>>
    BY <1>5 DEF Turn
  <2>3. End(at.biome, at.user) \in Event
    BY <1>1, <1>5 DEF End, Event
  <2>4. Transition(at, p) = <<End(at.biome, at.user), Start(p.biome, at.user)>>
    BY <1>2, <2>1, <2>3, AppendOne
  <2> QED
    BY <1>1, <1>5, <2>2, <2>4 DEF at
<1> QED
  BY <1>3, <1>4, <1>5

LEMMA FeedRemembers ==
  ASSUME IInv, NEW i \in Instance, NEW line \in Lines, Feed(i, line), Remembers(i)
  PROVE  Remembers(i)'
<1>1. PICK n, state, p, r, ids :
        /\ n = Len(log[i]) /\ state = instances[i] /\ p = ParseLine(line) /\ ids = place_ids
        /\ r = ProcessLine(state, line, ids)
  OBVIOUS
<1>2. /\ SamePast(i, n) /\ log'[i][n + 1] = [line |-> line, place_ids |-> ids]
      /\ instances'[i] = r.state /\ emitted'[i] = emitted[i] \o r.events
  BY <1>1, FedLog
<1>3. n \in Nat /\ Len(log'[i]) = n + 1
  BY <1>2 DEF SamePast
<1>4. /\ state \in InstanceState /\ line \in RawLine /\ emitted[i] \in Seq(Event)
      /\ state.user \in User \cup {NoUser}
  BY <1>1, LinesAssumption DEF IInv, TypeOK, InstanceState
<1>5. /\ p.kind = "join" => (r.state.in_target_game <=> (ids = {} \/ p.place \in ids))
      /\ p.kind = "rpc" /\ p.game = "sols" => r.state.in_target_game
      /\ p.kind # "join" /\ ~(p.kind = "rpc" /\ p.game = "sols")
           => (r.state.in_target_game <=> state.in_target_game)
      /\ r.state.user = IF p.kind = "join" /\ p.user # NoUser THEN p.user ELSE state.user
      /\ IF p.kind = "rpc" /\ (p.game = "sols" \/ (p.game = "absent" /\ state.in_target_game))
           THEN /\ r.state.biome = p.biome /\ p.biome \in Biome
                /\ r.events = Transition(Current(state), p)
           ELSE r.state.biome = state.biome /\ r.events = <<>>
  BY <1>1, <1>4, Processed
<1>6. /\ state.in_target_game <=> InGame(i, n)
      /\ LastUser(i, n, state.user) /\ LastBiome(i, state.biome)
      /\ \E change : Told(i, change, state.biome)
  BY <1>1 DEF Remembers
<1>7. Parsed(i, n + 1)' = p
  BY <1>1, <1>2 DEF Parsed
<1>8. Identifies(i, n + 1)' <=> p.kind = "join" \/ (p.kind = "rpc" /\ p.game = "sols")
  BY <1>7 DEF Identifies
<1>9. SaysTarget(i, n + 1)' <=> p.kind = "rpc" \/ ids = {} \/ p.place \in ids
  BY <1>2, <1>7 DEF SaysTarget
<1>10. NamesUser(i, n + 1)' <=> p.kind = "join" /\ p.user # NoUser
  BY <1>7 DEF NamesUser
<1>11. InGame(i, n)' <=> InGame(i, n)
  BY <1>2, <1>3, GateMoves
<1>12. Counts(i, n + 1)' <=> /\ p.kind = "rpc"
                             /\ p.game = "sols" \/ (p.game = "absent" /\ state.in_target_game)
  <2>1. (n + 1) - 1 = n
    BY <1>3
  <2>2. Counts(i, n + 1)' <=> /\ p.kind = "rpc"
                              /\ p.game = "sols" \/ (p.game = "absent" /\ InGame(i, n)')
    BY <1>7, <2>1 DEF Counts, InGame
  <2> QED
    BY <1>6, <1>11, <2>2
<1>13. r.state.in_target_game <=> InGame(i, n + 1)'
  <2>1. /\ ~Identifies(i, n + 1)' => (InGame(i, n + 1)' <=> InGame(i, n))
        /\ Identifies(i, n + 1)' => (InGame(i, n + 1)' <=> SaysTarget(i, n + 1)')
    BY <1>2, GateMoves
  <2>2. CASE p.kind = "join"
    BY <1>5, <1>8, <1>9, <2>1, <2>2
  <2>3. CASE p.kind = "rpc" /\ p.game = "sols"
    BY <1>5, <1>8, <1>9, <2>1, <2>3
  <2>4. CASE p.kind # "join" /\ ~(p.kind = "rpc" /\ p.game = "sols")
    BY <1>5, <1>6, <1>8, <2>1, <2>4
  <2> QED
    BY <2>2, <2>3, <2>4
<1>14. LastUser(i, n + 1, r.state.user)'
  <2>1. /\ NamesUser(i, n + 1)' => LastUser(i, n + 1, Parsed(i, n + 1).user)'
        /\ ~NamesUser(i, n + 1)' => LastUser(i, n + 1, state.user)'
    BY <1>2, <1>6, UserMoves
  <2>2. CASE p.kind = "join" /\ p.user # NoUser
    BY <1>5, <1>7, <1>10, <2>1, <2>2 DEF LastUser, NamesUser, Parsed
  <2>3. CASE ~(p.kind = "join" /\ p.user # NoUser)
    BY <1>5, <1>10, <2>1, <2>3
  <2> QED
    BY <2>2, <2>3
<1>15. LastBiome(i, r.state.biome)'
  <2>1. /\ Counts(i, n + 1)' => LastBiome(i, Parsed(i, n + 1).biome)'
        /\ ~Counts(i, n + 1)' => LastBiome(i, state.biome)'
    BY <1>2, <1>6, BiomeMoves
  <2>2. CASE Counts(i, n + 1)'
    BY <1>5, <1>7, <1>12, <2>1, <2>2 DEF LastBiome, Parsed, Counted, Counts
  <2>3. CASE ~Counts(i, n + 1)'
    BY <1>5, <1>12, <2>1, <2>3
  <2> QED
    BY <2>2, <2>3
<1>16. \E change : Told(i, change, r.state.biome)'
  <2>1. PICK change : Told(i, change, state.biome)
    BY <1>6
  <2>2. CASE ~Counts(i, n + 1)'
    <3>1. Changes(i) \subseteq 1..n /\ Changes(i)' = Changes(i)
      BY <1>2, <1>3, <2>2, SameChanges
    <3>2. r.state.biome = state.biome /\ emitted'[i] = emitted[i]
      BY <1>2, <1>4, <1>5, <1>12, <2>2, ConcatEmptySeq
    <3>3. Told(i, change, state.biome)'
      BY <1>2, <2>1, <3>1, <3>2, ToldSame
    <3> QED
      BY <3>2, <3>3
  <2>3. CASE Counts(i, n + 1)'
    <3>1. /\ r.state.biome = p.biome /\ p.biome \in Biome
          /\ r.events = Transition(Current(state), p)
      BY <1>5, <1>12, <2>3
    <3>2. p.biome = Parsed(i, n + 1)'.biome /\ p.biome # NoBiome
      BY <1>7, <3>1, CanonicalAssumption
    <3>3. /\ Changes(i) \subseteq 1..n
          /\ Changes(i)' = IF p.biome # state.biome THEN Changes(i) \cup {n + 1} ELSE Changes(i)
      BY <1>2, <1>6, <2>3, <3>2, ChangesMove
    <3>4. r.events = IF p.biome = state.biome THEN <<>>
                     ELSE Turn(state.biome, p.biome, state.user)
      BY <1>4, <3>1, TransitionIs
    <3>5. CASE p.biome = state.biome
      <4>1. emitted'[i] = emitted[i] /\ Changes(i)' = Changes(i)
        BY <1>2, <1>4, <3>3, <3>4, <3>5, ConcatEmptySeq
      <4>2. Told(i, change, state.biome)'
        BY <1>2, <2>1, <3>3, <4>1, ToldSame
      <4> QED
        BY <3>1, <3>5, <4>2
    <3>6. CASE p.biome # state.biome
      <4>1. /\ emitted'[i] = emitted[i] \o Turn(state.biome, p.biome, state.user)
            /\ Changes(i)' = Changes(i) \cup {n + 1}
        BY <1>2, <3>3, <3>4, <3>6
      <4>2. UserAt(i, n + 1) = state.user
        BY <1>3, <1>6, UserAtIs
      <4>3. \E d : Told(i, d, p.biome)'
        BY <1>2, <1>4, <2>1, <3>1, <3>2, <3>3, <4>1, <4>2, ToldMore
      <4> QED
        BY <3>1, <4>3
    <3> QED
      BY <3>5, <3>6
  <2> QED
    BY <2>2, <2>3
<1>17. Remembers(i)' <=> /\ r.state.in_target_game <=> InGame(i, n + 1)'
                         /\ LastUser(i, n + 1, r.state.user)' /\ LastBiome(i, r.state.biome)'
                         /\ \E change : Told(i, change, r.state.biome)'
  BY <1>2, <1>3 DEF Remembers, InGame, LastUser, LastBiome, Told, Tells
<1> QED
  BY <1>13, <1>14, <1>15, <1>16, <1>17

\* An instance whose log, stream and state are as they were.
LEMMA Untouched ==
  ASSUME NEW i, log'[i] = log[i], instances'[i] = instances[i], emitted'[i] = emitted[i],
         Remembers(i)
  PROVE  Remembers(i)'
<1>1. \A k : Parsed(i, k)' = Parsed(i, k)
  BY DEF Parsed
<1>2. \A k : /\ Identifies(i, k)' <=> Identifies(i, k)
             /\ SaysTarget(i, k)' <=> SaysTarget(i, k)
             /\ NamesUser(i, k)' <=> NamesUser(i, k)
  BY <1>1 DEF Identifies, SaysTarget, NamesUser
<1>3. PICK n : n = Len(log[i])
  OBVIOUS
<1>4. InGame(i, n)' <=> InGame(i, n)
  BY <1>2 DEF InGame
<1>5. \A u : LastUser(i, n, u)' <=> LastUser(i, n, u)
  BY <1>1, <1>2 DEF LastUser
<1>6. \A k : Counts(i, k)' <=> Counts(i, k)
  BY <1>1, <1>2 DEF Counts
<1>7. Counted(i)' = Counted(i)
  BY <1>6 DEF Counted
<1>8. \A b : LastBiome(i, b)' <=> LastBiome(i, b)
  BY <1>1, <1>7 DEF LastBiome
<1>9. ASSUME NEW k PROVE Differs(i, k)' <=> Differs(i, k)
  <2>1. Before(i, k)' = Before(i, k)
    BY <1>7 DEF Before
  <2>2. PICK m : m = Max(Before(i, k))
    OBVIOUS
  <2> QED
    BY <1>1, <2>1, <2>2 DEF Differs
<1>10. Changes(i)' = Changes(i)
  <2>1. Changes(i) = {k \in Counted(i) : Differs(i, k)}
    BY DEF Changes, Before, Differs
  <2>2. Changes(i)' = {k \in Counted(i)' : Differs(i, k)'}
    BY DEF Changes, Before, Differs
  <2> QED
    BY <1>7, <1>9, <2>1, <2>2
<1>11. ASSUME NEW k PROVE UserAt(i, k)' = UserAt(i, k)
  <2>1. Joins(i, k)' = Joins(i, k)
    BY <1>2 DEF Joins
  <2>2. PICK m : m = Max(Joins(i, k))
    OBVIOUS
  <2>3. UserAt(i, k) = IF Joins(i, k) = {} THEN NoUser ELSE Parsed(i, m).user
    BY <2>2 DEF UserAt, Joins, NamesUser
  <2>4. UserAt(i, k)' = IF Joins(i, k) = {} THEN NoUser ELSE Parsed(i, m)'.user
    BY <2>1, <2>2 DEF UserAt, Joins, NamesUser
  <2> QED
    BY <1>1, <2>3, <2>4
<1>12. ASSUME NEW change, NEW b, Told(i, change, b) PROVE Told(i, change, b)'
  <2>1. PICK N : N = Cardinality(Changes(i))
    OBVIOUS
  <2>2. BiomesOf(i, N, change)' = BiomesOf(i, N, change)
    BY <1>1 DEF BiomesOf
  <2>3. UsersOf(i, N, change)' = UsersOf(i, N, change)
    BY <1>11 DEF UsersOf
  <2>4. /\ change \in InOrder(Changes(i))
        /\ Tells(emitted[i], N, BiomesOf(i, N, change), UsersOf(i, N, change), b)
    BY <1>12, <2>1 DEF Told
  <2>5. Told(i, change, b)' <=>
          /\ change \in InOrder(Changes(i))
          /\ Tells(emitted[i], N, BiomesOf(i, N, change)', UsersOf(i, N, change)', b)
    BY <1>10, <2>1 DEF Told, InOrder, Tells, Start, End
  <2> QED
    BY <2>2, <2>3, <2>4, <2>5
<1>13. PICK state : state = instances[i]
  OBVIOUS
<1>14. Remembers(i)' <=> /\ state.in_target_game <=> InGame(i, n)'
                         /\ LastUser(i, n, state.user)' /\ LastBiome(i, state.biome)'
                         /\ \E change : Told(i, change, state.biome)'
  BY <1>3, <1>13 DEF Remembers, InGame, LastUser, LastBiome, Told, Tells
<1>15. /\ state.in_target_game <=> InGame(i, n)
       /\ LastUser(i, n, state.user) /\ LastBiome(i, state.biome)
       /\ \E change : Told(i, change, state.biome)
  BY <1>3, <1>13 DEF Remembers
<1> QED
  BY <1>4, <1>5, <1>8, <1>12, <1>14, <1>15

\* A life that has not begun.
Blank(i) == log[i] = <<>> /\ instances[i] = Absent /\ emitted[i] = <<>>

LEMMA BlankRemembers ==
  ASSUME NEW i
  PROVE  /\ Blank(i) => Remembers(i)
         /\ Blank(i)' => Remembers(i)'
<1>1. Blank(i) => Remembers(i)
  <2> SUFFICES ASSUME Blank(i) PROVE Remembers(i)
    OBVIOUS
  <2>1. Len(log[i]) = 0 /\ \A k : k \notin 1..0
    BY DEF Blank
  <2>2. /\ ~instances[i].in_target_game /\ instances[i].user = NoUser
        /\ instances[i].biome = NoBiome
    BY DEF Blank, Absent
  <2>3. ~InGame(i, 0) /\ LastUser(i, 0, NoUser)
    BY <2>1 DEF InGame, LastUser
  <2>4. Counted(i) = {} /\ LastBiome(i, NoBiome)
    BY <2>1 DEF Counted, LastBiome
  <2>5. Changes(i) = {}
    BY <2>4 DEF Changes
  <2>6. Cardinality(Changes(i)) = 0
    BY <2>5, FS_EmptySet
  <2>7. PICK f : f = [k \in 1..0 |-> k]
    OBVIOUS
  <2>8. f \in [1..0 -> {}] /\ DOMAIN f = 1..0
    BY <2>1, <2>7
  <2>9. f \in InOrder(Changes(i))
    BY <2>1, <2>5, <2>6, <2>8 DEF InOrder
  <2>10. Len(emitted[i]) = 0
    BY DEF Blank
  <2>11. Told(i, f, NoBiome)
    BY <2>1, <2>6, <2>9, <2>10 DEF Told, Tells
  <2> QED
    BY <2>1, <2>2, <2>3, <2>4, <2>11 DEF Remembers
<1>2. Blank(i)' => Remembers(i)'
  BY <1>1, PTL
<1> QED
  BY <1>1, <1>2

\* The engine's state and stream are what the whole log of each life says.
Faithful == IInv /\ \A i \in Instance : Remembers(i)

LEMMA FaithfulInit == Init => Faithful
<1>1. Init => \A i \in Instance : Blank(i)
  BY DEF Init, Blank
<1> QED
  BY <1>1, InitInductive, BlankRemembers DEF Faithful

LEMMA FaithfulStep ==
  ASSUME Faithful, IInv', [Next]_vars
  PROVE  Faithful'
<1>1. IInv /\ \A i \in Instance : Remembers(i)
  BY DEF Faithful
<1> SUFFICES ASSUME NEW i \in Instance PROVE Remembers(i)'
  BY DEF Faithful, Remembers
<1>2. ASSUME NEW q \in Instance, NEW line \in Lines, Feed(q, line) PROVE Remembers(i)'
  <2>1. CASE q = i
    BY <1>1, <1>2, <2>1, FeedRemembers
  <2>2. CASE q # i
    <3>1. PICK n : n = Len(log[q])
      OBVIOUS
    <3>2. log'[i] = log[i] /\ instances'[i] = instances[i] /\ emitted'[i] = emitted[i]
      BY <1>1, <1>2, <2>2, <3>1, FedLog
    <3> QED
      BY <1>1, <3>2, Untouched
  <2> QED
    BY <2>1, <2>2
<1>3. ASSUME NEW gone, Forget(gone) PROVE Remembers(i)'
  <2>1. CASE i \in gone
    <3>1. Blank(i)'
      BY <1>3, <2>1 DEF Forget, Blank
    <3> QED
      BY <3>1, BlankRemembers
  <2>2. CASE i \notin gone
    <3>1. log'[i] = log[i] /\ instances'[i] = instances[i] /\ emitted'[i] = emitted[i]
      BY <1>3, <2>2 DEF Forget
    <3> QED
      BY <1>1, <3>1, Untouched
  <2> QED
    BY <2>1, <2>2
<1>4. CASE SetPlaceIds \/ UNCHANGED vars
  <2>1. log'[i] = log[i] /\ instances'[i] = instances[i] /\ emitted'[i] = emitted[i]
    BY <1>4 DEF SetPlaceIds, vars
  <2> QED
    BY <1>1, <2>1, Untouched
<1> QED
  BY <1>2, <1>3, <1>4 DEF Next, DropInstance, ClearInstances

\* Whatever lines come, in whatever order, and whenever place_ids change: the events of a
\* life are one for one the changes of biome that its whole log says, each under the account
\* that had logged in by then.  What process_line keeps is all of the log that matters.
THEOREM StreamIsTheLog == Spec => []StreamMatches
<1>1. ASSUME Faithful PROVE StreamMatches
  <2> SUFFICES ASSUME NEW i \in Instance
               PROVE  \E change \in InOrder(Changes(i)) :
                        LET n == Cardinality(Changes(i))
                            at(k) == Parsed(i, change[k]).biome
                            user(k) == UserAt(i, change[k])
                        IN  /\ Len(emitted[i]) = IF n = 0 THEN 0 ELSE 2 * n - 1
                            /\ \A k \in 1..n : emitted[i][2 * k - 1]
                                 = [type |-> "started", biome |-> at(k), user |-> user(k)]
                            /\ \A k \in 1..(n - 1) : emitted[i][2 * k]
                                 = [type |-> "ended", biome |-> at(k), user |-> user(k + 1)]
    BY DEF StreamMatches
  <2>1. PICK change : Told(i, change, instances[i].biome)
    BY <1>1 DEF Faithful, Remembers
  <2>2. PICK n : n = Cardinality(Changes(i))
    OBVIOUS
  <2>3. change \in InOrder(Changes(i)) /\ n \in Nat
    <3>1. Changes(i) \subseteq 1..Len(log[i]) /\ Len(log[i]) \in Nat
      BY <1>1 DEF Faithful, IInv, TypeOK, Changes, Counted
    <3> QED
      BY <2>1, <2>2, <3>1, OrderTyped DEF Told
  <2>4. Tells(emitted[i], n, BiomesOf(i, n, change), UsersOf(i, n, change), instances[i].biome)
    BY <2>1, <2>2 DEF Told
  <2>5. /\ Len(emitted[i]) = IF n = 0 THEN 0 ELSE 2 * n - 1
        /\ \A k \in 1..n : emitted[i][2 * k - 1]
                             = Start(Parsed(i, change[k]).biome, UserAt(i, change[k]))
        /\ \A k \in 1..(n - 1) : emitted[i][2 * k]
                             = End(Parsed(i, change[k]).biome, UserAt(i, change[k + 1]))
    <3>1. \A k \in 1..n : /\ BiomesOf(i, n, change)[k] = Parsed(i, change[k]).biome
                          /\ UsersOf(i, n, change)[k] = UserAt(i, change[k])
      BY DEF BiomesOf, UsersOf
    <3>2. \A k \in 1..(n - 1) : k \in 1..n /\ k + 1 \in 1..n
      BY <2>3
    <3> QED
      BY <2>4, <3>1, <3>2 DEF Tells
  <2> QED
    BY <2>2, <2>3, <2>5 DEF Start, End
<1>2. ASSUME Faithful, IInv, IInv', [Next]_vars PROVE Faithful'
  BY <1>2, FaithfulStep
<1> QED
  BY <1>1, <1>2, FaithfulInit, Inductive, PTL DEF Spec

-----------------------------------------------------------------------------
(***************************************************************************)
(* The log watcher.  Replay is first proved to do in two parts what it does*)
(* at once (ReplayConcat), then an invariant says of every log what was    *)
(* read of it, between the read and the feed of a visit as well.           *)
(***************************************************************************)

\* Induction up to n, on a set.
LEMMA Reaches ==
  ASSUME NEW n \in Nat, NEW S, 0 \in S, \A k \in 1..n : k - 1 \in S => k \in S
  PROVE  \A k \in 0..n : k \in S
<1> DEFINE Missing == {m \in Nat : m \in 0..n /\ m \notin S}
<1> SUFFICES ASSUME Missing # {} PROVE FALSE
  OBVIOUS
<1>1. PICK m \in Missing : \A j \in Missing : ~(<<j, m>> \in OpToRel(<, Nat))
  <2>1. Missing \subseteq Nat
    OBVIOUS
  <2> HIDE DEF Missing
  <2> QED
    BY <2>1, NatLessThanWellFounded, WFMin
<1>2. m \in 1..n /\ m \notin S /\ m - 1 \in 0..n
  OBVIOUS
<1>3. <<m - 1, m>> \in OpToRel(<, Nat)
  BY <1>2 DEF OpToRel
<1>4. m - 1 \notin Missing
  BY <1>1, <1>3
<1> QED
  BY <1>2, <1>4

\* The recursive function in Replay, up to half n.
ReplaysTo(after, n, state, halves) ==
  /\ after = [k \in 0..n |-> after[k]]
  /\ after[0] = [state |-> state, events |-> <<>>]
  /\ \A k \in 1..n : after[k] = AtHalf(after[k - 1], halves, k)

Replays(after, state, halves) ==
  after = [k \in 0..Len(halves) |->
             IF k = 0 THEN [state |-> state, events |-> <<>>]
             ELSE AtHalf(after[k - 1], halves, k)]

LEMMA ReplayExists ==
  ASSUME NEW state, NEW halves, NEW n \in Nat
  PROVE  \E after : ReplaysTo(after, n, state, halves)
<1> DEFINE S == {m \in Nat : \E after : ReplaysTo(after, m, state, halves)}
<1>1. 0 \in S
  <2>1. ReplaysTo([k \in 0..0 |-> [state |-> state, events |-> <<>>]], 0, state, halves)
    BY DEF ReplaysTo
  <2> QED
    BY <2>1
<1>2. ASSUME NEW m \in 1..n, m - 1 \in S PROVE m \in S
  <2>1. PICK f : ReplaysTo(f, m - 1, state, halves)
    BY <1>2
  <2> DEFINE g == [k \in 0..m |-> IF k = m THEN AtHalf(f[m - 1], halves, m) ELSE f[k]]
  <2>2. \A k \in 0..(m - 1) : g[k] = f[k]
    OBVIOUS
  <2>3. g[m] = AtHalf(f[m - 1], halves, m)
    OBVIOUS
  <2>4. g = [k \in 0..m |-> g[k]]
    OBVIOUS
  <2>5. /\ f[0] = [state |-> state, events |-> <<>>]
        /\ \A k \in 1..(m - 1) : f[k] = AtHalf(f[k - 1], halves, k)
    BY <2>1 DEF ReplaysTo
  <2> HIDE DEF g
  <2>6. ASSUME NEW k \in 1..m PROVE g[k] = AtHalf(g[k - 1], halves, k)
    <3>1. g[k - 1] = f[k - 1]
      BY <2>2
    <3>2. k # m => k \in 1..(m - 1) /\ g[k] = f[k]
      BY <2>2
    <3> QED
      BY <2>3, <2>5, <3>1, <3>2
  <2>7. g[0] = f[0]
    BY <2>2
  <2>8. ReplaysTo(g, m, state, halves)
    BY <2>4, <2>5, <2>6, <2>7 DEF ReplaysTo
  <2> QED
    BY <2>8
<1>3. n \in 0..n
  OBVIOUS
<1> HIDE DEF S
<1>4. n \in S
  BY <1>1, <1>2, <1>3, Reaches
<1> QED
  BY <1>4 DEF S

\* Replay is the last value of its recursion.
LEMMA ReplayIs ==
  ASSUME NEW state, NEW halves, Len(halves) \in Nat
  PROVE  \E after : /\ ReplaysTo(after, Len(halves), state, halves)
                    /\ Replay(state, halves) = after[Len(halves)]
<1>1. PICK f : ReplaysTo(f, Len(halves), state, halves)
  BY ReplayExists
<1>2. Replays(f, state, halves)
  BY <1>1 DEF ReplaysTo, Replays
<1> DEFINE g == CHOOSE after : Replays(after, state, halves)
<1>3. Replays(g, state, halves)
  BY <1>2
<1>4. Replay(state, halves) = g[Len(halves)]
  BY DEF Replay, Replays
<1> HIDE DEF g
<1>5. ReplaysTo(g, Len(halves), state, halves)
  BY <1>3 DEF ReplaysTo, Replays
<1> QED
  BY <1>4, <1>5

Progress == [state : InstanceState, events : Seq(Event)]

LEMMA LineTyped ==
  ASSUME NEW state \in InstanceState, NEW line \in RawLine
  PROVE  /\ ProcessLine(state, line, {}).state \in InstanceState
         /\ ProcessLine(state, line, {}).events \in Seq(Event)
<1> DEFINE new == ProcessLine(state, line, {}).state
           events == ProcessLine(state, line, {}).events
<1>1. new \in InstanceState /\ Effect(state, new, events)
  BY LineEffect
<1> HIDE DEF new, events
<1>2. ASSUME NEW b, NEW u, Begins(new, b, u), events = <<Start(b, u)>>
      PROVE  events \in Seq(Event)
  <2>1. Start(b, u) \in Event
    BY <1>2 DEF Begins, Start, Event
  <2> QED
    BY <1>2, <2>1
<1>3. ASSUME NEW b, NEW u, Begins(new, b, u), state.biome # NoBiome,
             events = <<End(state.biome, u), Start(b, u)>>
      PROVE  events \in Seq(Event)
  <2>1. Start(b, u) \in Event /\ End(state.biome, u) \in Event
    BY <1>3 DEF Begins, Start, End, Event, InstanceState
  <2> QED
    BY <1>3, <2>1
<1>4. events \in Seq(Event)
  BY <1>1, <1>2, <1>3, EmptySeq DEF Effect
<1> QED
  BY <1>1, <1>4 DEF new, events

LEMMA HalfTyped ==
  ASSUME NEW sofar \in Progress, NEW halves \in Seq(Half), NEW k \in 1..Len(halves)
  PROVE  LineAt(halves, k) \in RawLine /\ AtHalf(sofar, halves, k) \in Progress
<1> DEFINE line == LineAt(halves, k)
<1>1. line \in RawLine
  <2>1. halves[k].line \in RawLine
    <3>1. halves[k] \in Half
      BY ElementOfSeq
    <3> QED
      BY <3>1, LinesAssumption DEF Half
  <2>2. [marker |-> "none"] \in RawLine
    BY DEF RawLine, NoiseLine
  <2> QED
    BY <2>1, <2>2 DEF LineAt
<1> HIDE DEF line
<1> DEFINE result == ProcessLine(sofar.state, line, {})
<1>2. result.state \in InstanceState /\ result.events \in Seq(Event)
  BY <1>1, LineTyped DEF Progress
<1>3. sofar.state \in InstanceState /\ sofar.events \in Seq(Event)
  BY DEF Progress
<1>4. AtHalf(sofar, halves, k)
        = IF halves[k].part = 1 THEN sofar
          ELSE [state |-> result.state, events |-> sofar.events \o result.events]
  BY DEF AtHalf, line
<1> HIDE DEF result
<1>5. sofar.events \o result.events \in Seq(Event)
  BY <1>2, <1>3, ConcatProperties
<1> QED
  BY <1>1, <1>2, <1>4, <1>5 DEF Progress, line

LEMMA AllTyped ==
  ASSUME NEW state \in InstanceState, NEW halves \in Seq(Half), NEW after,
         ReplaysTo(after, Len(halves), state, halves)
  PROVE  \A k \in 0..Len(halves) : after[k] \in Progress
<1> DEFINE S == {k \in Nat : after[k] \in Progress}
<1>1. 0 \in S
  <2>1. [state |-> state, events |-> <<>>] \in Progress
    BY EmptySeq DEF Progress
  <2> QED
    BY <2>1 DEF ReplaysTo
<1>2. ASSUME NEW k \in 1..Len(halves), k - 1 \in S PROVE k \in S
  <2>1. after[k - 1] \in Progress /\ k \in Nat
    BY <1>2
  <2>2. AtHalf(after[k - 1], halves, k) \in Progress
    BY <2>1, HalfTyped
  <2>3. after[k] = AtHalf(after[k - 1], halves, k)
    BY DEF ReplaysTo
  <2> QED
    BY <2>1, <2>2, <2>3
<1> HIDE DEF S
<1>3. \A k \in 0..Len(halves) : k \in S
  BY <1>1, <1>2, Reaches, LenProperties
<1> QED
  BY <1>3 DEF S

LEMMA ReplayTyped ==
  ASSUME NEW state \in InstanceState, NEW halves \in Seq(Half)
  PROVE  Replay(state, halves) \in Progress
<1>1. Len(halves) \in Nat /\ Len(halves) \in 0..Len(halves)
  BY LenProperties
<1>2. PICK after : /\ ReplaysTo(after, Len(halves), state, halves)
                   /\ Replay(state, halves) = after[Len(halves)]
  BY <1>1, ReplayIs
<1> QED
  BY <1>1, <1>2, AllTyped

LEMMA EventsAssociate ==
  ASSUME NEW s \in Seq(Event), NEW t \in Seq(Event), NEW u \in Seq(Event)
  PROVE  (s \o t) \o u = s \o (t \o u)
BY ConcatAssociative

\* AtHalf, from what it takes of the halves.
Adds(sofar, part, line) ==
  LET result == ProcessLine(sofar.state, line, {}) IN
  IF part = 1 THEN sofar
  ELSE [state |-> result.state, events |-> sofar.events \o result.events]

\* The same line, fed to the same state, adds the same events.
Ahead(x, z, y) == x.state = y.state /\ x.events = z \o y.events
LEMMA AddsSame ==
  ASSUME NEW x \in Progress, NEW y \in Progress, NEW z \in Seq(Event), Ahead(x, z, y),
         NEW part, NEW line \in RawLine
  PROVE  Ahead(Adds(x, part, line), z, Adds(y, part, line))
<1> DEFINE result == ProcessLine(y.state, line, {})
           xs == x.events
           ys == y.events
           rs == result.events
<1>1. rs \in Seq(Event) /\ ys \in Seq(Event) /\ x.state = y.state /\ xs = z \o ys
  <2>1. y.state \in InstanceState /\ ys \in Seq(Event)
    BY DEF Progress
  <2>2. rs \in Seq(Event)
    BY <2>1, LineTyped
  <2> QED
    BY <2>1, <2>2 DEF Ahead
<1>2. /\ Adds(x, part, line)
           = IF part = 1 THEN x ELSE [state |-> result.state, events |-> xs \o rs]
      /\ Adds(y, part, line)
           = IF part = 1 THEN y ELSE [state |-> result.state, events |-> ys \o rs]
  <2>1. ProcessLine(x.state, line, {}) = result
    BY <1>1
  <2> HIDE DEF result
  <2> QED
    BY <2>1 DEF Adds, result
<1>3. CASE part = 1
  BY <1>1, <1>2, <1>3 DEF Ahead
<1>4. CASE part # 1
  <2> HIDE DEF xs, ys, rs
  <2>1. xs \o rs = z \o (ys \o rs)
    <3>1. (z \o ys) \o rs = z \o (ys \o rs)
      BY <1>1, EventsAssociate
    <3> QED
      BY <1>1, <3>1
  <2>2. /\ Adds(x, part, line) = [state |-> result.state, events |-> xs \o rs]
        /\ Adds(y, part, line) = [state |-> result.state, events |-> ys \o rs]
    BY <1>2, <1>4
  <2> HIDE DEF result
  <2>3. /\ Adds(x, part, line).state = result.state /\ Adds(x, part, line).events = xs \o rs
        /\ Adds(y, part, line).state = result.state /\ Adds(y, part, line).events = ys \o rs
    BY <2>2
  <2> QED
    BY <2>1, <2>3 DEF Ahead
<1> QED
  BY <1>3, <1>4

LEMMA RemainderIs ==
  ASSUME NEW s \in Seq(Half)
  PROVE  \/ s = <<>> /\ Len(s) = 0 /\ Remainder(s) = <<>>
         \/ s # <<>> /\ Len(s) \in 1..Len(s) /\ s[Len(s)].part = 2 /\ Remainder(s) = <<>>
         \/ /\ s # <<>> /\ Len(s) \in 1..Len(s) /\ s[Len(s)].part = 1
            /\ Remainder(s) = <<s[Len(s)]>> /\ Remainder(s) # <<>>
<1>1. Len(s) \in Nat /\ (s = <<>> <=> Len(s) = 0)
  BY LenProperties, EmptySeq
<1>2. CASE s = <<>>
  BY <1>1, <1>2 DEF Remainder
<1>3. CASE s # <<>>
  <2>1. Len(s) \in 1..Len(s)
    BY <1>1, <1>3
  <2>2. s[Len(s)] \in Half
    BY <2>1, ElementOfSeq
  <2>3. s[Len(s)].part \in {1, 2}
    BY <2>2 DEF Half
  <2> QED
    BY <1>3, <2>1, <2>3 DEF Remainder, Last
<1> QED
  BY <1>2, <1>3

LEMMA RemainderTyped ==
  ASSUME NEW s \in Seq(Half)
  PROVE  Remainder(s) \in Seq(Half) /\ Len(Remainder(s)) <= 1
         /\ Len(Remainder(s)) <= Len(s) /\ Len(Remainder(s)) \in Nat
<1>1. <<>> \in Seq(Half) /\ Len(<<>>) = 0 /\ Len(s) \in Nat
  BY EmptySeq, LenProperties
<1>2. ASSUME s # <<>>, Len(s) \in 1..Len(s)
      PROVE  <<s[Len(s)]>> \in Seq(Half) /\ Len(<<s[Len(s)]>>) = 1
  <2>1. s[Len(s)] \in Half
    BY <1>2, ElementOfSeq
  <2> QED
    BY <2>1
<1>3. CASE Remainder(s) = <<>>
  BY <1>1, <1>3
<1>4. CASE s # <<>> /\ Len(s) \in 1..Len(s) /\ Remainder(s) = <<s[Len(s)]>>
  BY <1>1, <1>2, <1>4
<1> QED
  BY <1>3, <1>4, RemainderIs

\* Keeping what follows the last newline and reading on leaves the same remainder.
LEMMA RemainderConcat ==
  ASSUME NEW past \in Seq(Half), NEW chunk \in Seq(Half)
  PROVE  Remainder(Remainder(past) \o chunk) = Remainder(past \o chunk)
<1> DEFINE r == Remainder(past)  a == r \o chunk  b == past \o chunk
<1>1. r \in Seq(Half) /\ Len(r) \in Nat /\ Len(past) \in Nat /\ Len(chunk) \in Nat
  BY RemainderTyped, LenProperties
<1>2. /\ a \in Seq(Half) /\ Len(a) = Len(r) + Len(chunk)
      /\ b \in Seq(Half) /\ Len(b) = Len(past) + Len(chunk)
  BY <1>1, ConcatProperties
<1>3. CASE chunk = <<>>
  <2>1. a = r /\ b = past
    BY <1>1, <1>3, ConcatEmptySeq
  <2>2. Remainder(r) = r
    <3>1. CASE r = <<>>
      BY <3>1 DEF Remainder
    <3>2. CASE past # <<>> /\ past[Len(past)].part = 1 /\ r = <<past[Len(past)]>>
      <4>1. r # <<>> /\ Len(r) = 1 /\ r[1] = past[Len(past)]
        BY <3>2
      <4> HIDE DEF r
      <4>2. Last(r).part = 1 /\ r = <<Last(r)>>
        BY <3>2, <4>1 DEF Last
      <4> QED
        BY <4>1, <4>2 DEF Remainder
    <3> QED
      BY <3>1, <3>2, RemainderIs
  <2> QED
    BY <2>1, <2>2
<1>4. CASE chunk # <<>>
  <2>1. Len(chunk) > 0
    BY <1>1, <1>4, EmptySeq
  <2>2. a # <<>> /\ b # <<>>
    BY <1>1, <1>2, <2>1, EmptySeq
  <2>3. a[Len(a)] = chunk[Len(chunk)]
    BY <1>1, <1>2, <2>1, ConcatProperties
  <2>4. b[Len(b)] = chunk[Len(chunk)]
    BY <1>1, <1>2, <2>1, ConcatProperties
  <2> HIDE DEF a, b
  <2> QED
    BY <2>2, <2>3, <2>4 DEF Remainder, Last
<1> QED
  BY <1>3, <1>4

LEMMA ReplayConcat ==
  ASSUME NEW state \in InstanceState, NEW past \in Seq(Half), NEW chunk \in Seq(Half)
  PROVE  LET first == Replay(state, past)
             rest == Replay(first.state, Remainder(past) \o chunk)
         IN  /\ Replay(state, past \o chunk).state = rest.state
             /\ Replay(state, past \o chunk).events = first.events \o rest.events
<1> DEFINE left == Remainder(past)
           old == Len(past)
           kept == Len(left)
           more == Len(chunk)
           whole == past \o chunk
           data == left \o chunk
           first == Replay(state, past)
<1>1. /\ left \in Seq(Half) /\ kept \in Nat /\ kept <= 1 /\ kept <= old
      /\ old \in Nat /\ more \in Nat
  BY RemainderTyped, LenProperties
<1>2. whole \in Seq(Half) /\ Len(whole) = old + more
  BY ConcatProperties
<1>3. data \in Seq(Half) /\ Len(data) = kept + more
  BY <1>1, ConcatProperties
<1>4. first \in Progress /\ first.state \in InstanceState /\ first.events \in Seq(Event)
  BY ReplayTyped DEF Progress
<1>5. \A k \in 1..old : whole[k] = past[k]
  <2>1. \A k \in 1..(old + more) : whole[k] = IF k <= old THEN past[k] ELSE chunk[k - old]
    BY ConcatProperties
  <2> HIDE DEF whole
  <2> QED
    BY <1>1, <2>1
<1>6. \A k \in 1..more : whole[old + k] = chunk[k] /\ data[kept + k] = chunk[k]
  <2>1. \A k \in 1..(old + more) : whole[k] = IF k <= old THEN past[k] ELSE chunk[k - old]
    BY ConcatProperties
  <2>2. \A k \in 1..(kept + more) : data[k] = IF k <= kept THEN left[k] ELSE chunk[k - kept]
    BY <1>1, ConcatProperties
  <2> HIDE DEF whole, data, old, kept, more
  <2>3. ASSUME NEW k \in 1..more PROVE whole[old + k] = chunk[k]
    <3>1. old + k \in 1..(old + more) /\ ~(old + k <= old) /\ (old + k) - old = k
      BY <1>1
    <3> QED
      BY <2>1, <3>1
  <2>4. ASSUME NEW k \in 1..more PROVE data[kept + k] = chunk[k]
    <3>1. kept + k \in 1..(kept + more) /\ ~(kept + k <= kept) /\ (kept + k) - kept = k
      BY <1>1
    <3> QED
      BY <2>2, <3>1
  <2> QED
    BY <2>3, <2>4
\* The half-line kept, if any, is the last half of the past.
<1>17. \/ kept = 0 /\ old = 0
       \/ kept = 0 /\ old \in 1..old /\ past[old].part = 2
       \/ kept = 1 /\ old \in 1..old /\ past[old].part = 1 /\ data[1] = past[old]
  <2>1. CASE left = <<>>
    BY <2>1, RemainderIs
  <2>2. CASE old \in 1..old /\ past[old].part = 1 /\ left = <<past[old]>>
    <3>1. kept = 1 /\ left[1] = past[old]
      BY <2>2
    <3>2. \A k \in 1..(kept + more) : data[k] = IF k <= kept THEN left[k] ELSE chunk[k - kept]
      BY <1>1, ConcatProperties
    <3> HIDE DEF left, old, kept, more, data
    <3>3. data[1] = left[1]
      BY <1>1, <3>1, <3>2
    <3> QED
      BY <2>2, <3>1, <3>3
  <2> QED
    BY <2>1, <2>2, RemainderIs
<1> HIDE DEF whole, data, first, left, old, kept, more
<1>7. PICK f : ReplaysTo(f, old, state, past) /\ first = f[old]
  BY <1>1, ReplayIs DEF old, first
<1>8. PICK g : ReplaysTo(g, old + more, state, whole) /\ Replay(state, whole) = g[old + more]
  BY <1>1, <1>2, ReplayIs
<1>9. PICK h : /\ ReplaysTo(h, kept + more, first.state, data)
               /\ Replay(first.state, data) = h[kept + more]
  <2> DEFINE start == first.state
  <2> HIDE DEF start
  <2>1. Len(data) \in Nat
    BY <1>3, LenProperties
  <2>2. \E h : ReplaysTo(h, Len(data), start, data) /\ Replay(start, data) = h[Len(data)]
    BY <2>1, ReplayIs
  <2> QED
    BY <1>3, <2>2 DEF start
<1>10. /\ \A k \in 0..(old + more) : g[k] \in Progress
       /\ \A k \in 0..(kept + more) : h[k] \in Progress
  BY <1>2, <1>3, <1>4, <1>8, <1>9, AllTyped
\* Up to the end of the past, the whole is replayed as the past was.
<1>11. g[old] = f[old]
  <2> DEFINE S == {k \in Nat : g[k] = f[k]}
  <2>1. 0 \in S
    BY <1>7, <1>8 DEF ReplaysTo
  <2>2. ASSUME NEW k \in 1..old, k - 1 \in S PROVE k \in S
    <3>0. k \in 1..(old + more)
      BY <1>1
    <3>1. g[k] = AtHalf(g[k - 1], whole, k) /\ f[k] = AtHalf(f[k - 1], past, k)
      BY <1>7, <1>8, <3>0 DEF ReplaysTo
    <3>2. g[k - 1] = f[k - 1]
      BY <2>2
    <3>3. whole[k] = past[k] /\ (k > 1 => whole[k - 1] = past[k - 1])
      BY <1>1, <1>5
    <3>4. LineAt(whole, k) = LineAt(past, k)
      BY <3>3 DEF LineAt
    <3>5. AtHalf(g[k - 1], whole, k) = AtHalf(f[k - 1], past, k)
      BY <3>2, <3>3, <3>4 DEF AtHalf
    <3> QED
      BY <3>1, <3>5
  <2> HIDE DEF S
  <2>3. \A k \in 0..old : k \in S
    BY <1>1, <2>1, <2>2, Reaches
  <2>4. old \in S
    BY <1>1, <2>3
  <2> QED
    BY <2>4 DEF S
\* The remainder alone changes nothing.
<1>12. h[kept] = [state |-> first.state, events |-> <<>>]
  <2>1. h[0] = [state |-> first.state, events |-> <<>>]
    BY <1>9 DEF ReplaysTo
  <2>2. CASE kept = 0
    BY <2>1, <2>2
  <2>3. CASE kept = 1 /\ data[1].part = 1
    <3>1. 1 \in 1..(kept + more) /\ 1 - 1 = 0
      BY <1>1, <2>3
    <3>2. h[1] = AtHalf(h[0], data, 1)
      BY <1>9, <3>1 DEF ReplaysTo
    <3>3. AtHalf(h[0], data, 1) = h[0]
      BY <2>3 DEF AtHalf
    <3> QED
      BY <2>1, <2>3, <3>2, <3>3
  <2> QED
    BY <1>17, <2>2, <2>3
\* Beyond it the two replays see the same lines.
<1>13. ASSUME NEW k \in 1..more
       PROVE  LineAt(whole, old + k) = LineAt(data, kept + k)
  <2>1. whole[old + k] = data[kept + k]
    BY <1>6
  <2>2. CASE k > 1
    <3>1. k - 1 \in 1..more /\ (old + k) - 1 = old + (k - 1) /\ (kept + k) - 1 = kept + (k - 1)
      BY <1>1, <2>2
    <3>2. whole[(old + k) - 1] = data[(kept + k) - 1]
      BY <1>6, <3>1
    <3>3. old + k > 1 /\ kept + k > 1
      BY <1>1, <2>2
    <3> QED
      BY <2>1, <3>2, <3>3 DEF LineAt
  <2>3. CASE k = 1 /\ kept = 1 /\ old \in 1..old /\ data[1] = past[old]
    <3>1. whole[old] = past[old]
      BY <1>5, <2>3
    <3>2. old + k > 1 /\ kept + k > 1 /\ (old + k) - 1 = old /\ (kept + k) - 1 = 1
      BY <1>1, <2>3
    <3> QED
      BY <2>1, <2>3, <3>1, <3>2 DEF LineAt
  <2>4. CASE k = 1 /\ kept = 0 /\ old = 0
    <3>1. ~(old + k > 1) /\ ~(kept + k > 1)
      BY <2>4
    <3> QED
      BY <3>1 DEF LineAt
  <2>5. CASE k = 1 /\ kept = 0 /\ old \in 1..old /\ past[old].part = 2
    <3>1. whole[old] = past[old] /\ (old + k) - 1 = old
      BY <1>1, <1>5, <2>5
    <3>2. whole[(old + k) - 1].part = 2
      BY <2>5, <3>1
    <3>3. whole[(old + k) - 1] # [line |-> whole[old + k].line, part |-> 1]
      BY <3>2
    <3>4. ~(kept + k > 1)
      BY <2>5
    <3> QED
      BY <3>3, <3>4 DEF LineAt
  <2>6. k > 1 \/ k = 1
    OBVIOUS
  <2> QED
    BY <1>17, <2>2, <2>3, <2>4, <2>5, <2>6
<1> DEFINE Same == {k \in Nat : /\ g[old + k].state = h[kept + k].state
                                /\ g[old + k].events = first.events \o h[kept + k].events}
<1>14. 0 \in Same
  <2>1. old + 0 = old /\ kept + 0 = kept
    BY <1>1
  <2>2. first.events \o <<>> = first.events
    BY <1>4, ConcatEmptySeq
  <2>3. g[old] = first /\ h[kept].state = first.state /\ h[kept].events = <<>>
    BY <1>7, <1>11, <1>12
  <2> QED
    BY <2>1, <2>2, <2>3
<1>15. ASSUME NEW k \in 1..more, k - 1 \in Same PROVE k \in Same
  <2>1. /\ old + k \in 1..(old + more) /\ (old + k) - 1 = old + (k - 1)
        /\ kept + k \in 1..(kept + more) /\ (kept + k) - 1 = kept + (k - 1)
        /\ old + (k - 1) \in 0..(old + more) /\ kept + (k - 1) \in 0..(kept + more)
    BY <1>1
  <2> DEFINE x == g[old + (k - 1)]
             y == h[kept + (k - 1)]
             i == old + k
             j == kept + k
             part == data[j].part
             line == LineAt(data, j)
             told == first.events
  <2>2. whole[i] = data[j] /\ LineAt(whole, i) = line
    BY <1>6, <1>13
  <2>3. i \in 1..Len(whole) /\ j \in 1..Len(data) /\ i - 1 = old + (k - 1) /\ j - 1 = kept + (k - 1)
    BY <1>2, <1>3, <2>1
  <2>4. Ahead(x, told, y) /\ told \in Seq(Event)
    BY <1>4, <1>15 DEF Ahead
  <2>5. x \in Progress /\ y \in Progress
    BY <1>10, <2>1
  <2>6. g[i] = AtHalf(x, whole, i) /\ h[j] = AtHalf(y, data, j)
    BY <1>8, <1>9, <2>1 DEF ReplaysTo
  <2>7. line \in RawLine
    BY <1>3, <2>3, <2>5, HalfTyped
  <2>8. g[i] = Adds(x, part, line) /\ h[j] = Adds(y, part, line)
    BY <2>2, <2>6 DEF AtHalf, Adds
  <2> HIDE DEF x, y, i, j, part, line, told
  <2>9. Ahead(Adds(x, part, line), told, Adds(y, part, line))
    BY <2>4, <2>5, <2>7, AddsSame
  <2>10. g[i].state = h[j].state /\ g[i].events = told \o h[j].events
    BY <2>8, <2>9 DEF Ahead
  <2>11. k \in Nat
    BY <1>1
  <2> QED
    BY <2>10, <2>11, Zenon DEF i, j, told
<1>16. more \in Same
  <2> HIDE DEF Same
  <2>1. \A k \in 0..more : k \in Same
    BY <1>1, <1>14, <1>15, Reaches
  <2> QED
    BY <1>1, <2>1
<1>18. /\ Replay(state, whole).state = Replay(first.state, data).state
       /\ Replay(state, whole).events = first.events \o Replay(first.state, data).events
  BY <1>8, <1>9, <1>16
<1> QED
  BY <1>18 DEF whole, data, first, left

-----------------------------------------------------------------------------

\* The first n halves of a log.
Past(f, n) == SubSeq(content[f], 1, n)

\* Nothing is known of a log; or its first n halves were read and fed.
Fresh(f) == engine_instances[f] = Absent /\ buffers[f] = <<>>
UpTo(f, n) ==
  /\ n <= Len(content[f])
  /\ engine_instances[f] = Replay(Absent, Past(f, n)).state
  /\ buffers[f] = Remainder(Past(f, n))
  /\ seeded[f] <= n
  /\ Replay(Absent, Past(f, seeded[f])).events \o queued[f] = Replay(Absent, Past(f, n)).events

\* Between the read and the feed the offset is already that of the chunk's end: what
\* was fed stops at the chunk's start.
In(f, step) == current # Nobody /\ current.file = f /\ current.step = step
Between(f) ==
  \E n \in 0..offsets[f] :
    /\ current.chunk = SubSeq(content[f], n + 1, offsets[f])
    /\ current.seeding => n = 0 /\ Fresh(f)
    /\ ~current.seeding => UpTo(f, n)

Read(f) ==
  /\ clearing => offsets[f] = None
  /\ ~clearing /\ offsets[f] = None => Fresh(f)
  /\ offsets[f] # None /\ ~In(f, "feed") => UpTo(f, offsets[f])
  /\ In(f, "read") => (current.seeding <=> offsets[f] = None)
  /\ In(f, "feed") => offsets[f] # None /\ offsets[f] <= Len(content[f]) /\ Between(f)

Bounded ==
  /\ \A f \in File : Len(content[f]) + budget.halves <= MaxHalves
  /\ current # Nobody => Len(current.chunk) <= MaxHalves

\* A scan that meets set_log_dir leaves no file to speak of.
Exclusive ==
  /\ current # Nobody => scanning
  /\ scanning /\ clearing => tainted = File

WatcherIInv ==
  /\ WatcherTypeOK /\ Bounded /\ Exclusive
  /\ \A f \in File \ tainted : Read(f)

LEMMA AbsentTyped == Absent \in InstanceState
BY DEF Absent, InstanceState

LEMMA WatcherInitially == WatcherInit => WatcherIInv
<1> SUFFICES ASSUME WatcherInit PROVE WatcherIInv
  OBVIOUS
<1>1. budget = [halves |-> MaxHalves, mishaps |-> MaxMishaps, changes |-> MaxChanges]
  BY DEF WatcherInit
<1>2. WatcherTypeOK
  <2>1. budget \in [halves : 0..MaxHalves, mishaps : 0..MaxMishaps,
                    changes : 0..MaxChanges]
    BY <1>1, WatcherAssumption
  <2>2. log_dir \in Dir /\ 0 \in 0..MaxHalves
    BY WatcherAssumption DEF WatcherInit
  <2>3. /\ <<>> \in Seq(Half) /\ <<>> \in Seq(Event) /\ Len(<<>>) <= 1
    BY EmptySeq
  <2>4. /\ content \in [File -> Seq(Half)]
        /\ buffers \in [File -> Seq(Half)] /\ \A f \in File : Len(buffers[f]) <= 1
    BY <2>3 DEF WatcherInit
  <2>5. /\ engine_instances \in [File -> InstanceState]
        /\ seeded \in [File -> 0..MaxHalves] /\ queued \in [File -> Seq(Event)]
        /\ offsets \in [File -> {None} \cup 0..MaxHalves]
    BY <2>2, <2>3, AbsentTyped DEF WatcherInit
  <2> QED
    BY <2>1, <2>2, <2>4, <2>5 DEF WatcherInit, WatcherTypeOK
<1>3. Bounded /\ Exclusive
  BY <1>1, WatcherAssumption DEF WatcherInit, Bounded, Exclusive
<1>4. ASSUME NEW f \in File PROVE Read(f)
  BY DEF WatcherInit, Read, In, Fresh
<1> QED
  BY <1>2, <1>3, <1>4 DEF WatcherIInv

-----------------------------------------------------------------------------

\* A sequence that grew still starts as it did.
LEMMA SubSeqGrows ==
  ASSUME NEW S, NEW s \in Seq(S), NEW x \in S, NEW m \in 1..(Len(s) + 1), NEW n \in (m - 1)..Len(s)
  PROVE  SubSeq(Append(s, x), m, n) = SubSeq(s, m, n)
<1> DEFINE t == Append(s, x)
<1>1. t \in Seq(S) /\ Len(t) = Len(s) + 1 /\ \A i \in 1..Len(s) : t[i] = s[i]
  BY AppendProperties
<1> HIDE DEF t
<1>2. Len(s) \in Nat
  BY LenProperties
<1>3. SubSeq(t, m, n) \in Seq(S) /\ SubSeq(s, m, n) \in Seq(S)
  BY <1>1, <1>2
<1>4. Len(SubSeq(t, m, n)) = Len(SubSeq(s, m, n))
  BY <1>1, <1>2
<1>5. \A i \in 1..Len(SubSeq(t, m, n)) : SubSeq(t, m, n)[i] = SubSeq(s, m, n)[i]
  BY <1>1, <1>2
<1>6. SubSeq(t, m, n) = SubSeq(s, m, n)
  BY <1>3, <1>4, <1>5, SeqEqual
<1> QED
  BY <1>6 DEF t

\* The log is what it was, or longer.
Grew(f) ==
  /\ content[f] \in Seq(Half) /\ content'[f] \in Seq(Half) /\ Len(content[f]) <= Len(content'[f])
  /\ \A m \in 1..(Len(content[f]) + 1) : \A n \in (m - 1)..Len(content[f]) :
       SubSeq(content'[f], m, n) = SubSeq(content[f], m, n)

\* The memory of a log is what it was.
Kept(f) ==
  /\ offsets'[f] = offsets[f] /\ buffers'[f] = buffers[f]
  /\ engine_instances'[f] = engine_instances[f]
  /\ seeded'[f] = seeded[f] /\ queued'[f] = queued[f]

LEMMA UpToKept ==
  ASSUME WatcherTypeOK, NEW f \in File, Grew(f), Kept(f), NEW n \in Nat, UpTo(f, n)
  PROVE  UpTo(f, n)'
<1>1. seeded[f] \in Nat /\ seeded[f] <= n /\ n <= Len(content[f]) /\ Len(content[f]) \in Nat
  BY WatcherAssumption, LenProperties DEF WatcherTypeOK, UpTo, Grew
<1>2. \A k \in 0..Len(content[f]) : Past(f, k)' = Past(f, k)
  BY <1>1 DEF Past, Grew
<1>3. Past(f, n)' = Past(f, n) /\ Past(f, seeded[f])' = Past(f, seeded[f])
  BY <1>1, <1>2 DEF Kept, Past
<1>4. n <= Len(content'[f]) /\ Len(content'[f]) \in Nat
  BY <1>1, LenProperties DEF Grew
<1> QED
  BY <1>1, <1>3, <1>4 DEF UpTo, Kept, Past

\* Whatever leaves the memory of a log alone keeps what is known of it, while its visit
\* goes on or when it is not between the read and the feed.
LEMMA ReadKept ==
  ASSUME WatcherTypeOK, NEW f \in File, Read(f), Grew(f), Kept(f), clearing' = clearing,
         \/ current' = current
         \/ /\ ~In(f, "feed") /\ ~In(f, "feed")'
            /\ In(f, "read")' => (current'.seeding <=> offsets'[f] = None)
  PROVE  Read(f)'
<1>1. offsets[f] = None \/ offsets[f] \in Nat
  BY WatcherAssumption DEF WatcherTypeOK
<1>2. offsets[f] \in Nat /\ UpTo(f, offsets[f]) => UpTo(f, offsets[f])'
  BY UpToKept DEF Kept, UpTo, Past
<1>3. Fresh(f)' <=> Fresh(f)
  BY DEF Fresh, Kept
<1>4. CASE current' = current
  <2>1. ASSUME In(f, "feed") PROVE offsets[f] <= Len(content'[f]) /\ Between(f)'
    <3>1. /\ offsets[f] # None /\ offsets[f] <= Len(content[f])
          /\ Between(f) /\ offsets[f] \in Nat
      BY <1>1, <2>1 DEF Read
    <3>2. PICK n \in 0..offsets[f] :
            /\ current.chunk = SubSeq(content[f], n + 1, offsets[f])
            /\ current.seeding => n = 0 /\ Fresh(f)
            /\ ~current.seeding => UpTo(f, n)
      BY <3>1 DEF Between
    <3>3. /\ Len(content[f]) \in Nat /\ Len(content'[f]) \in Nat
          /\ Len(content[f]) <= Len(content'[f])
      BY LenProperties DEF Grew
    <3>4. n + 1 \in 1..(Len(content[f]) + 1) /\ offsets[f] \in ((n + 1) - 1)..Len(content[f])
      BY <3>1, <3>3
    <3>5. SubSeq(content'[f], n + 1, offsets[f]) = SubSeq(content[f], n + 1, offsets[f])
      BY <3>4 DEF Grew
    <3>6. ~current.seeding => UpTo(f, n)'
      BY <3>1, <3>2, UpToKept
    <3>7. Between(f)'
      BY <1>3, <1>4, <3>2, <3>5, <3>6 DEF Between, Kept
    <3> QED
      BY <3>1, <3>3, <3>7
  <2> QED
    BY <1>1, <1>2, <1>3, <1>4, <2>1 DEF Read, In, Kept
<1>5. CASE /\ ~In(f, "feed") /\ ~In(f, "feed")'
           /\ In(f, "read")' => (current'.seeding <=> offsets'[f] = None)
  BY <1>1, <1>2, <1>3, <1>5 DEF Read, Kept
<1> QED
  BY <1>4, <1>5

-----------------------------------------------------------------------------
(* One step at a time: the types and the bounds. *)

LEMMA BoundedKept ==
  ASSUME Bounded, UNCHANGED content, budget'.halves = budget.halves,
         current' = current \/ current' = Nobody
  PROVE  Bounded'
BY DEF Bounded

LEMMA BudgetIs ==
  ASSUME WatcherTypeOK
  PROVE  /\ budget = [halves |-> budget.halves, mishaps |-> budget.mishaps,
                      changes |-> budget.changes]
         /\ budget.halves \in 0..MaxHalves /\ budget.mishaps \in 0..MaxMishaps
         /\ budget.changes \in 0..MaxChanges
BY DEF WatcherTypeOK

Spent ==
  \/ budget.halves > 0 /\ budget' = [budget EXCEPT !.halves = budget.halves - 1]
  \/ budget.mishaps > 0 /\ budget' = [budget EXCEPT !.mishaps = budget.mishaps - 1]
  \/ budget.changes > 0 /\ budget' = [budget EXCEPT !.changes = budget.changes - 1]

LEMMA BudgetLess ==
  ASSUME WatcherTypeOK, Spent
  PROVE  budget' \in [halves : 0..MaxHalves, mishaps : 0..MaxMishaps,
                      changes : 0..MaxChanges]
<1> DEFINE h == budget.halves  t == budget.mishaps  c == budget.changes
<1>1. /\ budget = [halves |-> h, mishaps |-> t, changes |-> c]
      /\ h \in 0..MaxHalves /\ t \in 0..MaxMishaps /\ c \in 0..MaxChanges
  BY BudgetIs
<1>2. \/ h > 0 /\ budget' = [halves |-> h - 1, mishaps |-> t, changes |-> c]
      \/ t > 0 /\ budget' = [halves |-> h, mishaps |-> t - 1, changes |-> c]
      \/ c > 0 /\ budget' = [halves |-> h, mishaps |-> t, changes |-> c - 1]
  BY <1>1 DEF Spent
<1> HIDE DEF h, t, c
<1>3. /\ h > 0 => h - 1 \in 0..MaxHalves
      /\ t > 0 => t - 1 \in 0..MaxMishaps
      /\ c > 0 => c - 1 \in 0..MaxChanges
  BY <1>1, WatcherAssumption
<1> QED
  BY <1>1, <1>2, <1>3

LEMMA ChangeTyped ==
  ASSUME WatcherTypeOK, Change
  PROVE  /\ budget' \in [halves : 0..MaxHalves, mishaps : 0..MaxMishaps,
                         changes : 0..MaxChanges]
         /\ budget'.halves = budget.halves
<1>1. budget.changes > 0 /\ budget' = [budget EXCEPT !.changes = budget.changes - 1]
  BY DEF Change
<1>2. budget'.halves = budget.halves
  BY <1>1, BudgetIs
<1> QED
  BY <1>1, <1>2, BudgetLess DEF Spent

LEMMA CreateTyped ==
  ASSUME WatcherTypeOK, Bounded, NEW f \in File, Create(f)
  PROVE  WatcherTypeOK' /\ Bounded'
<1>1. WatcherTypeOK'
  BY DEF WatcherTypeOK, Create, ui, memory, history
<1>2. Bounded'
  BY BoundedKept DEF Create
<1> QED
  BY <1>1, <1>2

LEMMA GoQuietTyped ==
  ASSUME WatcherTypeOK, Bounded, NEW f \in File, GoQuiet(f)
  PROVE  WatcherTypeOK' /\ Bounded'
<1>1. WatcherTypeOK'
  BY DEF WatcherTypeOK, GoQuiet, ui, memory, history
<1>2. Bounded'
  BY BoundedKept DEF GoQuiet
<1> QED
  BY <1>1, <1>2

\* The log written to holds one half more; the others are as they were.
LEMMA Written ==
  ASSUME WatcherTypeOK, NEW f \in File, Write(f)
  PROVE  /\ \E x \in Half : content' = [content EXCEPT ![f] = Append(content[f], x)]
         /\ budget' = [budget EXCEPT !.halves = budget.halves - 1] /\ budget.halves > 0
<1>1. content[f] \in Seq(Half)
  BY DEF WatcherTypeOK
<1>2. CASE content[f] # <<>> /\ Last(content[f]).part = 1
  <2>1. content[f][Len(content[f])] \in Half
    BY <1>1, <1>2, EmptySeq, LenProperties, ElementOfSeq
  <2>2. [Last(content[f]) EXCEPT !.part = 2] \in Half
    BY <2>1 DEF Half, Last
  <2> QED
    BY <1>2, <2>2 DEF Write
<1>3. CASE ~(content[f] # <<>> /\ Last(content[f]).part = 1)
  <2>1. \A l \in Lines : [line |-> l, part |-> 1] \in Half
    BY DEF Half
  <2> QED
    BY <1>3, <2>1 DEF Write
<1>4. budget' = [budget EXCEPT !.halves = budget.halves - 1] /\ budget.halves > 0
  BY DEF Write
<1> QED
  BY <1>2, <1>3, <1>4

LEMMA WriteTyped ==
  ASSUME WatcherTypeOK, Bounded, NEW f \in File, Write(f)
  PROVE  WatcherTypeOK' /\ Bounded' /\ \A g \in File : Grew(g)
<1>1. PICK x \in Half : content' = [content EXCEPT ![f] = Append(content[f], x)]
  BY Written
<1>2. /\ content \in [File -> Seq(Half)] /\ content[f] \in Seq(Half)
      /\ \A g \in File : Len(content[g]) \in Nat
  BY LenProperties DEF WatcherTypeOK
<1> DEFINE longer == Append(content[f], x)
<1>3. longer \in Seq(Half) /\ Len(longer) = Len(content[f]) + 1
  BY <1>2, AppendProperties
<1>4. \A m \in 1..(Len(content[f]) + 1) : \A n \in (m - 1)..Len(content[f]) :
        SubSeq(longer, m, n) = SubSeq(content[f], m, n)
  BY <1>2, SubSeqGrows
<1> HIDE DEF longer
<1>5. content' = [content EXCEPT ![f] = longer]
  BY <1>1 DEF longer
<1>6. content' \in [File -> Seq(Half)]
  BY <1>2, <1>3, <1>5
<1>7. ASSUME NEW g \in File PROVE Grew(g)
  <2>1. CASE g = f
    BY <1>2, <1>3, <1>4, <1>5, <2>1 DEF Grew
  <2>2. CASE g # f
    <3>1. content'[g] = content[g] /\ content[g] \in Seq(Half)
      BY <1>2, <1>5, <2>2
    <3> QED
      BY <1>2, <3>1 DEF Grew
  <2> QED
    BY <2>1, <2>2
<1>8. budget' = [budget EXCEPT !.halves = budget.halves - 1] /\ budget.halves > 0
  BY Written
<1>9. /\ budget' \in [halves : 0..MaxHalves, mishaps : 0..MaxMishaps,
                      changes : 0..MaxChanges]
      /\ budget'.halves = budget.halves - 1 /\ budget.halves \in Nat
  <2>1. budget'.halves = budget.halves - 1 /\ budget.halves \in Nat
    BY <1>8, BudgetIs, WatcherAssumption
  <2> QED
    BY <1>8, <2>1, BudgetLess DEF Spent
<1>10. WatcherTypeOK'
  BY <1>6, <1>9 DEF WatcherTypeOK, Write, ui, memory, history
<1>11. ASSUME NEW g \in File PROVE Len(content'[g]) + budget'.halves <= MaxHalves
  <2>1. Len(content[g]) + budget.halves <= MaxHalves
    BY DEF Bounded
  <2> DEFINE old == Len(content[g])  new == Len(content'[g])
  <2>2. (new = old + 1 \/ new = old) /\ old \in Nat
    BY <1>2, <1>3, <1>5
  <2> HIDE DEF old, new
  <2>3. old + budget.halves <= MaxHalves
    BY <2>1 DEF old
  <2>4. new + budget'.halves <= MaxHalves
    BY <1>9, <2>2, <2>3, WatcherAssumption
  <2> QED
    BY <2>4 DEF new
<1>12. Bounded'
  BY <1>11 DEF Bounded, Write
<1> QED
  BY <1>7, <1>10, <1>12

LEMMA TruncateTyped ==
  ASSUME WatcherTypeOK, Bounded, NEW f \in File, Truncate(f)
  PROVE  WatcherTypeOK' /\ Bounded' /\ \A g \in File : g # f => content'[g] = content[g]
<1>1. /\ content' = [content EXCEPT ![f] = <<>>]
      /\ budget' = [budget EXCEPT !.mishaps = budget.mishaps - 1]
      /\ budget.mishaps > 0
  BY DEF Truncate, Mishap
<1>2. /\ content \in [File -> Seq(Half)] /\ <<>> \in Seq(Half) /\ Len(<<>>) = 0
      /\ \A g \in File : Len(content[g]) \in Nat
  BY EmptySeq, LenProperties DEF WatcherTypeOK
<1>3. /\ content' \in [File -> Seq(Half)] /\ content'[f] = <<>>
      /\ \A g \in File : g # f => content'[g] = content[g]
  BY <1>1, <1>2
<1>4. /\ budget' \in [halves : 0..MaxHalves, mishaps : 0..MaxMishaps,
                      changes : 0..MaxChanges]
      /\ budget'.halves = budget.halves /\ budget.halves \in Nat
  <2>1. budget'.halves = budget.halves /\ budget.halves \in Nat
    BY <1>1, BudgetIs, WatcherAssumption
  <2> QED
    BY <1>1, <2>1, BudgetLess DEF Spent
<1>5. WatcherTypeOK'
  BY <1>3, <1>4 DEF WatcherTypeOK, Truncate, Mishap, ui, memory
<1>6. ASSUME NEW g \in File PROVE Len(content'[g]) + budget'.halves <= MaxHalves
  <2>1. Len(content[g]) + budget.halves <= MaxHalves
    BY DEF Bounded
  <2>2. Len(content'[g]) = 0 \/ content'[g] = content[g]
    BY <1>2, <1>3
  <2> QED
    BY <1>2, <1>4, <2>1, <2>2, WatcherAssumption
<1>7. Bounded'
  BY <1>6 DEF Bounded, Truncate
<1> QED
  BY <1>3, <1>5, <1>7

LEMMA SetPausedTyped ==
  ASSUME WatcherTypeOK, Bounded, SetPaused
  PROVE  WatcherTypeOK' /\ Bounded'
<1>1. /\ budget' \in [halves : 0..MaxHalves, mishaps : 0..MaxMishaps,
                      changes : 0..MaxChanges]
      /\ budget'.halves = budget.halves
  BY ChangeTyped DEF SetPaused
<1>2. WatcherTypeOK'
  BY <1>1 DEF WatcherTypeOK, SetPaused, disk, memory, history
<1>3. Bounded'
  BY <1>1, BoundedKept DEF SetPaused, disk
<1> QED
  BY <1>2, <1>3

LEMMA StopWatcherTyped ==
  ASSUME WatcherTypeOK, Bounded, StopWatcher
  PROVE  WatcherTypeOK' /\ Bounded'
<1>1. /\ budget' \in [halves : 0..MaxHalves, mishaps : 0..MaxMishaps,
                      changes : 0..MaxChanges]
      /\ budget'.halves = budget.halves
  BY ChangeTyped DEF StopWatcher
<1>2. WatcherTypeOK'
  BY <1>1 DEF WatcherTypeOK, StopWatcher, disk, memory, history
<1>3. Bounded'
  BY <1>1, BoundedKept DEF StopWatcher, disk
<1> QED
  BY <1>2, <1>3

LEMMA SetLogDirTyped ==
  ASSUME WatcherTypeOK, Bounded, NEW dir \in Dir, SetLogDir(dir)
  PROVE  WatcherTypeOK' /\ Bounded'
<1>1. /\ budget' \in [halves : 0..MaxHalves, mishaps : 0..MaxMishaps,
                      changes : 0..MaxChanges]
      /\ budget'.halves = budget.halves
  BY ChangeTyped DEF SetLogDir
<1>2. /\ offsets' \in [File -> {None} \cup 0..MaxHalves]
      /\ tainted' \subseteq File /\ clearing' \in BOOLEAN /\ log_dir' \in Dir
  BY DEF WatcherTypeOK, SetLogDir
<1>3. WatcherTypeOK'
  BY <1>1, <1>2 DEF WatcherTypeOK, SetLogDir, disk
<1>4. Bounded'
  BY <1>1, BoundedKept DEF SetLogDir, disk
<1> QED
  BY <1>3, <1>4

LEMMA ClearMemoryTyped ==
  ASSUME WatcherTypeOK, Bounded, ClearMemory
  PROVE  WatcherTypeOK' /\ Bounded'
<1>1. /\ buffers' \in [File -> Seq(Half)] /\ \A f \in File : Len(buffers'[f]) <= 1
      /\ engine_instances' \in [File -> InstanceState]
      /\ tainted' \subseteq File /\ clearing' \in BOOLEAN
  <2>1. <<>> \in Seq(Half) /\ Len(<<>>) <= 1
    BY EmptySeq
  <2> QED
    BY <2>1, AbsentTyped DEF WatcherTypeOK, ClearMemory
<1>2. WatcherTypeOK'
  BY <1>1 DEF WatcherTypeOK, ClearMemory, disk
<1>3. Bounded'
  BY BoundedKept DEF ClearMemory, disk
<1> QED
  BY <1>2, <1>3

LEMMA ScanStartTyped ==
  ASSUME WatcherTypeOK, Bounded, ScanStart
  PROVE  WatcherTypeOK' /\ Bounded'
<1>1. /\ offsets' \in [File -> {None} \cup 0..MaxHalves]
      /\ engine_instances' \in [File -> InstanceState]
      /\ tainted' \subseteq File /\ scanning' \in BOOLEAN
  BY AbsentTyped DEF WatcherTypeOK, ScanStart
<1>2. buffers' \in [File -> Seq(Half)] /\ \A f \in File : Len(buffers'[f]) <= 1
  BY EmptySeq DEF WatcherTypeOK, ScanStart
<1>3. active' \subseteq File
  BY DEF ScanStart, ActiveFiles
<1>4. WatcherTypeOK'
  BY <1>1, <1>2, <1>3 DEF WatcherTypeOK, ScanStart, disk, ui
<1>5. Bounded'
  BY BoundedKept DEF ScanStart, disk
<1> QED
  BY <1>4, <1>5

LEMMA SeedCheckTyped ==
  ASSUME WatcherTypeOK, Bounded, NEW f \in File, SeedCheck(f)
  PROVE  WatcherTypeOK' /\ Bounded'
<1> DEFINE seeding == (offsets[f] = None)
<1>1. current' = [file |-> f, step |-> "read", seeding |-> seeding, chunk |-> <<>>]
  BY DEF SeedCheck
<1>2. seeding \in BOOLEAN /\ <<>> \in Seq(Half) /\ Len(<<>>) = 0
  BY EmptySeq
<1> HIDE DEF seeding
<1>3. current' \in Visit /\ Len(current'.chunk) = 0
  BY <1>1, <1>2 DEF Visit
<1>4. WatcherTypeOK'
  BY <1>3 DEF WatcherTypeOK, SeedCheck, disk, ui, memory, history
<1>5. Bounded'
  BY <1>3, WatcherAssumption DEF Bounded, SeedCheck, disk
<1> QED
  BY <1>4, <1>5

LEMMA ReadFailsTyped ==
  ASSUME WatcherTypeOK, Bounded, NEW f \in File, ReadFails(f)
  PROVE  WatcherTypeOK' /\ Bounded'
<1>1. WatcherTypeOK'
  BY DEF WatcherTypeOK, ReadFails, disk, ui, memory, history
<1>2. Bounded'
  BY BoundedKept DEF ReadFails, disk
<1> QED
  BY <1>1, <1>2

LEMMA ScanEndTyped ==
  ASSUME WatcherTypeOK, Bounded, ScanEnd
  PROVE  WatcherTypeOK' /\ Bounded'
<1>1. WatcherTypeOK'
  BY DEF WatcherTypeOK, ScanEnd, disk, ui, memory, history
<1>2. Bounded'
  BY BoundedKept DEF ScanEnd, disk
<1> QED
  BY <1>1, <1>2

\* A read ends at the size of the log, and starts at the offset, or at the start of a
\* log that shrank.
From(f) ==
  IF offsets[f] = None \/ Len(content[f]) < offsets[f] THEN 0 ELSE offsets[f]

LEMMA ReadChunkIs ==
  ASSUME WatcherTypeOK, Bounded, NEW f \in File, ReadChunk(f)
  PROVE  /\ current \in Visit /\ current.file = f /\ current.step = "read"
         /\ Len(content[f]) \in 0..MaxHalves /\ From(f) \in 0..Len(content[f])
         /\ current' \in Visit /\ current'.file = f /\ current'.step = "feed"
         /\ current'.seeding = current.seeding
         /\ current'.chunk = SubSeq(content[f], From(f) + 1, Len(content[f]))
         /\ Len(current'.chunk) = Len(content[f]) - From(f)
         /\ offsets' = [offsets EXCEPT ![f] = Len(content[f])]
         /\ \/ buffers' = buffers
            \/ Len(content[f]) < offsets[f] /\ buffers' = [buffers EXCEPT ![f] = <<>>]
<1>1. current \in Visit /\ current.file = f /\ current.step = "read"
  BY DEF ReadChunk, WatcherTypeOK
<1>2. /\ content[f] \in Seq(Half) /\ Len(content[f]) \in Nat
      /\ Len(content[f]) + budget.halves <= MaxHalves /\ budget.halves \in Nat
      /\ offsets[f] = None \/ offsets[f] \in Nat
  BY LenProperties, BudgetIs, WatcherAssumption DEF WatcherTypeOK, Bounded
<1>3. Len(content[f]) \in 0..MaxHalves /\ From(f) \in 0..Len(content[f])
  BY <1>2, WatcherAssumption DEF From
<1> DEFINE chunk == SubSeq(content[f], From(f) + 1, Len(content[f]))
<1>4. chunk \in Seq(Half) /\ Len(chunk) = Len(content[f]) - From(f)
  BY <1>2, <1>3
<1>5. current' = [current EXCEPT !.step = "feed", !.chunk = chunk]
  BY <1>2 DEF ReadChunk, From, Shrunk, None
<1>6. /\ offsets' = [offsets EXCEPT ![f] = Len(content[f])]
      /\ \/ buffers' = buffers
         \/ Len(content[f]) < offsets[f] /\ buffers' = [buffers EXCEPT ![f] = <<>>]
  BY <1>2 DEF ReadChunk, Shrunk, None
<1> HIDE DEF chunk
<1>7. /\ current' \in Visit /\ current'.file = f /\ current'.step = "feed"
      /\ current'.seeding = current.seeding /\ current'.chunk = chunk
  BY <1>1, <1>4, <1>5 DEF Visit
<1> QED
  BY <1>1, <1>3, <1>4, <1>6, <1>7 DEF chunk

LEMMA ReadChunkTyped ==
  ASSUME WatcherTypeOK, Bounded, NEW f \in File, ReadChunk(f)
  PROVE  WatcherTypeOK' /\ Bounded'
<1>1. /\ current' \in Visit /\ Len(current'.chunk) = Len(content[f]) - From(f)
      /\ Len(content[f]) \in 0..MaxHalves /\ From(f) \in 0..Len(content[f])
  BY ReadChunkIs
<1>2. offsets' = [offsets EXCEPT ![f] = Len(content[f])]
  BY ReadChunkIs
<1>3. buffers' = buffers \/ buffers' = [buffers EXCEPT ![f] = <<>>]
  BY ReadChunkIs
<1>4. offsets' \in [File -> {None} \cup 0..MaxHalves]
  BY <1>1, <1>2 DEF WatcherTypeOK
<1>5. buffers' \in [File -> Seq(Half)] /\ \A g \in File : Len(buffers'[g]) <= 1
  <2>1. <<>> \in Seq(Half) /\ Len(<<>>) <= 1
    BY EmptySeq
  <2>2. buffers \in [File -> Seq(Half)] /\ \A g \in File : Len(buffers[g]) <= 1
    BY DEF WatcherTypeOK
  <2>3. CASE buffers' = [buffers EXCEPT ![f] = <<>>]
    BY <2>1, <2>2, <2>3
  <2> QED
    BY <1>3, <2>2, <2>3
<1>6. WatcherTypeOK'
  BY <1>1, <1>4, <1>5 DEF WatcherTypeOK, ReadChunk, disk, ui, history
<1>7. Bounded'
  <2>1. Len(current'.chunk) <= MaxHalves
    <3> DEFINE size == Len(content[f])  from == From(f)
    <3> HIDE DEF size, from
    <3>1. size \in 0..MaxHalves /\ from \in 0..size /\ Len(current'.chunk) = size - from
      BY <1>1 DEF size, from
    <3> QED
      BY <3>1, WatcherAssumption
  <2> QED
    BY <2>1 DEF Bounded, ReadChunk, disk
<1> QED
  BY <1>6, <1>7

\* What a visit feeds: the half-line kept, then the chunk.
Data(f) == buffers[f] \o current.chunk

LEMMA FeedIs ==
  ASSUME WatcherTypeOK, NEW f \in File, FeedEngine(f)
  PROVE  LET result == Replay(engine_instances[f], Data(f)) IN
         /\ current \in Visit /\ In(f, "feed") /\ current' = Nobody
         /\ Data(f) \in Seq(Half) /\ result \in Progress
         /\ buffers' = [buffers EXCEPT ![f] = Remainder(Data(f))]
         /\ engine_instances' = [engine_instances EXCEPT ![f] = result.state]
         /\ queued' = [queued EXCEPT ![f] = IF current.seeding THEN <<>>
                                            ELSE queued[f] \o result.events]
         /\ seeded' = IF current.seeding THEN [seeded EXCEPT ![f] = Len(current.chunk)]
                      ELSE seeded
<1>1. current \in Visit /\ current # Nobody /\ current.file = f /\ current.step = "feed"
  BY DEF WatcherTypeOK, FeedEngine, EndVisit
<1>2. current.chunk \in Seq(Half) /\ buffers[f] \in Seq(Half)
      /\ engine_instances[f] \in InstanceState
  BY <1>1 DEF Visit, WatcherTypeOK
<1>3. Data(f) \in Seq(Half)
  BY <1>2, ConcatProperties DEF Data
<1>4. Replay(engine_instances[f], Data(f)) \in Progress
  BY <1>2, <1>3, ReplayTyped
<1>5. current' = Nobody
  BY DEF FeedEngine, EndVisit
<1> QED
  BY <1>1, <1>3, <1>4, <1>5 DEF FeedEngine, Data, In

\* What an exception leaves of a visit.
LEMMA FailureIs ==
  ASSUME WatcherTypeOK, NEW f \in File, FeedFails(f)
  PROVE  \E state \in InstanceState :
           /\ current' = Nobody /\ Data(f) \in Seq(Half)
           /\ buffers' = [buffers EXCEPT ![f] = Remainder(Data(f))]
           /\ engine_instances' = [engine_instances EXCEPT ![f] = state]
           /\ tainted' = tainted \cup {f} /\ budget.mishaps > 0
           /\ budget' = [budget EXCEPT !.mishaps = budget.mishaps - 1]
<1>1. current \in Visit /\ current.file = f /\ current' = Nobody
  BY DEF WatcherTypeOK, FeedFails, EndVisit
<1>2. Data(f) \in Seq(Half) /\ engine_instances[f] \in InstanceState
  BY <1>1, ConcatProperties DEF Data, Visit, WatcherTypeOK
<1>3. PICK k \in 1..Len(Data(f)) :
        /\ buffers' = [buffers EXCEPT ![f] = Remainder(Data(f))]
        /\ engine_instances' =
             [engine_instances EXCEPT
                ![f] = Replay(engine_instances[f], SubSeq(Data(f), 1, k - 1)).state]
  BY DEF FeedFails, Data
<1>4. SubSeq(Data(f), 1, k - 1) \in Seq(Half)
  <2>1. Len(Data(f)) \in Nat /\ k - 1 \in 0..Len(Data(f))
    BY <1>2, <1>3, LenProperties
  <2> QED
    BY <1>2, <2>1, SubSeqProperties
<1>5. Replay(engine_instances[f], SubSeq(Data(f), 1, k - 1)).state \in InstanceState
  BY <1>2, <1>4, ReplayTyped DEF Progress
<1>6. /\ tainted' = tainted \cup {f} /\ budget.mishaps > 0
      /\ budget' = [budget EXCEPT !.mishaps = budget.mishaps - 1]
  BY DEF FeedFails, Mishap
<1> QED
  BY <1>1, <1>2, <1>3, <1>5, <1>6

LEMMA FeedFailsTyped ==
  ASSUME WatcherTypeOK, Bounded, NEW f \in File, FeedFails(f)
  PROVE  WatcherTypeOK' /\ Bounded'
<1> DEFINE left == Remainder(Data(f))
<1>1. PICK state \in InstanceState :
        /\ current' = Nobody /\ Data(f) \in Seq(Half)
        /\ buffers' = [buffers EXCEPT ![f] = left]
        /\ engine_instances' = [engine_instances EXCEPT ![f] = state]
        /\ tainted' = tainted \cup {f} /\ budget.mishaps > 0
        /\ budget' = [budget EXCEPT !.mishaps = budget.mishaps - 1]
  BY FailureIs
<1>2. left \in Seq(Half) /\ Len(left) <= 1
  BY <1>1, RemainderTyped
<1> HIDE DEF left
<1>3. buffers' \in [File -> Seq(Half)] /\ \A g \in File : Len(buffers'[g]) <= 1
  BY <1>1, <1>2 DEF WatcherTypeOK
<1>4. engine_instances' \in [File -> InstanceState]
  BY <1>1 DEF WatcherTypeOK
<1>5. budget'.halves = budget.halves
  BY <1>1, BudgetIs
<1>6. budget' \in [halves : 0..MaxHalves, mishaps : 0..MaxMishaps, changes : 0..MaxChanges]
  BY <1>1, BudgetLess DEF Spent
<1>7. scanning' \in BOOLEAN /\ active' \subseteq File
  BY DEF FeedFails, EndVisit, WatcherTypeOK
<1>8. WatcherTypeOK'
  BY <1>1, <1>3, <1>4, <1>6, <1>7 DEF WatcherTypeOK, FeedFails, disk, ui
<1>9. Bounded'
  BY <1>1, <1>5, BoundedKept DEF FeedFails, disk
<1> QED
  BY <1>8, <1>9

LEMMA FeedEngineTyped ==
  ASSUME WatcherTypeOK, Bounded, NEW f \in File, FeedEngine(f)
  PROVE  WatcherTypeOK' /\ Bounded'
<1> DEFINE result == Replay(engine_instances[f], Data(f))
           state == result.state
           events == queued[f] \o result.events
           size == Len(current.chunk)
           left == Remainder(Data(f))
<1>1. /\ current \in Visit /\ In(f, "feed") /\ current' = Nobody
      /\ Data(f) \in Seq(Half) /\ result \in Progress
      /\ buffers' = [buffers EXCEPT ![f] = left]
      /\ engine_instances' = [engine_instances EXCEPT ![f] = state]
      /\ queued' = [queued EXCEPT ![f] = IF current.seeding THEN <<>> ELSE events]
      /\ seeded' = IF current.seeding THEN [seeded EXCEPT ![f] = size] ELSE seeded
  BY FeedIs
<1>2. left \in Seq(Half) /\ Len(left) <= 1
  BY <1>1, RemainderTyped
<1>3. size \in 0..MaxHalves
  <2>1. current.chunk \in Seq(Half)
    BY <1>1 DEF Visit
  <2>2. size \in Nat /\ size <= MaxHalves
    BY <1>1, <2>1, LenProperties DEF Bounded, In
  <2> QED
    BY <2>2, WatcherAssumption
<1>4. state \in InstanceState /\ events \in Seq(Event) /\ <<>> \in Seq(Event)
  <2>1. queued[f] \in Seq(Event) /\ result.events \in Seq(Event)
    BY <1>1 DEF WatcherTypeOK, Progress
  <2> QED
    BY <1>1, <2>1, ConcatProperties, EmptySeq DEF Progress
<1> HIDE DEF result, state, events, size, left
<1>5. buffers' \in [File -> Seq(Half)] /\ \A g \in File : Len(buffers'[g]) <= 1
  BY <1>1, <1>2 DEF WatcherTypeOK
<1>6. engine_instances' \in [File -> InstanceState]
  BY <1>1, <1>4 DEF WatcherTypeOK
<1>7. queued' \in [File -> Seq(Event)]
  BY <1>1, <1>4 DEF WatcherTypeOK
<1>8. seeded' \in [File -> 0..MaxHalves]
  BY <1>1, <1>3 DEF WatcherTypeOK
<1>9. WatcherTypeOK'
  BY <1>1, <1>5, <1>6, <1>7, <1>8 DEF WatcherTypeOK, FeedEngine, EndVisit, disk, ui
<1>10. Bounded'
  BY <1>1, BoundedKept DEF FeedEngine, disk
<1> QED
  BY <1>9, <1>10

-----------------------------------------------------------------------------
(* One step at a time: what was read. *)

LEMMA Unwritten ==
  ASSUME WatcherTypeOK, NEW f \in File, content'[f] = content[f]
  PROVE  Grew(f)
<1>1. content[f] \in Seq(Half)
  BY DEF WatcherTypeOK
<1>2. Len(content[f]) \in Nat
  BY <1>1, LenProperties
<1> QED
  BY <1>1, <1>2 DEF Grew

\* Steps that leave the watcher and its memory alone.
LEMMA Aside ==
  ASSUME WatcherIInv, NEW f \in File \ tainted, Grew(f),
         UNCHANGED <<memory, clearing, current, seeded, queued>>
  PROVE  Read(f)'
<1>1. Kept(f)
  BY DEF Kept, memory
<1> QED
  BY <1>1, ReadKept DEF WatcherIInv

LEMMA ReadInMemory ==
  ASSUME WatcherIInv, UNCHANGED <<content, memory, clearing, current, history, scanning>>
  PROVE  Exclusive' /\ \A f \in File \ tainted' : Read(f)'
<1>1. Exclusive'
  BY DEF WatcherIInv, Exclusive, history
<1>2. ASSUME NEW f \in File \ tainted PROVE Read(f)'
  BY Unwritten, Aside DEF WatcherIInv, history
<1> QED
  BY <1>1, <1>2 DEF history

LEMMA ReadWrite ==
  ASSUME WatcherIInv, NEW f \in File, Write(f)
  PROVE  Exclusive' /\ \A g \in File \ tainted' : Read(g)'
<1>1. \A g \in File : Grew(g)
  BY WriteTyped DEF WatcherIInv
<1>2. Exclusive'
  BY DEF WatcherIInv, Exclusive, Write, ui, history
<1>3. ASSUME NEW g \in File \ tainted PROVE Read(g)'
  BY <1>1, Aside DEF Write, ui, history
<1> QED
  BY <1>2, <1>3 DEF Write, history

LEMMA ReadTruncate ==
  ASSUME WatcherIInv, NEW f \in File, Truncate(f)
  PROVE  Exclusive' /\ \A g \in File \ tainted' : Read(g)'
<1>1. tainted' = tainted \cup {f} /\ \A g \in File : g # f => content'[g] = content[g]
  BY TruncateTyped DEF Truncate, Mishap, WatcherIInv
<1>2. Exclusive'
  BY <1>1 DEF WatcherIInv, Exclusive, Truncate, ui
<1>3. ASSUME NEW g \in File \ tainted' PROVE Read(g)'
  <2>1. g \in File \ tainted /\ Grew(g)
    BY <1>1, Unwritten DEF WatcherIInv
  <2> QED
    BY <2>1, Aside DEF Truncate, ui
<1> QED
  BY <1>2, <1>3

LEMMA ReadSetLogDir ==
  ASSUME WatcherIInv, NEW dir \in Dir, SetLogDir(dir)
  PROVE  Exclusive' /\ \A f \in File \ tainted' : Read(f)'
<1>1. Exclusive'
  BY DEF WatcherIInv, Exclusive, SetLogDir
<1>2. ASSUME NEW f \in File \ tainted' PROVE Read(f)'
  <2>1. current' = Nobody /\ clearing' = TRUE /\ offsets'[f] = None
    BY <1>2 DEF WatcherIInv, Exclusive, SetLogDir
  <2> QED
    BY <2>1 DEF Read, In
<1> QED
  BY <1>1, <1>2

LEMMA ReadClearMemory ==
  ASSUME WatcherIInv, ClearMemory
  PROVE  Exclusive' /\ \A f \in File \ tainted' : Read(f)'
<1>1. Exclusive'
  BY DEF WatcherIInv, Exclusive, ClearMemory
<1>2. ASSUME NEW f \in File \ tainted' PROVE Read(f)'
  <2>1. current' = Nobody /\ clearing' = FALSE /\ f \in File \ tainted
    BY <1>2 DEF WatcherIInv, Exclusive, ClearMemory
  <2>2. offsets'[f] = None /\ Fresh(f)'
    BY <2>1 DEF WatcherIInv, Read, ClearMemory, Fresh
  <2> QED
    BY <2>1, <2>2 DEF Read, In
<1> QED
  BY <1>1, <1>2

LEMMA ReadScanStart ==
  ASSUME WatcherIInv, ScanStart
  PROVE  Exclusive' /\ \A f \in File \ tainted' : Read(f)'
<1>1. Exclusive'
  BY DEF WatcherIInv, Exclusive, ScanStart, ui
<1>2. ASSUME NEW f \in File \ tainted' PROVE Read(f)'
  <2>1. /\ current' = Nobody /\ current = Nobody /\ f \in File \ tainted
        /\ clearing' = FALSE /\ clearing = FALSE /\ content' = content
    BY <1>2 DEF WatcherIInv, WatcherTypeOK, Exclusive, ScanStart, ui, disk
  <2>2. CASE f \in Gone
    <3>1. offsets'[f] = None /\ Fresh(f)'
      BY <2>2 DEF ScanStart, Fresh
    <3> QED
      BY <2>1, <3>1 DEF Read, In
  <2>3. CASE f \notin Gone
    <3>1. Kept(f) /\ Grew(f)
      BY <2>1, <2>3, Unwritten DEF Kept, ScanStart, WatcherIInv
    <3> QED
      BY <2>1, <3>1, ReadKept DEF WatcherIInv
  <2> QED
    BY <2>2, <2>3
<1> QED
  BY <1>1, <1>2

LEMMA ReadScanEnd ==
  ASSUME WatcherIInv, ScanEnd
  PROVE  Exclusive' /\ \A f \in File \ tainted' : Read(f)'
<1>1. Exclusive'
  BY DEF WatcherIInv, Exclusive, ScanEnd
<1>2. ASSUME NEW f \in File \ tainted PROVE Read(f)'
  BY Unwritten, Aside DEF WatcherIInv, ScanEnd, disk, ui, history
<1> QED
  BY <1>1, <1>2 DEF ScanEnd, history

LEMMA ReadSeedCheck ==
  ASSUME WatcherIInv, NEW f \in File, SeedCheck(f)
  PROVE  Exclusive' /\ \A g \in File \ tainted' : Read(g)'
<1>1. /\ scanning /\ current = Nobody /\ current' # Nobody
      /\ current'.file = f /\ current'.step = "read"
      /\ current'.seeding = (offsets[f] = None)
  BY DEF SeedCheck, Nobody
<1>2. Exclusive'
  BY <1>1 DEF WatcherIInv, Exclusive, SeedCheck, ui, history
<1>3. ASSUME NEW g \in File \ tainted PROVE Read(g)'
  <2>1. Kept(g) /\ Grew(g) /\ clearing' = clearing
    BY Unwritten DEF Kept, SeedCheck, WatcherIInv, disk, ui, memory, history
  <2>2. /\ ~In(g, "feed") /\ ~In(g, "feed")'
        /\ In(g, "read")' => (current'.seeding <=> offsets'[g] = None)
    BY <1>1, <2>1 DEF In, Kept
  <2> QED
    BY <2>1, <2>2, ReadKept DEF WatcherIInv
<1> QED
  BY <1>2, <1>3 DEF SeedCheck, history

LEMMA ReadReadFails ==
  ASSUME WatcherIInv, NEW f \in File, ReadFails(f)
  PROVE  Exclusive' /\ \A g \in File \ tainted' : Read(g)'
<1>1. Exclusive'
  BY DEF WatcherIInv, Exclusive, ReadFails, ui, history
<1>2. ASSUME NEW g \in File \ tainted PROVE Read(g)'
  <2>1. Kept(g) /\ Grew(g) /\ clearing' = clearing
    BY Unwritten DEF Kept, ReadFails, WatcherIInv, disk, ui, memory, history
  <2>2. ~In(g, "feed") /\ ~In(g, "feed")' /\ ~In(g, "read")'
    BY DEF ReadFails, In
  <2> QED
    BY <2>1, <2>2, ReadKept DEF WatcherIInv
<1> QED
  BY <1>1, <1>2 DEF ReadFails, history

LEMMA ReadChunkStep ==
  ASSUME WatcherIInv, NEW f \in File, ReadChunk(f)
  PROVE  Exclusive' /\ \A g \in File \ tainted' : Read(g)'
<1>1. /\ In(f, "read") /\ In(f, "feed")' /\ current'.seeding = current.seeding
      /\ Len(content[f]) \in 0..MaxHalves
      /\ current'.chunk = SubSeq(content[f], From(f) + 1, Len(content[f]))
      /\ offsets' = [offsets EXCEPT ![f] = Len(content[f])]
      /\ \/ buffers' = buffers
         \/ Len(content[f]) < offsets[f] /\ buffers' = [buffers EXCEPT ![f] = <<>>]
  BY ReadChunkIs DEF WatcherIInv, In, ReadChunk, Visit, Nobody
<1>2. /\ content' = content /\ engine_instances' = engine_instances /\ clearing' = clearing
      /\ scanning' = scanning /\ tainted' = tainted /\ seeded' = seeded /\ queued' = queued
  BY DEF ReadChunk, disk, ui, history
<1>3. Exclusive'
  BY <1>1, <1>2 DEF WatcherIInv, Exclusive, In
<1>4. ASSUME NEW g \in File \ tainted, g # f PROVE Read(g)'
  <2>1. Kept(g) /\ Grew(g)
    BY <1>1, <1>2, <1>4, Unwritten DEF Kept, WatcherIInv, WatcherTypeOK
  <2>2. ~In(g, "feed") /\ ~In(g, "feed")' /\ ~In(g, "read")'
    BY <1>1, <1>4 DEF In
  <2> QED
    BY <1>2, <2>1, <2>2, ReadKept DEF WatcherIInv
<1>5. ASSUME f \notin tainted PROVE Read(f)'
  <2>1. Read(f) /\ WatcherTypeOK
    BY <1>5 DEF WatcherIInv
  <2>2. ~In(f, "feed")
    BY <1>1 DEF In
  <2>3. clearing = FALSE
    BY <1>1, <1>5 DEF WatcherIInv, Exclusive, In, WatcherTypeOK
  <2>4. current.seeding <=> offsets[f] = None
    BY <1>1, <2>1 DEF Read
  <2>5. /\ offsets[f] # None => /\ offsets[f] \in Nat /\ offsets[f] <= Len(content[f])
                               /\ UpTo(f, offsets[f])
        /\ offsets[f] = None => Fresh(f)
    <3>1. offsets[f] \in {None} \cup 0..MaxHalves
      BY <2>1 DEF WatcherTypeOK
    <3>2. /\ offsets[f] # None => UpTo(f, offsets[f])
          /\ offsets[f] = None => Fresh(f)
      BY <2>1, <2>2, <2>3 DEF Read
    <3>3. UpTo(f, offsets[f]) => offsets[f] <= Len(content[f])
      BY DEF UpTo
    <3> QED
      BY <3>1, <3>2, <3>3, WatcherAssumption
  <2>6. /\ From(f) \in 0..Len(content[f])
        /\ offsets[f] # None => From(f) = offsets[f] /\ UpTo(f, From(f))
        /\ offsets[f] = None => From(f) = 0
    <3>1. CASE offsets[f] = None
      BY <1>1, <3>1 DEF From
    <3>2. CASE offsets[f] # None
      <4>1. From(f) = offsets[f]
        BY <1>1, <2>5, <3>2 DEF From
      <4> QED
        BY <1>1, <2>5, <3>2, <4>1
    <3> QED
      BY <3>1, <3>2
  <2>7. PICK n \in 0..Len(content[f]) : n = From(f)
    BY <2>6
  <2>8. buffers' = buffers
    <3>1. offsets[f] = None \/ offsets[f] <= Len(content[f])
      BY <2>5
    <3>2. ~(Len(content[f]) < offsets[f])
      BY <1>1, <2>5, <3>1 DEF None
    <3> QED
      BY <1>1, <3>2
  <2>9. offsets'[f] = Len(content[f]) /\ Len(content[f]) \in Nat /\ Len(content[f]) # None
    BY <1>1, <2>1 DEF WatcherTypeOK, None
  <2>10. Fresh(f)' <=> Fresh(f)
    BY <1>2, <2>8 DEF Fresh
  <2>11. offsets[f] # None => UpTo(f, n)
    BY <2>6, <2>7
  <2>12. UpTo(f, n)' <=> UpTo(f, n)
    BY <1>2, <2>8 DEF UpTo, Past
  <2>13. /\ n \in 0..offsets'[f]
         /\ current'.chunk = SubSeq(content'[f], n + 1, offsets'[f])
    BY <1>1, <1>2, <2>7, <2>9
  <2>14. Between(f)'
    <3>1. current'.seeding => n = 0 /\ Fresh(f)'
      BY <1>1, <2>4, <2>5, <2>6, <2>7, <2>10
    <3>2. ~current'.seeding => UpTo(f, n)'
      BY <1>1, <2>4, <2>11, <2>12
    <3> QED
      BY <2>13, <3>1, <3>2 DEF Between
  <2> QED
    BY <1>1, <1>2, <2>3, <2>9, <2>14 DEF Read, In
<1> QED
  BY <1>2, <1>3, <1>4, <1>5

\* The first n halves, then the next ones, are the first ones of both.
LEMMA PastChunk ==
  ASSUME WatcherTypeOK, NEW f \in File, NEW n \in Nat, NEW m \in Nat,
         n <= m, m <= Len(content[f])
  PROVE  /\ Past(f, n) \in Seq(Half) /\ Past(f, m) \in Seq(Half)
         /\ SubSeq(content[f], n + 1, m) \in Seq(Half)
         /\ Len(SubSeq(content[f], n + 1, m)) = m - n
         /\ Past(f, n) \o SubSeq(content[f], n + 1, m) = Past(f, m)
<1>1. content[f] \in Seq(Half) /\ Len(content[f]) \in Nat
  BY LenProperties DEF WatcherTypeOK
<1>2. /\ 1 \in 1..(Len(content[f]) + 1) /\ n \in (1 - 1)..Len(content[f])
      /\ m \in n..Len(content[f])
  BY <1>1
<1>3. Past(f, n) \o SubSeq(content[f], n + 1, m) = Past(f, m)
  BY <1>1, <1>2, ConcatAdjacentSubSeq DEF Past
<1> QED
  BY <1>1, <1>2, <1>3 DEF Past

\* Feeding the chunk that follows what was fed is feeding both at once.
LEMMA FeedsOn ==
  ASSUME WatcherTypeOK, NEW f \in File, FeedEngine(f), In(f, "feed"),
         offsets[f] \in Nat, offsets[f] <= Len(content[f]),
         NEW n \in 0..offsets[f], UpTo(f, n), ~current.seeding,
         current.chunk = SubSeq(content[f], n + 1, offsets[f])
  PROVE  UpTo(f, offsets[f])'
<1> DEFINE m == offsets[f]
           past == Past(f, n)
           chunk == current.chunk
           first == Replay(Absent, past)
           rest == Replay(first.state, Remainder(past) \o chunk)
           whole == Replay(Absent, Past(f, m))
           early == Replay(Absent, Past(f, seeded[f])).events
<1>1. /\ n \in Nat /\ n <= m /\ past \in Seq(Half) /\ chunk \in Seq(Half)
      /\ past \o chunk = Past(f, m) /\ Past(f, m) \in Seq(Half)
  <2>1. n \in Nat /\ m \in Nat /\ n <= m /\ m <= Len(content[f])
    OBVIOUS
  <2> HIDE DEF m
  <2>2. /\ past \in Seq(Half) /\ Past(f, m) \in Seq(Half)
        /\ SubSeq(content[f], n + 1, m) \in Seq(Half)
        /\ past \o SubSeq(content[f], n + 1, m) = Past(f, m)
    BY <2>1, PastChunk
  <2>3. chunk = SubSeq(content[f], n + 1, m)
    BY DEF m
  <2> QED
    BY <2>1, <2>2, <2>3
<1>2. whole.state = rest.state /\ whole.events = first.events \o rest.events
  <2> DEFINE all == Past(f, m)
  <2>1. past \in Seq(Half) /\ chunk \in Seq(Half) /\ past \o chunk = all
    BY <1>1
  <2> HIDE DEF past, chunk, all
  <2>2. /\ Replay(Absent, past \o chunk).state = rest.state
        /\ Replay(Absent, past \o chunk).events = first.events \o rest.events
    BY <2>1, AbsentTyped, ReplayConcat
  <2>3. whole = Replay(Absent, past \o chunk)
    BY <2>1 DEF all
  <2> QED
    BY <2>2, <2>3
<1>3. /\ engine_instances[f] = first.state /\ buffers[f] = Remainder(past)
      /\ seeded[f] <= n /\ early \o queued[f] = first.events
  BY DEF UpTo
<1>4. Data(f) = Remainder(past) \o chunk
  BY <1>3 DEF Data
<1>5. Remainder(Data(f)) = Remainder(Past(f, m))
  BY <1>1, <1>4, RemainderConcat
<1>6. /\ buffers' = [buffers EXCEPT ![f] = Remainder(Data(f))]
      /\ engine_instances' = [engine_instances EXCEPT ![f] = rest.state]
      /\ queued' = [queued EXCEPT ![f] = queued[f] \o rest.events]
      /\ seeded' = seeded
  BY <1>3, <1>4, FeedIs
<1>7. content' = content /\ offsets' = offsets
  BY DEF FeedEngine, disk
<1>8. /\ buffers'[f] = Remainder(Past(f, m)) /\ engine_instances'[f] = whole.state
      /\ queued'[f] = queued[f] \o rest.events /\ seeded'[f] = seeded[f]
  BY <1>2, <1>5, <1>6 DEF WatcherTypeOK
<1>9. seeded[f] \in Nat /\ Past(f, seeded[f]) \in Seq(Half)
  <2>1. seeded[f] \in Nat
    BY WatcherAssumption DEF WatcherTypeOK
  <2>2. content[f] \in Seq(Half) /\ Len(content[f]) \in Nat
    BY LenProperties DEF WatcherTypeOK
  <2>3. seeded[f] <= Len(content[f])
    BY <1>1, <1>3, <2>1, <2>2
  <2> QED
    BY <2>1, <2>2, <2>3 DEF Past
<1>10. early \in Seq(Event) /\ queued[f] \in Seq(Event) /\ rest.events \in Seq(Event)
  <2>1. first.state \in InstanceState
    BY <1>1, AbsentTyped, ReplayTyped DEF Progress
  <2>2. Remainder(past) \o chunk \in Seq(Half)
    BY <1>1, RemainderTyped, ConcatProperties
  <2>3. rest \in Progress
    BY <2>1, <2>2, ReplayTyped
  <2> QED
    BY <1>9, <2>3, AbsentTyped, ReplayTyped DEF WatcherTypeOK, Progress
<1> HIDE DEF first, rest, whole, early
<1>11. early \o (queued[f] \o rest.events) = whole.events
  <2> DEFINE q == queued[f]  r == rest.events
  <2>1. q \in Seq(Event) /\ r \in Seq(Event) /\ early \o q = first.events
        /\ whole.events = first.events \o r
    BY <1>2, <1>3, <1>10
  <2> HIDE DEF q, r
  <2>2. (early \o q) \o r = early \o (q \o r)
    BY <1>10, <2>1, EventsAssociate
  <2>3. early \o (q \o r) = whole.events
    BY <2>1, <2>2
  <2> QED
    BY <2>3 DEF q, r
<1>12. early \o queued'[f] = whole.events
  BY <1>8, <1>11
<1>13. seeded[f] <= m /\ m <= Len(content[f])
  BY <1>1, <1>3, <1>9
<1> QED
  BY <1>7, <1>8, <1>12, <1>13 DEF UpTo, Past, whole, early

\* The first feed of a life, silent, leaves what reading at once leaves.
LEMMA FeedsFirst ==
  ASSUME WatcherTypeOK, NEW f \in File, FeedEngine(f), In(f, "feed"),
         offsets[f] \in Nat, offsets[f] <= Len(content[f]), Fresh(f), current.seeding,
         current.chunk = SubSeq(content[f], 1, offsets[f])
  PROVE  UpTo(f, offsets[f])'
<1> DEFINE m == offsets[f]
           whole == Replay(Absent, Past(f, m))
<1>1. content[f] \in Seq(Half) /\ Len(content[f]) \in Nat
  BY LenProperties DEF WatcherTypeOK
<1>2. current.chunk = Past(f, m) /\ Past(f, m) \in Seq(Half) /\ Len(Past(f, m)) = m
  BY <1>1 DEF Past
<1>3. Data(f) = Past(f, m) /\ engine_instances[f] = Absent
  BY <1>2, ConcatEmptySeq DEF Fresh, Data
<1>4. /\ buffers' = [buffers EXCEPT ![f] = Remainder(Past(f, m))]
      /\ engine_instances' = [engine_instances EXCEPT ![f] = whole.state]
      /\ queued' = [queued EXCEPT ![f] = <<>>]
      /\ seeded' = [seeded EXCEPT ![f] = m]
  BY <1>2, <1>3, FeedIs
<1>5. content' = content /\ offsets' = offsets
  BY DEF FeedEngine, disk
<1>6. whole.events \in Seq(Event)
  BY <1>2, AbsentTyped, ReplayTyped DEF Progress
<1> HIDE DEF whole
<1>7. /\ buffers'[f] = Remainder(Past(f, m)) /\ engine_instances'[f] = whole.state
      /\ queued'[f] = <<>> /\ seeded'[f] = m
  BY <1>4 DEF WatcherTypeOK
<1>8. whole.events \o queued'[f] = whole.events
  BY <1>6, <1>7, ConcatEmptySeq
<1> QED
  BY <1>5, <1>7, <1>8 DEF UpTo, Past, whole

LEMMA FeedEngineStep ==
  ASSUME WatcherIInv, NEW f \in File, FeedEngine(f)
  PROVE  Exclusive' /\ \A g \in File \ tainted' : Read(g)'
<1>1. /\ In(f, "feed") /\ current' = Nobody
      /\ buffers' = [buffers EXCEPT ![f] = buffers'[f]]
      /\ engine_instances' = [engine_instances EXCEPT ![f] = engine_instances'[f]]
      /\ queued' = [queued EXCEPT ![f] = queued'[f]]
      /\ seeded' = [seeded EXCEPT ![f] = seeded'[f]]
  <2> DEFINE result == Replay(engine_instances[f], Data(f))
             state == result.state
             left == Remainder(Data(f))
             events == queued[f] \o result.events
             size == Len(current.chunk)
  <2>1. /\ In(f, "feed") /\ current' = Nobody
        /\ buffers' = [buffers EXCEPT ![f] = left]
        /\ engine_instances' = [engine_instances EXCEPT ![f] = state]
        /\ queued' = [queued EXCEPT ![f] = IF current.seeding THEN <<>> ELSE events]
        /\ seeded' = IF current.seeding THEN [seeded EXCEPT ![f] = size] ELSE seeded
    BY FeedIs DEF WatcherIInv
  <2>2. /\ buffers \in [File -> Seq(Half)] /\ engine_instances \in [File -> InstanceState]
        /\ queued \in [File -> Seq(Event)] /\ seeded \in [File -> 0..MaxHalves]
    BY DEF WatcherIInv, WatcherTypeOK
  <2> HIDE DEF result, state, left, events, size
  <2> QED
    BY <2>1, <2>2
<1>2. /\ content' = content /\ offsets' = offsets /\ tainted' = tainted
      /\ clearing' = clearing /\ scanning' = scanning
  BY DEF FeedEngine, EndVisit, disk, ui
<1>3. Exclusive'
  BY <1>1, <1>2 DEF WatcherIInv, Exclusive
<1>4. ASSUME NEW g \in File \ tainted, g # f PROVE Read(g)'
  <2>1. Kept(g)
    BY <1>1, <1>2, <1>4 DEF Kept, WatcherIInv, WatcherTypeOK
  <2>2. Grew(g)
    BY <1>2, Unwritten DEF WatcherIInv
  <2>3. ~In(g, "feed") /\ ~In(g, "feed")' /\ ~In(g, "read")'
    BY <1>1, <1>4 DEF In
  <2> QED
    BY <1>2, <2>1, <2>2, <2>3, ReadKept DEF WatcherIInv
<1>5. ASSUME f \notin tainted PROVE Read(f)'
  <2>1. Read(f) /\ WatcherTypeOK
    BY <1>5 DEF WatcherIInv
  <2>2. /\ offsets[f] # None /\ offsets[f] \in Nat /\ offsets[f] <= Len(content[f])
        /\ Between(f)
    BY <1>1, <2>1, WatcherAssumption DEF Read, WatcherTypeOK
  <2>3. PICK n \in 0..offsets[f] :
          /\ current.chunk = SubSeq(content[f], n + 1, offsets[f])
          /\ current.seeding => n = 0 /\ Fresh(f)
          /\ ~current.seeding => UpTo(f, n)
    BY <2>2 DEF Between
  <2>4. UpTo(f, offsets[f])'
    <3>1. CASE current.seeding
      <4>0. n = 0 /\ n + 1 = 1 /\ Fresh(f)
        BY <2>3, <3>1
      <4>1. current.chunk = SubSeq(content[f], 1, offsets[f]) /\ Fresh(f)
        BY <2>3, <4>0
      <4> QED
        BY <1>1, <2>1, <2>2, <3>1, <4>1, FeedsFirst
    <3>2. CASE ~current.seeding
      BY <1>1, <2>1, <2>2, <2>3, <3>2, FeedsOn
    <3> QED
      BY <3>1, <3>2
  <2>5. ~clearing'
    BY <1>1, <1>2, <1>5 DEF WatcherIInv, Exclusive, In
  <2> QED
    BY <1>1, <1>2, <2>2, <2>4, <2>5 DEF Read, In
<1> QED
  BY <1>2, <1>3, <1>4, <1>5

-----------------------------------------------------------------------------

\* An exception concerns its own file only: the others wait for the next scan.
LEMMA ReadFeedFails ==
  ASSUME WatcherIInv, NEW f \in File, FeedFails(f)
  PROVE  Exclusive' /\ \A g \in File \ tainted' : Read(g)'
<1>1. PICK state \in InstanceState :
        /\ current' = Nobody
        /\ buffers' = [buffers EXCEPT ![f] = Remainder(Data(f))]
        /\ engine_instances' = [engine_instances EXCEPT ![f] = state]
        /\ tainted' = tainted \cup {f}
  BY FailureIs DEF WatcherIInv
<1>2. /\ current # Nobody /\ current.file = f /\ scanning' = FALSE
      /\ UNCHANGED <<content, clearing, offsets, seeded, queued>>
  BY DEF FeedFails, EndVisit, disk, ui
<1>3. Exclusive'
  BY <1>1, <1>2 DEF Exclusive
<1>4. ASSUME NEW g \in File \ tainted' PROVE Read(g)'
  <2>1. g \in File \ tainted /\ g # f
    BY <1>1
  <2>2. buffers'[g] = buffers[g] /\ engine_instances'[g] = engine_instances[g]
    BY <1>1, <2>1 DEF WatcherIInv, WatcherTypeOK
  <2>3. Kept(g) /\ Grew(g)
    BY <1>2, <2>1, <2>2, Unwritten DEF Kept, WatcherIInv
  <2>4. ~In(g, "feed") /\ ~In(g, "feed")' /\ ~In(g, "read")'
    BY <1>1, <1>2, <2>1 DEF In
  <2> QED
    BY <1>2, <2>1, <2>3, <2>4, ReadKept DEF WatcherIInv
<1> QED
  BY <1>3, <1>4

LEMMA WatcherStepInductive ==
  ASSUME WatcherIInv, WatcherStep
  PROVE  WatcherIInv'
<1>1. WatcherTypeOK /\ Bounded
  BY DEF WatcherIInv
<1>2. CASE ScanStart
  BY <1>1, <1>2, ScanStartTyped, ReadScanStart DEF WatcherIInv
<1>3. CASE ScanEnd
  BY <1>1, <1>3, ScanEndTyped, ReadScanEnd DEF WatcherIInv
<1>4. ASSUME NEW f \in File, SeedCheck(f) PROVE WatcherIInv'
  BY <1>1, <1>4, SeedCheckTyped, ReadSeedCheck DEF WatcherIInv
<1>5. ASSUME NEW f \in File, ReadChunk(f) PROVE WatcherIInv'
  BY <1>1, <1>5, ReadChunkTyped, ReadChunkStep DEF WatcherIInv
<1>6. ASSUME NEW f \in File, FeedEngine(f) PROVE WatcherIInv'
  BY <1>1, <1>6, FeedEngineTyped, FeedEngineStep DEF WatcherIInv
<1> QED
  BY <1>2, <1>3, <1>4, <1>5, <1>6 DEF WatcherStep

LEMMA WatcherInductive == WatcherSpec => []WatcherIInv
<1>1. ASSUME WatcherIInv, [WatcherNext]_watcher_vars PROVE WatcherIInv'
  <2>1. WatcherTypeOK /\ Bounded
    BY <1>1 DEF WatcherIInv
  <2>2. CASE WatcherStep
    BY <1>1, <2>2, WatcherStepInductive
  <2>3. CASE SetPaused
    BY <1>1, <2>1, <2>3, SetPausedTyped, ReadInMemory DEF WatcherIInv, SetPaused, disk
  <2>4. CASE StopWatcher
    BY <1>1, <2>1, <2>4, StopWatcherTyped, ReadInMemory DEF WatcherIInv, StopWatcher, disk
  <2>5. CASE ClearMemory
    BY <1>1, <2>1, <2>5, ClearMemoryTyped, ReadClearMemory DEF WatcherIInv
  <2>6. ASSUME NEW dir \in Dir, SetLogDir(dir) PROVE WatcherIInv'
    BY <1>1, <2>1, <2>6, SetLogDirTyped, ReadSetLogDir DEF WatcherIInv
  <2>7. ASSUME NEW f \in File, Create(f) PROVE WatcherIInv'
    BY <1>1, <2>1, <2>7, CreateTyped, ReadInMemory DEF WatcherIInv, Create, ui
  <2>8. ASSUME NEW f \in File, Write(f) PROVE WatcherIInv'
    BY <1>1, <2>1, <2>8, WriteTyped, ReadWrite DEF WatcherIInv
  <2>9. ASSUME NEW f \in File, GoQuiet(f) PROVE WatcherIInv'
    BY <1>1, <2>1, <2>9, GoQuietTyped, ReadInMemory DEF WatcherIInv, GoQuiet, ui
  <2>10. ASSUME NEW f \in File, Truncate(f) PROVE WatcherIInv'
    BY <1>1, <2>1, <2>10, TruncateTyped, ReadTruncate DEF WatcherIInv
  <2>11. ASSUME NEW f \in File, ReadFails(f) PROVE WatcherIInv'
    BY <1>1, <2>1, <2>11, ReadFailsTyped, ReadReadFails DEF WatcherIInv
  <2>12. ASSUME NEW f \in File, FeedFails(f) PROVE WatcherIInv'
    BY <1>1, <2>1, <2>12, FeedFailsTyped, ReadFeedFails DEF WatcherIInv
  <2>13. CASE UNCHANGED watcher_vars
    <3>1. WatcherTypeOK' /\ Bounded'
      BY <2>1, <2>13 DEF WatcherTypeOK, Bounded, watcher_vars, disk, ui, memory, history
    <3> QED
      BY <1>1, <2>13, <3>1, ReadInMemory DEF WatcherIInv, watcher_vars, disk, ui
  <2> QED
    BY <1>1, <2>2, <2>3, <2>4, <2>5, <2>6, <2>7, <2>8, <2>9, <2>10, <2>11, <2>12,
       <2>13 DEF WatcherNext
<1> QED
  BY <1>1, WatcherInitially, PTL DEF WatcherSpec

\* Type correctness of the watcher, for any number of logs, halves and directories; a
\* buffer never holds more than the one half-line that follows the last newline.
THEOREM WatcherTypeCorrect == WatcherSpec => []WatcherTypeOK
<1>1. WatcherIInv => WatcherTypeOK
  BY DEF WatcherIInv
<1> QED
  BY <1>1, WatcherInductive, PTL

\* scan_once and _read_new_lines lose no line, double none and split none, wherever the
\* polls fall in the writes: for a log that is not truncated, and whose scan no
\* set_log_dir crosses, the engine's state and the events put are those of reading at
\* once the part of the log that was read.
THEOREM LinesReadOnce == WatcherSpec => []ReadsEachLineOnce
<1>1. WatcherIInv => ReadsEachLineOnce
  <2> SUFFICES ASSUME WatcherIInv, NEW f \in File \ tainted, offsets[f] # None,
                      current # Nobody => current.file # f
               PROVE  /\ offsets[f] <= Len(content[f])
                      /\ engine_instances[f] = FromScratch(f, offsets[f]).state
                      /\ FromScratch(f, seeded[f]).events \o queued[f]
                           = FromScratch(f, offsets[f]).events
    BY DEF ReadsEachLineOnce
  <2>1. UpTo(f, offsets[f])
    BY DEF WatcherIInv, Read, In
  <2> QED
    BY <2>1 DEF UpTo, FromScratch, Past
<1> QED
  BY <1>1, WatcherInductive, PTL

-----------------------------------------------------------------------------
(***************************************************************************)
(* The watcher and the engine together: what goes on the events queue.     *)
(***************************************************************************)

\* The story of a log read at once is that of the engine fed its lines.
LEMMA ReplaySound ==
  ASSUME NEW halves \in Seq(Half)
  PROVE  Sound(Replay(Absent, halves).events, Replay(Absent, halves).state)
<1>1. Len(halves) \in Nat /\ Len(halves) \in 0..Len(halves)
  BY LenProperties
<1>2. PICK after : /\ ReplaysTo(after, Len(halves), Absent, halves)
                   /\ Replay(Absent, halves) = after[Len(halves)]
  BY <1>1, ReplayIs
<1>3. \A k \in 0..Len(halves) : after[k] \in Progress
  BY <1>2, AbsentTyped, AllTyped
<1> DEFINE S == {k \in Nat : Sound(after[k].events, after[k].state)}
<1>4. 0 \in S
  <2>1. after[0] = [state |-> Absent, events |-> <<>>]
    BY <1>2 DEF ReplaysTo
  <2> QED
    BY <2>1, SoundEmpty
<1>5. ASSUME NEW k \in 1..Len(halves), k - 1 \in S PROVE k \in S
  <2> DEFINE line == LineAt(halves, k)  sofar == after[k - 1]
             result == ProcessLine(sofar.state, line, {})
  <2>1. sofar.state \in InstanceState /\ line \in RawLine
    <3>1. sofar \in Progress
      BY <1>3
    <3> QED
      BY <3>1, HalfTyped DEF Progress
  <2>2. Effect(sofar.state, result.state, result.events)
    BY <2>1, LineEffect
  <2>3. Sound(sofar.events, sofar.state) /\ k \in Nat
    BY <1>5
  <2>4. after[k] = AtHalf(sofar, halves, k)
    BY <1>2 DEF ReplaysTo
  <2>5. AtHalf(sofar, halves, k)
          = IF halves[k].part = 1 THEN sofar
            ELSE [state |-> result.state, events |-> sofar.events \o result.events]
    BY DEF AtHalf
  <2> HIDE DEF line, sofar, result
  <2>6. Sound(sofar.events \o result.events, result.state)
    BY <2>1, <2>2, <2>3, SoundStep
  <2>7. Sound(after[k].events, after[k].state)
    BY <2>3, <2>4, <2>5, <2>6
  <2> QED
    BY <2>3, <2>7
<1> HIDE DEF S
<1>6. \A k \in 0..Len(halves) : k \in S
  BY <1>1, <1>4, <1>5, Reaches
<1> QED
  BY <1>1, <1>2, <1>6 DEF S

LEMMA LearnedSound ==
  ASSUME NEW early, NEW state, Sound(early, state)
  PROVE  /\ early = <<>> => state.biome = NoBiome
         /\ early # <<>> => /\ state.biome # NoBiome /\ early[Len(early)].biome = state.biome
                            /\ Len(early) \in Nat \ {0} /\ Len(early) % 2 = 1
<1>1. early \in Seq(Event) /\ Len(early) \in Nat
  BY DEF Sound
<1>2. ASSUME early # <<>>
      PROVE  /\ state.biome # NoBiome /\ early[Len(early)].biome = state.biome
             /\ Len(early) \in Nat \ {0} /\ Len(early) % 2 = 1
  <2>1. Len(early) \in Nat \ {0} /\ Len(early) \in 1..Len(early)
    BY <1>1, <1>2, EmptySeq
  <2>2. early[Len(early)] \in Event
    BY <1>1, <2>1, ElementOfSeq
  <2>3. early[Len(early)].type = "started" /\ early[Len(early)].biome = state.biome
    BY <1>2 DEF Sound
  <2>4. Len(early) % 2 = 1
    BY <2>1, <2>3 DEF Sound
  <2>5. state.biome \in Biome
    BY <2>2, <2>3 DEF Event
  <2> QED
    BY <2>1, <2>3, <2>4, <2>5, CanonicalAssumption
<1> QED
  BY <1>2 DEF Sound

LEMMA RestInTurn ==
  ASSUME NEW early, NEW before, Sound(early, before), NEW s \in Seq(Event),
         NEW after, Sound(early \o s, after)
  PROVE  InTurn(s, before.biome, after.biome)
<1> DEFINE whole == early \o s  n == Len(early)  m == Len(s)
<1>1. early \in Seq(Event) /\ n \in Nat /\ m \in Nat
  BY LenProperties DEF Sound
<1>2. /\ whole \in Seq(Event) /\ Len(whole) = n + m
      /\ \A k \in 1..n : whole[k] = early[k]
      /\ \A k \in 1..m : whole[n + k] = s[k]
  BY <1>1
<1>3. /\ \A k \in 1..(n + m) : whole[k].type = IF k % 2 = 1 THEN "started" ELSE "ended"
      /\ \A k \in 1..((n + m) - 1) : whole[k].type = "started" => whole[k + 1].biome = whole[k].biome
      /\ whole # <<>> => whole[n + m].type = "started" /\ whole[n + m].biome = after.biome
      /\ whole = <<>> => after.biome = NoBiome
  <2>1. Sound(whole, after) /\ Len(whole) = n + m
    BY <1>2
  <2> HIDE DEF whole, n, m
  <2> QED
    BY <2>1 DEF Sound
<1>4. /\ n = 0 => before.biome = NoBiome
      /\ n # 0 => before.biome # NoBiome /\ early[n].biome = before.biome /\ n % 2 = 1
  <2>1. n = 0 <=> early = <<>>
    BY <1>1, EmptySeq
  <2>2. /\ early = <<>> => before.biome = NoBiome
        /\ early # <<>> => before.biome # NoBiome /\ early[n].biome = before.biome /\ n % 2 = 1
    BY LearnedSound
  <2> QED
    BY <2>1, <2>2
<1>5. (whole = <<>> <=> n + m = 0) /\ (s = <<>> <=> m = 0)
  BY <1>1, <1>2, EmptySeq
<1> HIDE DEF whole, n, m
<1>6. ASSUME NEW k \in 1..(m - 1)
      PROVE  /\ s[k].type # s[k + 1].type
             /\ s[k].type = "started" => s[k + 1].biome = s[k].biome
  <2>1. k \in 1..m /\ k + 1 \in 1..m /\ n + k \in 1..((n + m) - 1) /\ n + (k + 1) \in 1..(n + m)
    BY <1>1
  <2>2. s[k] = whole[n + k] /\ s[k + 1] = whole[(n + k) + 1]
    <3>1. n + (k + 1) = (n + k) + 1
      BY <1>1
    <3> QED
      BY <1>2, <2>1, <3>1
  <2>3. n + k \in 1..(n + m) /\ (n + k) + 1 \in 1..(n + m)
    BY <1>1
  <2>4. (n + k) % 2 = 1 <=> ((n + k) + 1) % 2 # 1
    BY <1>1
  <2> QED
    BY <1>3, <2>1, <2>2, <2>3, <2>4
<1>7. ASSUME m # 0
      PROVE  /\ s[m].type = "started" /\ s[m].biome = after.biome
             /\ before.biome = NoBiome => s[1].type = "started"
             /\ before.biome # NoBiome => s[1].type = "ended" /\ s[1].biome = before.biome
  <2>1. m \in 1..m /\ 1 \in 1..m /\ n + 1 \in 1..(n + m)
    BY <1>1, <1>7
  <2>2. s[m] = whole[n + m] /\ s[1] = whole[n + 1]
    BY <1>2, <2>1
  <2>3. whole # <<>>
    BY <1>1, <1>5, <1>7
  <2>4. CASE n = 0
    BY <1>3, <1>4, <2>1, <2>2, <2>3, <2>4
  <2>5. CASE n # 0
    <3>1. n \in 1..n /\ n \in 1..(n + m) /\ n \in 1..((n + m) - 1) /\ (n + 1) % 2 = 0
      BY <1>1, <1>4, <1>7, <2>5
    <3>2. whole[n].type = "started" /\ whole[n].biome = before.biome
      BY <1>2, <1>3, <1>4, <2>5, <3>1
    <3>3. whole[n + 1].type = "ended" /\ whole[n + 1].biome = before.biome
      BY <1>3, <2>1, <3>1, <3>2
    <3> QED
      BY <1>3, <1>4, <2>2, <2>3, <2>5, <3>3
  <2> QED
    BY <2>4, <2>5
<1>8. ASSUME m = 0 PROVE after.biome = before.biome
  <2>1. n + m = n
    BY <1>1, <1>8
  <2>2. CASE n = 0
    BY <1>3, <1>4, <1>5, <2>1, <2>2
  <2>3. CASE n # 0
    BY <1>1, <1>2, <1>3, <1>4, <1>5, <2>1, <2>3
  <2> QED
    BY <2>2, <2>3
<1> QED
  BY <1>5, <1>6, <1>7, <1>8 DEF InTurn, m

\* scan_once with the engine: what is put on events_queue since a log was seeded tells its
\* biomes in turn.  The first event ends the biome that was on when the macro met the log,
\* although that one's start was never put; no poll can part an end from its start.
THEOREM WatcherTellsInTurn == WatcherSpec => []ToldInTurn
<1>1. WatcherIInv => ToldInTurn
  <2> SUFFICES ASSUME WatcherIInv, NEW f \in File \ tainted, offsets[f] # None,
                      current # Nobody => current.file # f
               PROVE  InTurn(queued[f], FromScratch(f, seeded[f]).state.biome,
                             engine_instances[f].biome)
    BY DEF ToldInTurn
  <2>1. UpTo(f, offsets[f])
    BY DEF WatcherIInv, Read, In
  <2>2. /\ content[f] \in Seq(Half) /\ queued[f] \in Seq(Event)
        /\ seeded[f] \in Nat /\ offsets[f] \in Nat
    BY DEF WatcherIInv, WatcherTypeOK, None
  <2>3. Len(content[f]) \in Nat /\ offsets[f] <= Len(content[f]) /\ seeded[f] <= Len(content[f])
    BY <2>1, <2>2, LenProperties DEF UpTo
  <2>4. Past(f, seeded[f]) \in Seq(Half) /\ Past(f, offsets[f]) \in Seq(Half)
    BY <2>2, <2>3, SubSeqProperties DEF Past
  <2> DEFINE early == Replay(Absent, Past(f, seeded[f]))
             whole == Replay(Absent, Past(f, offsets[f]))
  <2>5. Sound(early.events, early.state) /\ Sound(whole.events, whole.state)
    BY <2>4, ReplaySound
  <2>6. /\ early.events \o queued[f] = whole.events /\ engine_instances[f] = whole.state
        /\ early = FromScratch(f, seeded[f])
    BY <2>1 DEF UpTo, FromScratch, Past
  <2> HIDE DEF early, whole
  <2>7. InTurn(queued[f], early.state.biome, whole.state.biome)
    BY <2>2, <2>5, <2>6, RestInTurn
  <2> QED
    BY <2>6, <2>7
<1> QED
  BY <1>1, WatcherInductive, PTL
=============================================================================
