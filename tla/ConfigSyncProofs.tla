-------------------------- MODULE ConfigSyncProofs --------------------------
(***************************************************************************)
(* Proofs about ConfigSync, for any set of handlers, number of edits and   *)
(* length of time.                                                         *)
(***************************************************************************)
EXTENDS ConfigSync, FiniteSets, FiniteSetTheorems, TLAPS

-----------------------------------------------------------------------------
(* The inductive invariants. *)

Busy == {e \in Editor : editor[e].pc # "idle"}

\* Every update of the settings is the end of an edit of its own, and was stamped before.
EditsSound ==
  /\ IsFiniteSet(Busy) /\ settings.rev + Cardinality(Busy) <= edits
  /\ biomes_rev <= edits
  /\ \A e \in Editor : editor[e].stamp <= clock

Carries(c) ==
  /\ c.rev <= settings.rev
  /\ c.known /\ c.rev = settings.rev => c.flow = ServedFlow(settings)

\* The macro's config, and the one on its way, tell the flow of the settings they are of.
ConfigSound == Carries(config) /\ Carries(fetch.got)

\* The config of the last fetch that was stamped, whether its reply has arrived or not.
Served == config.known \/ fetch.pc = "reply"
LastRev == IF fetch.pc = "reply" THEN fetch.got.rev ELSE config.rev

\* Without one of the two races, what is being served is still what the settings are, a
\* change since the last stamp is seen in updated_at, and so a heartbeat that answers
\* false has compared settings no newer than those of the last stamp.
BeatSound ==
  /\ beat.pc = "auth" => beat.fetched <= fetched_at
  /\ beat.rev <= settings.rev
  /\ ~missed =>
       /\ fetch.pc \in {"read", "biomes"} => fetch.got.rev = settings.rev
       /\ Served => LastRev = settings.rev \/ settings.updated_at > fetched_at
       /\ Served /\ beat.pc = "reply" /\ ~beat.stale => beat.rev <= LastRev

-----------------------------------------------------------------------------
(* Types. *)

LEMMA ConstantsTyped ==
  /\ Keep \notin Mode /\ Keep \notin Flow
  /\ NoChange \in Patch /\ Resting \in Handler /\ NoConfig \in Config /\ NoBeat \in Beat
  /\ 1 \in Time /\ 0 \in 0..MaxEdits
<1>1. Keep \notin Mode /\ Keep \notin Flow /\ 0 \in Time /\ 1 \in Time /\ 0 \in 0..MaxEdits
  BY BoundAssumption DEF Keep, Mode, Flow, Time
<1>2. NoChange \in Patch
  BY DEF NoChange, Patch
<1>3. Resting \in Handler
  BY <1>1, <1>2 DEF Resting, Handler, Flow
<1>4. NoConfig \in Config
  BY <1>1 DEF NoConfig, Config, Flow
<1>5. NoBeat \in Beat
  BY <1>1 DEF NoBeat, Beat
<1> QED
  BY <1>1, <1>2, <1>3, <1>4, <1>5

LEMMA InitTyped == Init => TypeOK /\ EditsSound
<1> SUFFICES ASSUME Init PROVE TypeOK /\ EditsSound
  OBVIOUS
<1>1. settings \in [mode : Mode, flow : Flow, updated_at : 0..clock, rev : 0..MaxEdits]
      /\ settings.rev = 0
  BY ConstantsTyped DEF Init
<1>2. fetch \in Fetch
  BY ConstantsTyped DEF Init, Fetch
<1>3. TypeOK
  <2>1. clock \in 1..MaxTime /\ biomes_rev \in 0..MaxEdits /\ fetched_at \in 0..clock
        /\ edits \in 0..MaxEdits
    BY BoundAssumption DEF Init
  <2>2. editor \in [Editor -> Handler] /\ config \in Config /\ beat \in Beat
        /\ refresh_now \in BOOLEAN /\ missed \in BOOLEAN
    BY ConstantsTyped DEF Init
  <2> QED
    BY <1>1, <1>2, <2>1, <2>2 DEF TypeOK
<1>4. \A e \in Editor : editor[e].pc = "idle" /\ editor[e].stamp = 0
  BY DEF Init, Resting
<1>5. Busy = {}
  BY <1>4 DEF Busy
<1>6. IsFiniteSet(Busy) /\ Cardinality(Busy) = 0
  BY <1>5, FS_EmptySet
<1> QED
  BY <1>1, <1>3, <1>4, <1>6 DEF Init, EditsSound

\* What a patch makes of the two fields has their types.
LEMMA PatchedTyped ==
  ASSUME TypeOK, NEW p \in Patch
  PROVE  Patched(p).mode \in Mode /\ Patched(p).flow \in Flow
<1>1. p.mode \in Mode \cup {Keep} /\ p.flow \in Flow \cup {Keep}
  BY DEF Patch
<1>2. settings.mode \in Mode /\ settings.flow \in Flow
  BY DEF TypeOK
<1> QED
  BY <1>1, <1>2 DEF Patched

\* A handler that starts takes an edit; one that ends gives its place back.
LEMMA BusyStarts ==
  ASSUME EditsSound, TypeOK, NEW e \in Editor, editor[e].pc = "idle", edits' = edits + 1,
         settings.rev' = settings.rev,
         \A d \in Editor \ {e} : editor'[d] = editor[d], editor'[e].pc # "idle"
  PROVE  IsFiniteSet(Busy') /\ settings.rev' + Cardinality(Busy') <= edits'
<1>1. Busy' = Busy \cup {e} /\ e \notin Busy
  BY DEF Busy
<1>2. IsFiniteSet(Busy') /\ Cardinality(Busy') = Cardinality(Busy) + 1
  BY <1>1, FS_AddElement DEF EditsSound
<1>3. Cardinality(Busy) \in Nat /\ settings.rev \in Nat /\ edits \in Nat
  BY FS_CardinalityType DEF EditsSound, TypeOK
<1> QED
  BY <1>2, <1>3 DEF EditsSound

LEMMA BusyGoesOn ==
  ASSUME EditsSound, NEW e \in Editor, editor[e].pc # "idle", edits' = edits,
         settings.rev' = settings.rev,
         \A d \in Editor \ {e} : editor'[d] = editor[d], editor'[e].pc # "idle"
  PROVE  IsFiniteSet(Busy') /\ settings.rev' + Cardinality(Busy') <= edits'
<1>1. Busy' = Busy
  BY DEF Busy
<1> QED
  BY <1>1 DEF EditsSound

LEMMA BusyEnds ==
  ASSUME EditsSound, TypeOK, NEW e \in Editor, editor[e].pc # "idle", edits' = edits,
         settings.rev' \in {settings.rev, settings.rev + 1},
         \A d \in Editor \ {e} : editor'[d] = editor[d], editor'[e].pc = "idle"
  PROVE  IsFiniteSet(Busy') /\ settings.rev' + Cardinality(Busy') <= edits'
<1>1. Busy' = Busy \ {e} /\ e \in Busy
  BY DEF Busy
<1>2. IsFiniteSet(Busy') /\ Cardinality(Busy') = Cardinality(Busy) - 1
  BY <1>1, FS_RemoveElement DEF EditsSound
<1>3. Cardinality(Busy) \in Nat /\ settings.rev \in Nat /\ edits \in Nat
  BY FS_CardinalityType DEF EditsSound, TypeOK
<1> QED
  BY <1>2, <1>3 DEF EditsSound

LEMMA TypeStep == TypeOK /\ EditsSound /\ [Next]_vars => TypeOK' /\ EditsSound'
<1> SUFFICES ASSUME TypeOK, EditsSound, [Next]_vars PROVE TypeOK' /\ EditsSound'
  OBVIOUS
<1>a. /\ settings.rev \in Nat /\ settings.rev <= MaxEdits /\ edits \in Nat /\ edits <= MaxEdits
      /\ biomes_rev \in Nat /\ clock \in Nat /\ 1 <= clock /\ clock <= MaxTime
      /\ clock \in Time /\ clock <= clock
  BY BoundAssumption DEF TypeOK, Time
<1>b. editor \in [Editor -> Handler] /\ Resting \in Handler
  BY ConstantsTyped DEF TypeOK
<1>1. CASE Tick
  <2>1. clock' \in 1..MaxTime /\ clock' = clock + 1 /\ UNCHANGED <<docs, editor, edits, macro, fetch, beat, missed>>
    BY <1>1, <1>a, BoundAssumption DEF Tick
  <2>2. settings' \in [mode : Mode, flow : Flow, updated_at : 0..clock', rev : 0..MaxEdits]
        /\ fetched_at' \in 0..clock'
    BY <2>1, <1>a DEF TypeOK, docs
  <2>3. Busy' = Busy
    BY <2>1 DEF Busy
  <2>4. \A e \in Editor : editor[e].stamp <= clock'
    <3>1. \A e \in Editor : editor[e].stamp \in Nat
      BY <1>b DEF Handler, Time
    <3> QED
      BY <2>1, <3>1, <1>a DEF EditsSound
  <2> QED
    BY <2>1, <2>2, <2>3, <2>4 DEF TypeOK, EditsSound, docs, macro
<1>2. ASSUME NEW e \in Editor, EditStep(e) PROVE TypeOK' /\ EditsSound'
  <2>1. CASE PatchSettings(e) \/ SetupOther(e) \/ SetupMode(e) \/ EditBiome(e)
    <3>1. /\ editor[e].pc = "idle" /\ edits < MaxEdits /\ edits' = edits + 1
          /\ UNCHANGED <<clock, settings, fetched_at, macro, fetch, beat, missed>>
      BY <2>1 DEF PatchSettings, SetupOther, SetupMode, EditBiome, StartEdit, docs
    <3>2. \E h \in Handler :
            editor' = [editor EXCEPT ![e] = h] /\ h.pc # "idle" /\ h.stamp <= clock
      <4>1. CASE PatchSettings(e) \/ SetupOther(e)
        <5>1. PICK p \in Patch : Stamped(e, p)
          BY <4>1, ConstantsTyped DEF PatchSettings, SetupOther
        <5> DEFINE h == [Resting EXCEPT !.pc = "write", !.patch = p, !.stamp = clock]
        <5>2. h \in Handler
          BY <1>a, ConstantsTyped DEF Handler
        <5>3. h.pc = "write" /\ h.stamp = clock
          BY ConstantsTyped DEF Handler
        <5> HIDE DEF h
        <5>4. h.pc # "idle" /\ h.stamp <= clock /\ editor' = [editor EXCEPT ![e] = h]
          BY <1>a, <5>1, <5>3 DEF Stamped, h
        <5> QED
          BY <5>2, <5>4
      <4>2. CASE SetupMode(e)
        <5>1. PICK m \in Mode :
                editor' = [editor EXCEPT ![e] = [Resting EXCEPT !.pc = "provision",
                                                   !.patch = [mode |-> m, flow |-> Keep],
                                                   !.seen = settings.flow]]
          BY <4>2 DEF SetupMode
        <5> DEFINE h == [Resting EXCEPT !.pc = "provision", !.patch = [mode |-> m, flow |-> Keep],
                                        !.seen = settings.flow]
        <5>2. [mode |-> m, flow |-> Keep] \in Patch /\ settings.flow \in Flow
          BY DEF Patch, TypeOK
        <5>3. h \in Handler /\ h.pc # "idle"
          BY <5>2, ConstantsTyped DEF Handler
        <5>4. h.stamp <= clock
          BY <1>a DEF Resting
        <5> QED
          BY <5>1, <5>3, <5>4
      <4>3. CASE EditBiome(e)
        <5> DEFINE h == [Resting EXCEPT !.pc = "touch"]
        <5>1. h \in Handler /\ h.pc # "idle" /\ h.stamp <= clock
          BY <1>a, ConstantsTyped DEF Handler, Resting
        <5> QED
          BY <4>3, <5>1 DEF EditBiome
      <4> QED
        BY <2>1, <4>1, <4>2, <4>3
    <3>3. PICK h \in Handler :
            editor' = [editor EXCEPT ![e] = h] /\ h.pc # "idle" /\ h.stamp <= clock
      BY <3>2
    <3>4. editor' \in [Editor -> Handler] /\ editor'[e] = h
          /\ \A d \in Editor \ {e} : editor'[d] = editor[d]
      BY <1>b, <3>3
    <3>5. IsFiniteSet(Busy') /\ settings.rev' + Cardinality(Busy') <= edits'
      BY <3>1, <3>3, <3>4, BusyStarts
    <3>6. biomes_rev' \in {biomes_rev, biomes_rev + 1}
      BY <2>1 DEF PatchSettings, SetupOther, SetupMode, EditBiome, docs
    <3>7. edits' \in 0..MaxEdits /\ biomes_rev' \in 0..MaxEdits /\ biomes_rev' <= edits'
      BY <3>1, <3>6, <1>a, BoundAssumption DEF EditsSound
    <3>8. TypeOK'
      BY <3>1, <3>4, <3>7 DEF TypeOK, macro
    <3>9. \A d \in Editor : editor'[d].stamp <= clock'
      BY <3>1, <3>3, <3>4 DEF EditsSound
    <3> QED
      BY <3>5, <3>7, <3>8, <3>9 DEF EditsSound
  <2>2. CASE SetupStamp(e) \/ TouchSettings(e) \/ EditFails(e)
    <3>1. /\ editor[e].pc # "idle" /\ UNCHANGED <<clock, docs, edits, macro, fetch, beat, missed>>
      BY <2>2 DEF SetupStamp, TouchSettings, EditFails
    <3>2. \E h \in Handler : editor' = [editor EXCEPT ![e] = h] /\ h.stamp <= clock
      <4>1. CASE SetupStamp(e)
        <5> DEFINE f == IF editor[e].patch.mode = "shared" /\ editor[e].seen = "direct"
                        THEN "relay" ELSE Keep
                   h == [editor[e] EXCEPT !.pc = "write", !.stamp = clock, !.seen = "relay",
                                          !.patch.flow = f]
        <5>1. f \in Flow \cup {Keep} /\ "relay" \in Flow /\ clock \in Time
          BY <1>a, BoundAssumption DEF Flow, Time
        <5>2. editor[e] \in Handler /\ editor[e].patch \in Patch
          BY <1>b DEF Handler
        <5>3. [editor[e].patch EXCEPT !.flow = f] \in Patch
          BY <5>1, <5>2 DEF Patch
        <5>4. h \in Handler /\ h.stamp = clock
          BY <5>1, <5>2, <5>3 DEF Handler
        <5>5. editor' = [editor EXCEPT ![e] = h]
          BY <4>1 DEF SetupStamp
        <5> HIDE DEF h
        <5>6. h.stamp <= clock
          BY <5>4, <1>a
        <5> QED
          BY <5>4, <5>5, <5>6
      <4>2. CASE TouchSettings(e)
        <5> DEFINE h == [Resting EXCEPT !.pc = "write", !.patch = NoChange, !.stamp = clock]
        <5>1. h \in Handler
          BY <1>a, ConstantsTyped DEF Handler
        <5>2. h.stamp = clock
          BY ConstantsTyped DEF Handler
        <5>3. editor' = [editor EXCEPT ![e] = h]
          BY <4>2 DEF TouchSettings, Stamped
        <5> HIDE DEF h
        <5>4. h.stamp <= clock
          BY <5>2, <1>a
        <5> QED
          BY <5>1, <5>3, <5>4
      <4>3. CASE EditFails(e)
        <5>1. Resting.stamp <= clock
          BY <1>a DEF Resting
        <5> QED
          BY <1>b, <4>3, <5>1 DEF EditFails
      <4> QED
        BY <2>2, <4>1, <4>2, <4>3
    <3>3. PICK h \in Handler : editor' = [editor EXCEPT ![e] = h] /\ h.stamp <= clock
      BY <3>2
    <3>4. editor' \in [Editor -> Handler] /\ editor'[e] = h
          /\ \A d \in Editor \ {e} : editor'[d] = editor[d]
      BY <1>b, <3>3
    <3>5. IsFiniteSet(Busy') /\ settings.rev' + Cardinality(Busy') <= edits'
      <4>1. settings.rev' = settings.rev /\ edits' = edits
        BY <3>1 DEF docs
      <4>2. CASE editor'[e].pc = "idle"
        BY <3>1, <3>4, <4>1, <4>2, BusyEnds
      <4>3. CASE editor'[e].pc # "idle"
        BY <3>1, <3>4, <4>1, <4>3, BusyGoesOn
      <4> QED
        BY <4>2, <4>3
    <3>6. TypeOK'
      BY <3>1, <3>4 DEF TypeOK, macro, docs
    <3>7. \A d \in Editor : editor'[d].stamp <= clock'
      BY <3>1, <3>3, <3>4 DEF EditsSound
    <3> QED
      BY <3>1, <3>5, <3>6, <3>7 DEF EditsSound, docs
  <2>3. CASE WriteSettings(e)
    <3> DEFINE new == Patched(editor[e].patch)
    <3>1. /\ editor[e].pc = "write" /\ editor' = [editor EXCEPT ![e] = Resting]
          /\ UNCHANGED <<clock, biomes_rev, fetched_at, edits, macro, fetch, beat>>
          /\ settings' = [mode |-> new.mode, flow |-> new.flow, updated_at |-> editor[e].stamp,
                          rev |-> settings.rev + 1]
          /\ missed' \in BOOLEAN
      BY <2>3 DEF WriteSettings, UpdatedAt
    <3>2. editor' \in [Editor -> Handler] /\ editor'[e] = Resting
          /\ \A d \in Editor \ {e} : editor'[d] = editor[d]
      BY <1>b, <3>1
    <3>3. editor[e].patch \in Patch /\ editor[e].stamp \in 0..clock
      BY <1>a, <1>b DEF Handler, Time, EditsSound
    <3>4. IsFiniteSet(Busy') /\ settings.rev' + Cardinality(Busy') <= edits'
      BY <3>1, <3>2, BusyEnds DEF Resting
    <3>5. settings.rev' = settings.rev + 1 /\ settings.rev + 1 <= edits
      <4>1. Cardinality(Busy') \in Nat
        BY <3>4, FS_CardinalityType
      <4> QED
        BY <3>1, <3>4, <4>1, <1>a
    <3>6. settings' \in [mode : Mode, flow : Flow, updated_at : 0..clock', rev : 0..MaxEdits]
      BY <3>1, <3>3, <3>5, <1>a, BoundAssumption, PatchedTyped
    <3>7. TypeOK'
      BY <3>1, <3>2, <3>6 DEF TypeOK, macro
    <3>8. \A d \in Editor : editor'[d].stamp <= clock'
      BY <3>1, <3>2, <1>a DEF EditsSound, Resting
    <3> QED
      BY <3>1, <3>4, <3>7, <3>8 DEF EditsSound
  <2> QED
    BY <1>2, <2>1, <2>2, <2>3 DEF EditStep
<1>3. CASE FetchStep \/ FetchReply \/ FetchFails
  <2>1. UNCHANGED <<clock, settings, biomes_rev, editor, edits, beat>>
    BY <1>3 DEF FetchStep, FetchStart, ServeSettings, ServeBiomes, ServeStamp, FetchReply,
                FetchFails, docs
  <2>2. fetch.got \in Config
    BY DEF TypeOK, Fetch
  <2>3. fetch' \in Fetch
    <3>1. CASE FetchStart \/ ServeStamp \/ FetchReply \/ FetchFails
      BY <3>1, <2>2, ConstantsTyped
         DEF FetchStart, ServeStamp, FetchReply, FetchFails, TypeOK, Fetch
    <3>2. CASE ServeSettings
      <4>1. ServedFlow(settings) \in Flow
        BY DEF ServedFlow, Flow
      <4>2. [known |-> TRUE, flow |-> ServedFlow(settings), rev |-> settings.rev, biomes_rev |-> 0]
              \in Config
        BY <4>1, ConstantsTyped DEF Config, TypeOK
      <4> QED
        BY <3>2, <4>2 DEF ServeSettings, Fetch
    <3>3. CASE ServeBiomes
      <4>1. [fetch.got EXCEPT !.biomes_rev = biomes_rev] \in Config
        BY <2>2 DEF Config, TypeOK
      <4> QED
        BY <3>3, <4>1 DEF ServeBiomes, TypeOK, Fetch
    <3> QED
      BY <1>3, <3>1, <3>2, <3>3 DEF FetchStep
  <2>4. fetched_at' \in 0..clock /\ config' \in Config /\ refresh_now' \in BOOLEAN
        /\ missed' \in BOOLEAN
    <3>1. CASE FetchStep
      <4>1. fetched_at' \in {fetched_at, clock} /\ config' = config /\ missed' = missed
        BY <3>1 DEF FetchStep, FetchStart, ServeSettings, ServeBiomes, ServeStamp, docs, macro,
                    FetchedAt
      <4>2. fetched_at' \in 0..clock /\ config' \in Config
        BY <4>1, <1>a DEF TypeOK
      <4>3. refresh_now' = FALSE \/ refresh_now' = refresh_now
        BY <3>1 DEF FetchStep, FetchStart, ServeSettings, ServeBiomes, ServeStamp, macro
      <4>4. refresh_now' \in BOOLEAN /\ missed' \in BOOLEAN
        BY <4>1, <4>3 DEF TypeOK
      <4> QED
        BY <4>2, <4>4
    <3>2. CASE FetchReply
      BY <2>2, <3>2 DEF FetchReply, TypeOK, docs
    <3>3. CASE FetchFails
      BY <3>3 DEF FetchFails, TypeOK, docs, macro
    <3> QED
      BY <1>3, <3>1, <3>2, <3>3
  <2>5. Busy' = Busy
    BY <2>1 DEF Busy
  <2> QED
    BY <2>1, <2>3, <2>4, <2>5 DEF TypeOK, EditsSound
<1>4. CASE HeartbeatAuth \/ HeartbeatAnswer \/ HeartbeatReply \/ HeartbeatFails
  <2>1. UNCHANGED <<clock, docs, editor, edits, config, fetch, missed>>
    BY <1>4 DEF HeartbeatAuth, HeartbeatAnswer, HeartbeatReply, HeartbeatFails, macro
  <2>2. beat' \in Beat
    <3>1. fetched_at \in Time /\ settings.rev \in 0..MaxEdits
      BY <1>a, BoundAssumption DEF TypeOK, Time
    <3>2. (settings.updated_at > beat.fetched) \in BOOLEAN
      OBVIOUS
    <3>3. CASE HeartbeatAuth
      BY <3>1, <3>3, ConstantsTyped DEF HeartbeatAuth, Beat
    <3>4. CASE HeartbeatAnswer
      BY <3>1, <3>2, <3>4, ConstantsTyped DEF HeartbeatAnswer, Beat
    <3>5. CASE HeartbeatReply \/ HeartbeatFails
      BY <3>5, ConstantsTyped DEF HeartbeatReply, HeartbeatFails
    <3> QED
      BY <1>4, <3>3, <3>4, <3>5
  <2>3. refresh_now' \in BOOLEAN
    BY <1>4 DEF HeartbeatAuth, HeartbeatAnswer, HeartbeatReply, HeartbeatFails, macro, TypeOK
  <2>4. Busy' = Busy
    BY <2>1 DEF Busy
  <2> QED
    BY <2>1, <2>2, <2>3, <2>4 DEF TypeOK, EditsSound, docs
<1>5. CASE UNCHANGED vars
  BY <1>5 DEF vars, TypeOK, EditsSound, Busy, docs, macro
<1> QED
  BY <1>1, <1>2, <1>3, <1>4, <1>5 DEF Next

\* Stamps are never ahead of the clock, and the settings are updated once for each edit at
\* most, whatever the handlers read between their awaits.
THEOREM TypeCorrect == Spec => []TypeOK
<1> QED
  BY InitTyped, TypeStep, PTL DEF Spec

-----------------------------------------------------------------------------
(* Who posts an alert. *)

LEMMA ConfigInit == Init => ConfigSound
BY ConstantsTyped DEF Init, ConfigSound, Carries, NoConfig

\* Settings that are written get a number no config has.
LEMMA ConfigStep == TypeOK /\ ConfigSound /\ [Next]_vars => ConfigSound'
<1> SUFFICES ASSUME TypeOK, ConfigSound, [Next]_vars PROVE ConfigSound'
  OBVIOUS
<1>0. /\ settings.rev \in Nat /\ config \in Config /\ fetch.got \in Config
      /\ config.rev \in Nat /\ fetch.got.rev \in Nat
  BY DEF TypeOK, Config, Fetch
<1>1. ASSUME NEW e \in Editor, WriteSettings(e) PROVE ConfigSound'
  <2>1. settings'.rev = settings.rev + 1 /\ UNCHANGED <<config, fetch>>
    BY <1>1 DEF WriteSettings, macro
  <2>2. config.rev < settings'.rev /\ fetch.got.rev < settings'.rev
    BY <1>0, <2>1 DEF ConfigSound, Carries
  <2> QED
    BY <1>0, <2>1, <2>2 DEF ConfigSound, Carries
<1>2. CASE ServeSettings
  <2>1. /\ UNCHANGED <<config, settings>>
        /\ fetch'.got = [known |-> TRUE, flow |-> ServedFlow(settings), rev |-> settings.rev,
                         biomes_rev |-> 0]
    BY <1>2 DEF ServeSettings, docs, macro
  <2> QED
    BY <1>0, <2>1 DEF ConfigSound, Carries, ServedFlow
<1>3. CASE ServeBiomes
  <2>1. fetch'.got = [fetch.got EXCEPT !.biomes_rev = biomes_rev]
    BY <1>3 DEF ServeBiomes, TypeOK, Fetch
  <2>2. /\ fetch'.got.known = fetch.got.known /\ fetch'.got.flow = fetch.got.flow
        /\ fetch'.got.rev = fetch.got.rev
    BY <1>0, <2>1 DEF Config
  <2> QED
    BY <1>3, <2>2 DEF ServeBiomes, ConfigSound, Carries, ServedFlow, docs, macro
<1>4. CASE FetchReply
  <2>1. UNCHANGED settings /\ config' = fetch.got /\ fetch'.got = NoConfig
    BY <1>4 DEF FetchReply, docs
  <2> QED
    BY <1>0, <2>1 DEF ConfigSound, Carries, ServedFlow, NoConfig
<1>5. CASE FetchFails
  <2>1. UNCHANGED <<settings, config>> /\ fetch'.got = NoConfig
    BY <1>5 DEF FetchFails, docs, macro
  <2> QED
    BY <1>0, <2>1 DEF ConfigSound, Carries, ServedFlow, NoConfig
<1>6. CASE FetchStart \/ ServeStamp
  <2>1. UNCHANGED <<settings, config>> /\ fetch'.got = fetch.got
    BY <1>6 DEF FetchStart, ServeStamp, docs, TypeOK, Fetch, macro
  <2> QED
    BY <2>1 DEF ConfigSound, Carries, ServedFlow
<1>7. CASE UNCHANGED <<settings, config, fetch>>
  BY <1>7 DEF ConfigSound, Carries, ServedFlow
<1> QED
  <2>1. ASSUME NEW e \in Editor, EditStep(e), ~WriteSettings(e)
        PROVE  UNCHANGED <<settings, config, fetch>>
    BY <2>1 DEF EditStep, PatchSettings, SetupOther, SetupMode, SetupStamp, EditBiome,
                TouchSettings, EditFails, docs, macro
  <2>2. Tick \/ HeartbeatAuth \/ HeartbeatAnswer \/ HeartbeatReply \/ HeartbeatFails
        \/ UNCHANGED vars => UNCHANGED <<settings, config, fetch>>
    BY DEF Tick, HeartbeatAuth, HeartbeatAnswer, HeartbeatReply, HeartbeatFails, vars, docs, macro
  <2> QED
    BY <1>1, <1>2, <1>3, <1>4, <1>5, <1>6, <1>7, <2>1, <2>2 DEF Next, FetchStep

\* A macro that has the settings, and these are valid, agrees with the server on who posts
\* an alert: never both, never neither.
THEOREM OnePosts == Spec => []OnePoster
<1>1. TypeOK /\ ConfigSound => OnePoster
  <2> SUFFICES ASSUME TypeOK, ConfigSound, config.known, config.rev = settings.rev,
                      Valid(settings.mode, settings.flow)
               PROVE  MacroPosts # ServerPosts
    BY DEF OnePoster
  <2>1. config.flow = ServedFlow(settings)
    BY DEF ConfigSound, Carries
  <2>2. settings.flow \in Flow /\ (settings.flow = "direct" => settings.mode = "per_user_channels")
    BY DEF TypeOK, Valid
  <2>3. MacroPosts <=> ~ServerPosts
    BY <2>1, <2>2 DEF MacroPosts, ServerPosts, ServedFlow, Flow
  <2> QED
    BY <2>3
<1> QED
  BY <1>1, InitTyped, TypeStep, ConfigInit, ConfigStep, PTL DEF Spec

-----------------------------------------------------------------------------
(* What a heartbeat vouches for. *)

LEMMA BeatInit == Init => BeatSound
BY DEF Init, BeatSound, Served, LastRev, NoConfig, NoBeat

LEMMA BeatStep ==
  TypeOK /\ EditsSound /\ BeatSound /\ [Next]_vars => BeatSound'
<1> SUFFICES ASSUME TypeOK, EditsSound, BeatSound, [Next]_vars PROVE BeatSound'
  OBVIOUS
<1>0. /\ settings.rev \in Nat /\ settings.updated_at \in Nat /\ fetched_at \in Nat
      /\ clock \in Nat /\ fetched_at <= clock
      /\ beat.fetched \in Nat /\ beat.rev \in Nat
      /\ config.rev \in Nat /\ fetch.got.rev \in Nat
  BY DEF TypeOK, Config, Fetch, Beat, Time
<1>1. ASSUME NEW e \in Editor, WriteSettings(e) PROVE BeatSound'
  <2>1. /\ settings'.rev = settings.rev + 1 /\ settings'.updated_at = editor[e].stamp
        /\ UNCHANGED <<config, fetch, beat, fetched_at>>
        /\ ~missed' => /\ ~missed /\ fetch.pc \notin {"read", "biomes"}
                       /\ ~(editor[e].stamp <= fetched_at)
    BY <1>1 DEF WriteSettings, UpdatedAt, macro
  <2>2. editor[e].stamp \in Nat
    BY DEF TypeOK, Handler, Time
  <2>3. ~missed' => settings'.updated_at > fetched_at
    BY <1>0, <2>1, <2>2
  <2>4. beat.rev <= settings'.rev
    BY <1>0, <2>1 DEF BeatSound
  <2> QED
    BY <2>1, <2>3, <2>4 DEF BeatSound, Served, LastRev
<1>2. CASE FetchStart
  <2>1. fetch.pc = "idle" /\ fetch'.pc = "sent"
        /\ UNCHANGED <<settings, fetched_at, config, beat, missed>>
    BY <1>2 DEF FetchStart, TypeOK, Fetch, docs
  <2> QED
    BY <2>1 DEF BeatSound, Served, LastRev
<1>3. CASE ServeSettings
  <2>1. fetch.pc = "sent" /\ fetch'.pc = "read" /\ fetch'.got.rev = settings.rev
        /\ UNCHANGED <<settings, fetched_at, config, beat, missed>>
    BY <1>3 DEF ServeSettings, docs, macro
  <2> QED
    BY <2>1 DEF BeatSound, Served, LastRev
<1>4. CASE ServeBiomes
  <2>1. fetch.pc = "read" /\ fetch'.pc = "biomes" /\ fetch'.got.rev = fetch.got.rev
        /\ UNCHANGED <<settings, fetched_at, config, beat, missed>>
    BY <1>4 DEF ServeBiomes, TypeOK, Fetch, Config, docs, macro
  <2> QED
    BY <2>1 DEF BeatSound, Served, LastRev
<1>5. CASE ServeStamp
  <2>1. fetch.pc = "biomes" /\ fetch'.pc = "reply" /\ fetch'.got = fetch.got
        /\ fetched_at' = clock /\ UNCHANGED <<settings, config, beat, missed>>
    BY <1>5 DEF ServeStamp, FetchedAt, TypeOK, Fetch, macro
  <2>2. beat.pc = "auth" => beat.fetched <= clock
    BY <1>0 DEF BeatSound
  <2>3. ~missed => fetch'.got.rev = settings.rev
    BY <2>1 DEF BeatSound
  <2> QED
    BY <2>1, <2>2, <2>3 DEF BeatSound, Served, LastRev
<1>6. CASE FetchReply
  <2>1. fetch.pc = "reply" /\ fetch'.pc = "idle" /\ config' = fetch.got
        /\ UNCHANGED <<settings, fetched_at, beat, missed>>
    BY <1>6 DEF FetchReply, docs
  <2> QED
    BY <2>1 DEF BeatSound, Served, LastRev
<1>7. CASE FetchFails
  <2>1. /\ fetch'.pc = "idle" /\ UNCHANGED <<settings, fetched_at, config, beat>>
        /\ ~missed' => ~missed /\ fetch.pc = "sent"
    BY <1>7 DEF FetchFails, docs, macro
  <2> QED
    BY <2>1 DEF BeatSound, Served, LastRev
<1>8. CASE HeartbeatAuth
  <2>1. beat'.pc = "auth" /\ beat'.fetched = fetched_at /\ beat'.rev = 0
        /\ UNCHANGED <<docs, macro, fetch, missed>>
    BY <1>8 DEF HeartbeatAuth, NoBeat
  <2> QED
    BY <1>0, <2>1 DEF BeatSound, Served, LastRev, docs, macro
<1>9. CASE HeartbeatAnswer
  <2>1. /\ beat.pc = "auth" /\ beat'.pc = "reply" /\ beat'.rev = settings.rev
        /\ beat'.stale <=> settings.updated_at > beat.fetched
        /\ UNCHANGED <<docs, macro, fetch, missed>>
    BY <1>9 DEF HeartbeatAnswer, NoBeat
  <2>2. ~beat'.stale => ~(settings.updated_at > fetched_at)
    BY <1>0, <2>1 DEF BeatSound
  <2>3. ~missed /\ Served /\ ~beat'.stale => LastRev = settings.rev
    BY <2>2 DEF BeatSound
  <2> QED
    BY <1>0, <2>1, <2>3 DEF BeatSound, Served, LastRev, docs, macro
<1>10. CASE HeartbeatReply \/ HeartbeatFails
  <2>1. beat'.pc = "idle" /\ beat'.rev = 0 /\ UNCHANGED <<docs, config, fetch, missed>>
    BY <1>10 DEF HeartbeatReply, HeartbeatFails, NoBeat, macro
  <2> QED
    BY <1>0, <2>1 DEF BeatSound, Served, LastRev, docs
<1>11. CASE UNCHANGED <<settings, fetched_at, config, fetch, beat, missed>>
  BY <1>11 DEF BeatSound, Served, LastRev
<1> QED
  <2>1. ASSUME NEW e \in Editor, EditStep(e), ~WriteSettings(e)
        PROVE  UNCHANGED <<settings, fetched_at, config, fetch, beat, missed>>
    BY <2>1 DEF EditStep, PatchSettings, SetupOther, SetupMode, SetupStamp, EditBiome,
                TouchSettings, EditFails, docs, macro
  <2>2. Tick \/ UNCHANGED vars => UNCHANGED <<settings, fetched_at, config, fetch, beat, missed>>
    BY DEF Tick, vars, docs, macro
  <2> QED
    BY <1>1, <1>2, <1>3, <1>4, <1>5, <1>6, <1>7, <1>8, <1>9, <1>10, <1>11, <2>1, <2>2
       DEF Next, FetchStep

\* A heartbeat that answers config_stale=false vouches for the config the macro has, unless
\* settings took effect while they were being served or under a stamp no later than the
\* fetch's, or a stamped reply was lost.
THEOREM StalenessIsReported == Spec => []StaleIsReported
<1>1. BeatSound => StaleIsReported
  <2> SUFFICES ASSUME BeatSound, beat.pc = "reply", ~beat.stale, fetch.pc = "idle",
                      config.known, ~missed
               PROVE  config.rev >= beat.rev
    BY DEF StaleIsReported
  <2> QED
    BY DEF BeatSound, Served, LastRev
<1> QED
  BY <1>1, InitTyped, TypeStep, BeatInit, BeatStep, PTL DEF Spec
=============================================================================
