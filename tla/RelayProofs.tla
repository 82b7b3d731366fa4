---------------------------- MODULE RelayProofs ----------------------------
(***************************************************************************)
(* Proofs about Relay, for any number of requests at once, of events and   *)
(* of POSTs and edits, and for any streams.                                *)
(***************************************************************************)
EXTENDS Relay, FiniteSetTheorems, TLAPS

Active(h) == handler[h].pc \in {"settings", "biomes", "event", "put", "insert"}
Stamped(h) == handler[h].pc \in {"event", "put", "insert"}
Waiting == {h \in Handler : handler[h].pc \in {"settings", "biomes"}}

\* Events that went to the server twice, or left the buffer without their own answer.
Disturbed == repeated \cup dropped

\* The batch of a request that has not answered: it was the front of the buffer when sent.
BatchSound(h) ==
  /\ handler[h].first \in 1..(acked + 1) /\ handler[h].last \in handler[h].first..sent

\* The other local variables of a request that has not stored its batch.
FrameSound(h) ==
  /\ handler[h].next \in handler[h].first..(handler[h].last + 1)
  /\ At(h, "settings") \/ At(h, "biomes") => handler[h].next = handler[h].first
  /\ At(h, "event") \/ At(h, "put") =>
       handler[h].next <= handler[h].last /\ handler[h].hooks # {}
  /\ At(h, "insert") =>
       handler[h].next = IF handler[h].hooks = {} THEN handler[h].first ELSE handler[h].last + 1
  /\ handler[h].hooks \subseteq 1..made
  /\ At(h, "settings") => handler[h].doc = "user"
  /\ handler[h].doc = None => handler[h].hooks = {}
  /\ Stamped(h) => handler[h].stamp \in 1..clock

FramesSound ==
  /\ \A h \in Handler : handler[h].pc # "idle" => BatchSound(h)
  /\ \A h \in Handler : Active(h) => FrameSound(h)
  /\ \A t \in Flusher : flight[t] # None => handler[flight[t]].pc # "idle"

\* The budget pays for the stamps, those of the requests that have none yet included.
BudgetSound ==
  IsFiniteSet(Waiting) /\ clock + Cardinality(Waiting) + budget <= Budget

\* Whatever has put up a flag of the document, or still may, names a webhook that is on it
\* now.
DocSound(doc) ==
  \/ doc \in stale
  \/ /\ \A d \in queue \cup tests : d.doc = doc => d.hook \in HooksOf(doc)
     /\ doc \in marking \cup broken => HooksOf(doc) \cap gone # {}
     /\ \A h \in Handler :
          handler[h].doc = doc /\ handler[h].hooks # {} /\ handler[h].pc # "insert" =>
            handler[h].hooks \subseteq HooksOf(doc)

FlagSound == \A doc \in Doc : DocSound(doc)

\* A request's stamp is its own, and the alerts that bear it are those of its loop so far.
StampSound ==
  /\ \A h \in Handler : Stamped(h) =>
       /\ \A e \in Event : [event |-> e, stamp |-> handler[h].stamp] \in alerts <=>
                             e \in handler[h].first..(handler[h].next - 1)
       /\ \A d \in log : d.stamp # handler[h].stamp
  /\ \A g, h \in Handler : Stamped(g) /\ Stamped(h) /\ handler[g].stamp = handler[h].stamp => g = h

\* A request that is about to answer 200 has its batch on record.
Logged(e) == \E d \in log : d.event = e

PopSound == \A h \in Handler : At(h, "update") => \A e \in Batch(h) : Logged(e)

\* An event that meets itself or a later one a second time was disturbed.
Met(e, h) ==
  \/ e <= acked
  \/ \E d \in log : e <= d.event
  \/ \E g \in Handler \ {h} : (Active(g) \/ Awaited(g)) /\ e <= handler[g].last

RepeatSound ==
  /\ \A h \in Handler : Active(h) => \A e \in Batch(h) : Met(e, h) => e \in Disturbed
  /\ \A d \in log : d.event <= sent

\* Events of the log that were not disturbed are stamped in their order.
OrderSound ==
  /\ \A c, d \in log : c.event < d.event /\ c.event \notin Disturbed => c.stamp <= d.stamp
  /\ \A h \in Handler, d \in log :
       Stamped(h) /\ d.event < handler[h].first /\ d.event \notin Disturbed =>
         d.stamp <= handler[h].stamp

RelaySound ==
  /\ TypeOK /\ FramesSound /\ BudgetSound
  /\ FlagSound
  /\ StampSound /\ PopSound /\ AuditTruthful
  /\ RepeatSound /\ OrderSound /\ DurationExplained

-----------------------------------------------------------------------------
(* What the steps of a request do to its local variables. *)

Others(h) == \A g \in Handler \ {h} : handler'[g] = handler[g]

\* A step inside the request: the batch stays, the macro sees nothing.
Inside(h) ==
  /\ Others(h) /\ handler' \in [Handler -> Frame]
  /\ handler'[h].first = handler[h].first /\ handler'[h].last = handler[h].last
  /\ UNCHANGED <<budget, started, macro, hooks, rejected>>

LEMMA IdleTyped == ASSUME TypeOK PROVE Idle \in Frame
BY RelayAssumption DEF Idle, Frame

LEMMA PostMove ==
  ASSUME TypeOK, NEW t \in Flusher, NEW h \in Handler, Post(t, h)
  PROVE  \E last \in Event :
           /\ Others(h) /\ handler' \in [Handler -> Frame] /\ handler[h].pc = "idle"
           /\ handler'[h].pc = "settings" /\ handler'[h].doc = "user"
           /\ handler'[h].hooks = HooksOf("user")
           /\ handler'[h].first = acked + 1 /\ handler'[h].last = last
           /\ handler'[h].next = acked + 1 /\ handler'[h].found = 0
           /\ last \in (acked + 1)..appended
           /\ sent' \in 0..appended /\ sent' >= sent /\ last <= sent'
           /\ repeated' = repeated \cup ((acked + 1)..last \cap 1..sent)
           /\ budget > 0 /\ budget' = budget - 1
           /\ flight' = [flight EXCEPT ![t] = h]
           /\ UNCHANGED <<started, appended, acked, dropped, clock, log, hooks, flags, alerts,
                          rejected>>
<1> USE RelayAssumption
<1> DEFINE last == Sooner(appended, acked + BatchSize)
<1>1. HooksOf("user") \subseteq Nat \ {0}
  BY DEF HooksOf, TypeOK, Slot
<1>2. /\ last \in (acked + 1)..appended /\ last \in Event /\ last \in 0..MaxEvents
      /\ acked + 1 \in 0..MaxEvents /\ acked + 1 \in 0..(MaxEvents + 1)
  BY DEF Post, TypeOK, Event, Sooner
<1> DEFINE new == [Idle EXCEPT !.pc = "settings", !.first = acked + 1, !.last = last,
                               !.next = acked + 1, !.doc = "user", !.hooks = HooksOf("user")]
<1>5. handler' = [handler EXCEPT ![h] = new] /\ handler[h] = Idle
  BY DEF Post
<1>8. /\ sent' = Later(sent, last)
      /\ repeated' = repeated \cup ((acked + 1)..last \cap 1..sent)
  BY DEF Post
<1> HIDE DEF last
<1>3. new \in Frame
  BY <1>1, <1>2, IdleTyped DEF Frame, Doc
<1>4. /\ new.pc = "settings" /\ new.doc = "user" /\ new.hooks = HooksOf("user")
      /\ new.first = acked + 1 /\ new.last = last /\ new.next = acked + 1 /\ new.found = 0
  BY DEF Idle
<1> HIDE DEF new
<1>6. Others(h) /\ handler' \in [Handler -> Frame] /\ handler'[h] = new
  BY <1>3, <1>5 DEF Others, TypeOK
<1>7. handler[h].pc = "idle"
  BY <1>5 DEF Idle
<1>9. sent' \in 0..appended /\ sent' >= sent /\ last <= sent'
  BY <1>2, <1>8 DEF Later, TypeOK
<1>10. /\ budget > 0 /\ budget' = budget - 1 /\ flight' = [flight EXCEPT ![t] = h]
       /\ UNCHANGED <<started, appended, acked, dropped, clock, log, hooks, flags, alerts,
                      rejected>>
  BY DEF Post, Spend
<1> QED
  BY <1>2, <1>4, <1>6, <1>7, <1>8, <1>9, <1>10

\* What the macro does besides: events enter the buffer and leave it, and it waits no more.
MacroStep == Buffer \/ Exit \/ \E t \in Flusher : GiveUp(t)

LEMMA MacroMove ==
  ASSUME TypeOK, MacroStep
  PROVE  /\ UNCHANGED <<started, sent, repeated, handler, clock, log, hooks, flags, alerts,
                        rejected>>
         /\ budget' \in 0..Budget /\ budget' <= budget
         /\ appended' \in appended..MaxEvents /\ acked' \in acked..appended'
         /\ appended' - acked' <= MaxPending
         /\ dropped' = dropped \cup (acked + 1)..acked'
         /\ flight' \in [Flusher -> Handler \cup {None}]
         /\ \A t \in Flusher : flight'[t] \in {flight[t], None}
<1> USE RelayAssumption
<1>1. CASE Buffer
  BY <1>1 DEF Buffer, Later, TypeOK
<1>2. CASE Exit
  BY <1>2 DEF Exit, Spend, TypeOK
<1>3. CASE \E t \in Flusher : GiveUp(t)
  <2>1. PICK t \in Flusher : GiveUp(t)
    BY <1>3
  <2>2. (acked + 1)..acked = {}
    BY DEF TypeOK
  <2>3. flight' \in [Flusher -> Handler \cup {None}] /\ \A u \in Flusher : flight'[u] \in {flight[u], None}
    BY <2>1 DEF GiveUp, TypeOK
  <2> QED
    BY <2>1, <2>2, <2>3 DEF GiveUp, TypeOK
<1> QED
  BY <1>1, <1>2, <1>3 DEF MacroStep

LEMMA ReadSettingsMove ==
  ASSUME TypeOK, NEW h \in Handler, ReadSettings(h)
  PROVE  /\ Inside(h) /\ handler[h].pc = "settings" /\ handler'[h].pc = "biomes"
         /\ handler'[h].next = handler[h].next /\ handler'[h].doc = SourceOf(mode)
         /\ handler'[h].hooks = CASE SourceOf(mode) = "settings" -> HooksOf("settings")
                                  [] SourceOf(mode) = "user" -> handler[h].hooks
                                  [] OTHER -> {}
         /\ UNCHANGED <<clock, log, flags, alerts>>
<1> USE RelayAssumption
<1>1. HooksOf("settings") \subseteq Nat \ {0}
  BY DEF HooksOf, TypeOK, Slot
<1>2. SourceOf(mode) \in Doc \cup {None}
  BY DEF TypeOK, Mode, Doc, SourceOf
<1> DEFINE found == CASE SourceOf(mode) = "settings" -> HooksOf("settings")
                      [] SourceOf(mode) = "user" -> handler[h].hooks
                      [] OTHER -> {}
<1>3. handler[h] \in Frame
  BY DEF TypeOK
<1>4. found \subseteq Nat \ {0}
  BY <1>1, <1>3 DEF Frame
<1>5. handler' = [handler EXCEPT ![h] =
         [handler[h] EXCEPT !.pc = "biomes", !.doc = SourceOf(mode), !.hooks = found]]
  BY DEF ReadSettings
<1> HIDE DEF found
<1>6. [handler[h] EXCEPT !.pc = "biomes", !.doc = SourceOf(mode), !.hooks = found] \in Frame
  BY <1>2, <1>3, <1>4 DEF Frame
<1>7. Others(h) /\ handler' \in [Handler -> Frame]
  BY <1>5, <1>6 DEF Others, TypeOK
<1>8. handler'[h] = [handler[h] EXCEPT !.pc = "biomes", !.doc = SourceOf(mode), !.hooks = found]
  BY <1>5 DEF TypeOK
<1>9. /\ handler'[h].pc = "biomes" /\ handler'[h].first = handler[h].first
      /\ handler'[h].last = handler[h].last /\ handler'[h].next = handler[h].next
      /\ handler'[h].doc = SourceOf(mode) /\ handler'[h].hooks = found
  BY <1>3, <1>8 DEF Frame
<1> QED
  BY <1>7, <1>9 DEF ReadSettings, Inside, At, found

LEMMA ReadBiomesMove ==
  ASSUME TypeOK, clock < Budget, NEW h \in Handler, ReadBiomes(h)
  PROVE  /\ Inside(h) /\ handler[h].pc = "biomes"
         /\ handler'[h].hooks = IF handler[h].doc = "biome" THEN HooksOf("biome")
                                ELSE handler[h].hooks
         /\ handler'[h].pc = IF handler'[h].hooks = {} THEN "insert" ELSE "event"
         /\ handler'[h].next = handler[h].next /\ handler'[h].doc = handler[h].doc
         /\ handler'[h].stamp = clock + 1 /\ clock' = clock + 1
         /\ UNCHANGED <<log, flags, alerts>>
<1> USE RelayAssumption
<1>1. HooksOf("biome") \subseteq Nat \ {0}
  BY DEF HooksOf, TypeOK, Slot
<1> DEFINE found == IF handler[h].doc = "biome" THEN HooksOf("biome") ELSE handler[h].hooks
           pc == IF found = {} THEN "insert" ELSE "event"
<1>3. handler[h] \in Frame
  BY DEF TypeOK
<1>4. found \subseteq Nat \ {0} /\ pc \in {"insert", "event"}
  BY <1>1, <1>3 DEF Frame
<1>5. handler' = [handler EXCEPT ![h] =
         [handler[h] EXCEPT !.pc = pc, !.stamp = clock + 1, !.hooks = found]]
  BY DEF ReadBiomes
<1>0. pc = IF found = {} THEN "insert" ELSE "event"
  OBVIOUS
<1> HIDE DEF found, pc
<1>2. clock + 1 \in 0..Budget
  BY DEF TypeOK
<1>6. [handler[h] EXCEPT !.pc = pc, !.stamp = clock + 1, !.hooks = found] \in Frame
  BY <1>2, <1>3, <1>4 DEF Frame
<1>7. Others(h) /\ handler' \in [Handler -> Frame]
  BY <1>5, <1>6 DEF Others, TypeOK
<1>8. handler'[h] = [handler[h] EXCEPT !.pc = pc, !.stamp = clock + 1, !.hooks = found]
  BY <1>5 DEF TypeOK
<1>9. /\ handler'[h].pc = pc /\ handler'[h].first = handler[h].first
      /\ handler'[h].last = handler[h].last /\ handler'[h].next = handler[h].next
      /\ handler'[h].doc = handler[h].doc /\ handler'[h].hooks = found
      /\ handler'[h].stamp = clock + 1
  BY <1>3, <1>8 DEF Frame
<1> QED
  BY <1>0, <1>7, <1>9 DEF ReadBiomes, Inside, At, found

\* A round of the loop that queues an alert.
LEMMA DispatchMove ==
  ASSUME TypeOK, NEW h \in Handler, DispatchStarted(h) \/ DispatchEnded(h),
         handler[h].next <= handler[h].last
  PROVE  /\ Inside(h) /\ handler[h].pc \in {"event", "put"}
         /\ handler'[h].pc = IF handler[h].next = handler[h].last THEN "insert" ELSE "event"
         /\ handler'[h].next = handler[h].next + 1 /\ handler'[h].hooks = handler[h].hooks
         /\ handler'[h].doc = handler[h].doc /\ handler'[h].stamp = handler[h].stamp
         /\ alerts' = alerts \cup {Payload(h)}
         /\ \E url \in handler[h].hooks :
              queue' = queue \cup {[hook |-> url, doc |-> handler[h].doc]}
         /\ UNCHANGED <<clock, log, broken, gone, marking, tests, stale>>
<1> USE RelayAssumption
<1> DEFINE pc == IF handler[h].next = handler[h].last THEN "insert" ELSE "event"
           next == handler[h].next + 1
<1>3. handler[h] \in Frame
  BY DEF TypeOK
<1>5. handler' = [handler EXCEPT ![h] =
         [handler[h] EXCEPT !.found = 0, !.next = next, !.pc = pc]]
  BY DEF DispatchStarted, DispatchEnded, Advance
<1>4. next \in 0..(MaxEvents + 1) /\ next = handler[h].next + 1
  BY <1>3 DEF Frame
<1>0. pc \in {"insert", "event"} /\ pc = IF handler[h].next = handler[h].last THEN "insert" ELSE "event"
  OBVIOUS
<1> HIDE DEF pc, next
<1>6. [handler[h] EXCEPT !.found = 0, !.next = next, !.pc = pc] \in Frame
  <2>1. pc \in {"insert", "event"} /\ next \in 0..(MaxEvents + 1) /\ 0 \in 0..MaxEvents
    BY <1>0, <1>4
  <2> QED
    BY <1>3, <2>1 DEF Frame
<1>7. Others(h) /\ handler' \in [Handler -> Frame]
  BY <1>5, <1>6 DEF Others, TypeOK
<1>8. handler'[h] = [handler[h] EXCEPT !.found = 0, !.next = next, !.pc = pc]
  BY <1>5 DEF TypeOK
<1>9. /\ handler'[h].pc = pc /\ handler'[h].first = handler[h].first
      /\ handler'[h].last = handler[h].last /\ handler'[h].next = next
      /\ handler'[h].doc = handler[h].doc /\ handler'[h].hooks = handler[h].hooks
      /\ handler'[h].stamp = handler[h].stamp
  BY <1>3, <1>8 DEF Frame
<1> QED
  BY <1>0, <1>4, <1>7, <1>9 DEF DispatchStarted, DispatchEnded, Enqueue, Inside, At

LEMMA FindDurationMove ==
  ASSUME TypeOK, NEW h \in Handler, FindDuration(h)
  PROVE  /\ Inside(h) /\ handler[h].pc = "event" /\ handler'[h].pc = "put"
         /\ handler'[h].next = handler[h].next /\ handler'[h].hooks = handler[h].hooks
         /\ handler'[h].doc = handler[h].doc /\ handler'[h].stamp = handler[h].stamp
         /\ handler'[h].found \in {0} \cup {d.event : d \in {p \in
              Latest({d \in log : started[d.event] = 0}) : p.stamp < handler[h].stamp}}
         /\ started[handler[h].next] # 0
         /\ UNCHANGED <<clock, log, flags, alerts>>
<1> USE RelayAssumption
<1> DEFINE founds == {0} \cup {d.event : d \in {p \in
              Latest({d \in log : started[d.event] = 0}) : p.stamp < handler[h].stamp}}
<1>1. PICK f \in founds : handler' = [handler EXCEPT ![h] =
                                        [handler[h] EXCEPT !.pc = "put", !.found = f]]
  BY DEF FindDuration
<1>2. f \in 0..MaxEvents
  BY DEF Latest, TypeOK, Event
<1>3. handler[h] \in Frame
  BY DEF TypeOK
<1>4. f \in founds
  OBVIOUS
<1> HIDE DEF founds
<1>5. [handler[h] EXCEPT !.pc = "put", !.found = f] \in Frame
  BY <1>2, <1>3 DEF Frame
<1>6. Others(h) /\ handler' \in [Handler -> Frame]
  BY <1>1, <1>5 DEF Others, TypeOK
<1>7. handler'[h] = [handler[h] EXCEPT !.pc = "put", !.found = f]
  BY <1>1 DEF TypeOK
<1>8. /\ handler'[h].pc = "put" /\ handler'[h].first = handler[h].first
      /\ handler'[h].last = handler[h].last /\ handler'[h].next = handler[h].next
      /\ handler'[h].doc = handler[h].doc /\ handler'[h].hooks = handler[h].hooks
      /\ handler'[h].stamp = handler[h].stamp /\ handler'[h].found = f
  BY <1>3, <1>7 DEF Frame
<1> QED
  BY <1>4, <1>6, <1>8 DEF FindDuration, Inside, At, founds

LEMMA AnsweringMove ==
  ASSUME TypeOK, NEW h \in Handler, NEW pc \in {"update", "unknown"},
         handler' = [handler EXCEPT ![h] = Answering(h, pc)]
  PROVE  /\ Others(h) /\ handler' \in [Handler -> Frame] /\ handler'[h].pc = pc
         /\ handler'[h].first = handler[h].first /\ handler'[h].last = handler[h].last
         /\ handler'[h].hooks = {} /\ handler'[h].doc = None
<1> DEFINE new == Answering(h, pc)
<1>1. handler[h].first \in 0..MaxEvents /\ handler[h].last \in 0..MaxEvents
  BY DEF Frame, TypeOK
<1>2. new \in Frame
  BY <1>1, IdleTyped DEF Frame, Answering
<1>3. /\ new.pc = pc /\ new.first = handler[h].first /\ new.last = handler[h].last
      /\ new.hooks = {} /\ new.doc = None
  BY DEF Idle, Answering
<1> HIDE DEF new
<1>4. handler' = [handler EXCEPT ![h] = new]
  BY DEF new
<1>5. Others(h) /\ handler' \in [Handler -> Frame] /\ handler'[h] = new
  BY <1>2, <1>4 DEF Others, TypeOK
<1> QED
  BY <1>3, <1>5

LEMMA UnknownMove ==
  ASSUME TypeOK, NEW h \in Handler, UnknownBiome(h)
  PROVE  /\ Inside(h) /\ handler[h].pc = "biomes" /\ handler'[h].pc = "unknown"
         /\ handler'[h].hooks = {} /\ handler'[h].doc = None
         /\ UNCHANGED <<clock, log, flags, alerts>>
BY AnsweringMove DEF UnknownBiome, Inside, At

LEMMA InsertMove ==
  ASSUME TypeOK, NEW h \in Handler, Insert(h)
  PROVE  /\ Inside(h) /\ handler[h].pc = "insert" /\ handler'[h].pc = "update"
         /\ handler'[h].hooks = {} /\ handler'[h].doc = None
         /\ log' = log \cup ToStore(h)
         /\ UNCHANGED <<clock, flags, alerts>>
BY AnsweringMove DEF Insert, Inside, At

\* The steps that end a request, and what they change besides.
EndStep(h) == InsertFails(h) \/ Answer(h) \/ HandlerFails(h)

LEMMA EndMove ==
  ASSUME TypeOK, NEW h \in Handler, EndStep(h)
  PROVE  /\ Others(h) /\ handler' \in [Handler -> Frame]
         /\ handler[h].pc # "idle" /\ handler'[h].pc = "idle"
         /\ handler'[h].hooks = {} /\ handler'[h].doc = None
         /\ flight' \in [Flusher -> Handler \cup {None}]
         /\ \A t \in Flusher : flight'[t] \in {flight[t], None} /\ flight'[t] # h
         /\ \/ log' = log
            \/ At(h, "insert") /\ \E part \in SUBSET ToStore(h) : log' = log \cup part
         /\ \/ UNCHANGED <<acked, dropped, rejected>>
            \/ At(h, "update") /\ Return(h, FALSE)
            \/ At(h, "unknown") /\ Return(h, TRUE)
         /\ UNCHANGED <<budget, started, appended, sent, repeated, clock, hooks, flags, alerts>>
<1>1. Ended(h) /\ UNCHANGED <<budget, started, clock, hooks, flags, alerts>>
  BY DEF EndStep, InsertFails, Answer, HandlerFails, Return
<1>2. /\ Others(h) /\ handler' \in [Handler -> Frame] /\ handler'[h].pc = "idle"
      /\ handler'[h].hooks = {} /\ handler'[h].doc = None
      /\ UNCHANGED <<appended, sent, repeated>>
  BY <1>1, IdleTyped DEF Ended, Others, TypeOK, Idle
<1>3. /\ flight' \in [Flusher -> Handler \cup {None}]
      /\ \A t \in Flusher : flight'[t] \in {flight[t], None} /\ flight'[t] # h
  BY <1>1, RelayAssumption DEF Ended, TypeOK
<1>4. /\ handler[h].pc # "idle"
      /\ \/ log' = log
         \/ At(h, "insert") /\ \E part \in SUBSET ToStore(h) : log' = log \cup part
      /\ \/ UNCHANGED <<acked, dropped, rejected>>
         \/ At(h, "update") /\ Return(h, FALSE)
         \/ At(h, "unknown") /\ Return(h, TRUE)
  BY DEF EndStep, InsertFails, Answer, HandlerFails, At
<1> QED
  BY <1>1, <1>2, <1>3, <1>4

\* What leaves the buffer when a request ends is dropped, or of its own batch: stored
\* before a 200, refused by a 422.
LEMMA PopMove ==
  ASSUME TypeOK, FramesSound, NEW h \in Handler, EndStep(h)
  PROVE  /\ acked' \in acked..appended
         /\ dropped \subseteq dropped' /\ rejected \subseteq rejected'
         /\ dropped' \cup rejected' \subseteq dropped \cup rejected \cup (acked + 1)..acked'
         /\ \A e \in (acked + 1)..acked' :
              \/ e \in dropped'
              \/ Awaited(h) /\ e \in Batch(h) /\ (At(h, "update") \/ e \in rejected')
<1>1. CASE UNCHANGED <<acked, dropped, rejected>>
  BY <1>1 DEF TypeOK
<1>2. CASE \/ At(h, "update") /\ Return(h, FALSE)
           \/ At(h, "unknown") /\ Return(h, TRUE)
  <2>1. BatchSound(h)
    BY <1>2 DEF FramesSound, At
  <2>2. acked' \in acked..appended /\ (acked' # acked => Awaited(h))
    BY <1>2, <2>1 DEF Return, AfterPop, Sooner, BatchSound, TypeOK, Frame
  <2>3. (acked + 1)..acked' # {} => Awaited(h)
    BY <2>2 DEF TypeOK
  <2> QED
    BY <1>2, <2>2, <2>3 DEF Return
<1> QED
  BY <1>1, <1>2, EndMove

\* What happens outside the macro and its requests.
Outside ==
  \/ \E d \in queue : Deliver(d) \/ PostGone(d)
  \/ \E doc \in marking : MarkBroken(doc)
  \/ EditStep
  \/ \E h \in 1..made : HookDeleted(h)
  \/ UNCHANGED vars

LEMMA WriteMove ==
  ASSUME TypeOK, NEW slot \in Slot, NEW new \in 0..(made + 1), NEW clears, WriteHook(slot, new, clears)
  PROVE  /\ made' \in {made, made + 1} /\ hook' \in [Slot -> 0..made'] /\ hook'[slot] = new
         /\ \A s \in Slot \ {slot} : hook'[s] = hook[s]
BY RelayAssumption DEF WriteHook, TypeOK, Later

\* Every other edit but SetMode writes one slot; a biome that is not there, and is not there
\* after, has no webhook and no flag.
Writes(slot, new, clears) ==
  /\ WriteHook(slot, new, clears) /\ mode' \in Mode /\ creating' \subseteq creating
  /\ IF slot = "biome" THEN known' \in BOOLEAN /\ (known' \/ (new = 0 /\ clears))
                       ELSE known' = known

\* Neither the macro nor its requests take part.
Quiet == UNCHANGED <<started, macro, handler, clock, log, alerts, rejected>>

ReadStep == \/ KeyCreateRead \/ \E s \in Slot : TestRead(s) \/ \E d \in tests : TestPut(d)

LEMMA EditMove ==
  ASSUME TypeOK, EditStep
  PROVE  /\ Quiet /\ budget' \in 0..Budget /\ budget' <= budget
         /\ \/ SetMode \/ ReadStep
            \/ \E slot \in Slot, new \in 0..(made + 1), clears \in BOOLEAN :
                 Writes(slot, new, clears)
<1> USE RelayAssumption
<1>1. \A s \in Slot : hook[s] \in 0..(made + 1)
  BY DEF TypeOK
<1>2. 0 \in 0..(made + 1) /\ made + 1 \in 0..(made + 1)
  BY DEF TypeOK
<1>3. "primary" \in Slot /\ "extra" \in Slot /\ "biome" \in Slot /\ "user" \in Slot
  BY DEF Slot
<1>4. mode \in Mode /\ "single_channel" \in Mode /\ known \in BOOLEAN
  BY DEF TypeOK, Mode
<1>0. Quiet /\ budget' \in 0..Budget /\ budget' <= budget
  <2>1. Edit => Quiet /\ budget' \in 0..Budget /\ budget' <= budget
    BY DEF Edit, Spend, Quiet, TypeOK
  <2>2. ASSUME NEW d \in tests, TestPut(d)
        PROVE  Quiet /\ budget' \in 0..Budget /\ budget' <= budget
    BY <2>2 DEF TestPut, Quiet, TypeOK
  <2>3. ASSUME NEW read \in creating, KeyCreate(read)
        PROVE  Quiet /\ budget' \in 0..Budget /\ budget' <= budget
    BY <2>3 DEF KeyCreate, Quiet, TypeOK
  <2>4. EditStep => \/ Edit \/ \E d \in tests : TestPut(d)
                    \/ \E read \in creating : KeyCreate(read)
    BY DEF EditStep, SetMode, PatchPrimary, PatchExtra, SetupSingleChannel, PutBiome,
           DeleteBiome, SetupBiomeChannel, KeyCreateRead, KeyRevoke, TestRead
  <2> QED
    BY <2>1, <2>2, <2>3, <2>4
<1>5. CASE SetMode \/ ReadStep
  BY <1>0, <1>5
<1>6. CASE PatchPrimary \/ SetupSingleChannel
  <2>1. PICK new \in 0..(made + 1) : WriteHook("primary", new, TRUE)
    BY <1>1, <1>2, <1>3, <1>6 DEF PatchPrimary, SetupSingleChannel
  <2>2. known' = known /\ mode' \in Mode /\ creating' = creating
    BY <1>4, <1>6 DEF PatchPrimary, SetupSingleChannel
  <2> QED
    BY <1>0, <1>3, <2>1, <2>2 DEF Writes
<1>7. CASE PatchExtra
  <2>1. PICK new \in 0..(made + 1) : WriteHook("extra", new, FALSE)
    BY <1>2, <1>7 DEF PatchExtra
  <2>2. known' = known /\ mode' \in Mode /\ creating' = creating
    BY <1>4, <1>7 DEF PatchExtra
  <2> QED
    BY <1>0, <1>3, <2>1, <2>2 DEF Writes
<1>8. CASE PutBiome
  <2>1. PICK new \in 0..(made + 1) : WriteHook("biome", new, TRUE)
    BY <1>1, <1>2, <1>3, <1>8 DEF PutBiome
  <2>2. known' = TRUE /\ mode' \in Mode /\ creating' = creating
    BY <1>4, <1>8 DEF PutBiome
  <2> QED
    BY <1>0, <1>3, <2>1, <2>2 DEF Writes
<1>9. CASE DeleteBiome
  <2>1. WriteHook("biome", 0, TRUE) /\ known' = FALSE /\ mode' \in Mode /\ creating' = creating
    BY <1>4, <1>9 DEF DeleteBiome
  <2> QED
    BY <1>0, <1>2, <1>3, <2>1 DEF Writes
<1>10. CASE SetupBiomeChannel
  <2>1. /\ WriteHook("biome", made + 1, TRUE) /\ known' = known /\ known = TRUE
        /\ mode' \in Mode /\ creating' = creating
    BY <1>4, <1>10 DEF SetupBiomeChannel, TypeOK
  <2> QED
    BY <1>0, <1>2, <1>3, <2>1 DEF Writes
<1>11. ASSUME NEW read \in creating, KeyCreate(read)
       PROVE  \E new \in 0..(made + 1) : Writes("user", new, TRUE)
  <2>1. read \in 0..(made + 1)
    BY DEF TypeOK
  <2>2. PICK new \in 0..(made + 1) : WriteHook("user", new, TRUE)
    BY <1>2, <1>11, <2>1 DEF KeyCreate
  <2>3. known' = known /\ mode' \in Mode /\ creating' \subseteq creating
    BY <1>4, <1>11 DEF KeyCreate
  <2> QED
    BY <2>2, <2>3 DEF Writes
<1>12. CASE KeyRevoke
  <2>1. WriteHook("user", 0, FALSE) /\ known' = known /\ mode' \in Mode /\ creating' = creating
    BY <1>4, <1>12 DEF KeyRevoke
  <2> QED
    BY <1>0, <1>2, <1>3, <2>1 DEF Writes
<1> QED
  BY <1>0, <1>3, <1>5, <1>6, <1>7, <1>8, <1>9, <1>10, <1>11, <1>12 DEF EditStep, ReadStep

LEMMA OutsideMove ==
  ASSUME TypeOK, Outside
  PROVE  /\ UNCHANGED <<started, macro, handler, clock, log, alerts, rejected>>
         /\ made' \in Nat /\ made' >= made /\ budget' \in 0..Budget /\ budget' <= budget
         /\ gone \subseteq gone'
<1> USE RelayAssumption
<1>1. CASE EditStep
  <2>1. Quiet /\ budget' \in 0..Budget /\ budget' <= budget /\ made \in Nat
    BY <1>1, EditMove DEF TypeOK
  <2>2. CASE SetMode \/ ReadStep
    BY <2>1, <2>2 DEF SetMode, ReadStep, KeyCreateRead, TestRead, TestPut, Quiet, hooks, flags
  <2>3. ASSUME NEW slot \in Slot, NEW new \in 0..(made + 1), NEW clears \in BOOLEAN,
               Writes(slot, new, clears)
        PROVE  made' \in {made, made + 1} /\ gone' = gone
    BY <2>3, WriteMove DEF Writes, WriteHook
  <2> QED
    BY <1>1, <2>1, <2>2, <2>3, EditMove DEF Quiet
<1>2. CASE \E d \in queue : Deliver(d) \/ PostGone(d)
  BY <1>2 DEF Deliver, PostGone, TypeOK, hooks
<1>3. CASE \E doc \in marking : MarkBroken(doc)
  BY <1>3 DEF MarkBroken, TypeOK, hooks
<1>4. CASE \E h \in 1..made : HookDeleted(h)
  BY <1>4 DEF HookDeleted, Spend, TypeOK, hooks
<1>5. CASE UNCHANGED vars
  BY <1>5 DEF vars, TypeOK, hooks, flags
<1> QED
  BY <1>1, <1>2, <1>3, <1>4, <1>5 DEF Outside

-----------------------------------------------------------------------------
(* Types. *)

LEMMA InitTyped == Init => TypeOK
<1> SUFFICES ASSUME Init PROVE TypeOK
  OBVIOUS
<1>1. Idle \in Frame
  BY RelayAssumption DEF Idle, Frame
<1>2. hook \in [Slot -> 0..made] /\ mode \in Mode /\ known = TRUE /\ made \in Nat
  <2>1. hook = [s \in Slot |-> hook[s]]
    BY DEF Init, Slot
  <2>2. hook["primary"] = 1 /\ hook["extra"] = 0 /\ hook["biome"] = 2 /\ hook["user"] = 3
    BY DEF Init
  <2>3. made = 3 /\ mode \in Mode /\ known = TRUE
    BY RelayAssumption DEF Init
  <2> QED
    BY <2>1, <2>2, <2>3 DEF Slot
<1> QED
  BY <1>1, <1>2, RelayAssumption DEF Init, TypeOK

LEMMA StoreTyped ==
  ASSUME TypeOK, NEW h \in Handler, BatchSound(h), FrameSound(h), At(h, "insert")
  PROVE  ToStore(h) \subseteq [event : Event, stamp : 1..clock, dispatched : BOOLEAN]
<1>1. \A e \in Batch(h) : e \in Event
  BY RelayAssumption DEF BatchSound, Batch, Event, TypeOK, Frame
<1>2. handler[h].stamp \in 1..clock
  BY DEF FrameSound, Stamped, At
<1>3. ASSUME NEW e \in Batch(h)
      PROVE  [event |-> e, stamp |-> handler[h].stamp, dispatched |-> handler[h].hooks # {}]
               \in [event : Event, stamp : 1..clock, dispatched : BOOLEAN]
  <2>1. (handler[h].hooks # {}) \in BOOLEAN
    OBVIOUS
  <2> QED
    BY <1>1, <1>2, <2>1, Zenon
<1> QED
  BY <1>3, Zenon DEF ToStore

LEMMA PayloadTyped ==
  ASSUME TypeOK, NEW h \in Handler, BatchSound(h), FrameSound(h), Stamped(h),
         handler[h].next <= handler[h].last
  PROVE  Payload(h) \in [event : Event, stamp : 1..clock]
<1>1. handler[h].next \in Event
  BY RelayAssumption DEF BatchSound, FrameSound, Event, TypeOK, Frame
<1> QED
  BY <1>1 DEF FrameSound, Payload

LEMMA Room ==
  ASSUME TypeOK, BudgetSound, NEW h \in Waiting
  PROVE  clock < Budget
<1>1. Cardinality(Waiting) \in Nat /\ Waiting # {}
  BY FS_CardinalityType DEF BudgetSound
<1>2. Cardinality(Waiting) # 0
  BY <1>1, FS_EmptySet DEF BudgetSound
<1> QED
  BY <1>1, <1>2, RelayAssumption DEF BudgetSound, TypeOK

\* A buffer that something leaves is within its bound.
LEMMA Shorter ==
  \A k, m, n \in Nat : m - k <= n => \A j \in k..m : j \in 0..m /\ m - j <= n
OBVIOUS

LEMMA HandlerTypeStep ==
  ASSUME TypeOK, FramesSound, BudgetSound, NEW h \in Handler, HandlerStep(h)
  PROVE  TypeOK'
<1> USE RelayAssumption
<1>1. CASE ReadSettings(h) \/ FindDuration(h) \/ UnknownBiome(h)
  <2>1. Inside(h) /\ UNCHANGED <<clock, log, flags, alerts>>
    BY <1>1, ReadSettingsMove, FindDurationMove, UnknownMove
  <2> QED
    BY <2>1 DEF Inside, TypeOK, macro, hooks, flags
<1>2. CASE ReadBiomes(h)
  <2>1. clock < Budget
    BY <1>2, Room DEF ReadBiomes, Waiting, At
  <2>2. Inside(h) /\ clock' = clock + 1 /\ UNCHANGED <<log, flags, alerts>>
    BY <1>2, <2>1, ReadBiomesMove
  <2>3. clock' \in 0..Budget /\ 1..clock \subseteq 1..clock'
    BY <2>1, <2>2 DEF TypeOK
  <2>4. /\ log' \subseteq [event : Event, stamp : 1..clock', dispatched : BOOLEAN]
        /\ alerts' \subseteq [event : Event, stamp : 1..clock']
    BY <2>2, <2>3 DEF TypeOK
  <2> QED
    BY <2>2, <2>3, <2>4 DEF Inside, TypeOK, macro, hooks, flags
<1>3. CASE DispatchStarted(h) \/ DispatchEnded(h)
  <2>1. BatchSound(h) /\ FrameSound(h) /\ Stamped(h) /\ handler[h].next <= handler[h].last
    BY <1>3 DEF DispatchStarted, DispatchEnded, FramesSound, FrameSound, Active, Stamped, At
  <2>2. /\ Inside(h) /\ alerts' = alerts \cup {Payload(h)}
        /\ UNCHANGED <<clock, log, broken, gone, marking, tests, stale>>
    BY <1>3, <2>1, DispatchMove
  <2>3. PICK url \in handler[h].hooks :
          queue' = queue \cup {[hook |-> url, doc |-> handler[h].doc]}
    BY <1>3, <2>1, DispatchMove
  <2>4. url \in 1..made /\ handler[h].doc \in Doc
    BY <2>1, <2>3 DEF FrameSound, TypeOK, Frame
  <2>5. queue' \cup tests' \subseteq [hook : 1..made, doc : Doc]
    BY <2>2, <2>3, <2>4 DEF TypeOK
  <2>6. alerts' \subseteq [event : Event, stamp : 1..clock]
    BY <2>1, <2>2, PayloadTyped DEF TypeOK
  <2> QED
    BY <2>2, <2>5, <2>6 DEF Inside, TypeOK, macro, hooks
<1>4. CASE Insert(h)
  <2>1. BatchSound(h) /\ FrameSound(h) /\ At(h, "insert")
    BY <1>4 DEF Insert, FramesSound, Active, At
  <2>2. Inside(h) /\ log' = log \cup ToStore(h) /\ UNCHANGED <<clock, flags, alerts>>
    BY <1>4, InsertMove
  <2>3. log' \subseteq [event : Event, stamp : 1..clock, dispatched : BOOLEAN]
    BY <2>1, <2>2, StoreTyped DEF TypeOK
  <2> QED
    BY <2>2, <2>3 DEF Inside, TypeOK, macro, hooks, flags
<1>5. CASE EndStep(h)
  <2>1. /\ handler' \in [Handler -> Frame] /\ flight' \in [Flusher -> Handler \cup {None}]
        /\ \/ log' = log
           \/ At(h, "insert") /\ \E part \in SUBSET ToStore(h) : log' = log \cup part
        /\ UNCHANGED <<budget, started, appended, sent, repeated, clock, hooks, flags, alerts>>
    BY <1>5, EndMove
  <2>2. /\ acked' \in acked..appended
        /\ dropped' \cup rejected' \subseteq dropped \cup rejected \cup (acked + 1)..acked'
    BY <1>5, PopMove
  <2>3. acked' \in 0..appended /\ appended - acked' <= MaxPending
    <3>1. /\ acked \in Nat /\ appended \in Nat /\ MaxPending \in Nat
          /\ appended - acked <= MaxPending
      BY DEF TypeOK
    <3>2. acked' \in acked..appended
      BY <2>2
    <3> QED
      BY <3>1, <3>2, Shorter
  <2>4. rejected' \cup dropped' \cup repeated' \subseteq Event
    <3>1. (acked + 1)..acked' \subseteq Event
      BY <2>2 DEF TypeOK, Event
    <3> QED
      BY <2>1, <2>2, <3>1 DEF TypeOK
  <2>5. log' \subseteq [event : Event, stamp : 1..clock, dispatched : BOOLEAN]
    <3>1. CASE log' = log
      BY <3>1 DEF TypeOK
    <3>2. CASE At(h, "insert") /\ \E part \in SUBSET ToStore(h) : log' = log \cup part
      BY <3>2, StoreTyped DEF TypeOK, FramesSound, Active, At
    <3> QED
      BY <2>1, <3>1, <3>2
  <2> QED
    BY <2>1, <2>3, <2>4, <2>5 DEF TypeOK, hooks, flags
<1> QED
  BY <1>1, <1>2, <1>3, <1>4, <1>5 DEF HandlerStep, EndStep

LEMMA OutsideTypeStep ==
  ASSUME TypeOK, Outside
  PROVE  TypeOK'
<1> USE RelayAssumption
<1>0. /\ UNCHANGED <<started, macro, handler, clock, log, alerts, rejected>>
      /\ made' \in Nat /\ made' >= made /\ budget' \in 0..Budget
  BY OutsideMove
<1>1. CASE EditStep
  <2>2. CASE SetMode
    BY <1>0, <2>2 DEF SetMode, TypeOK, macro, flags
  <2>3. CASE KeyCreateRead
    <3>1. hook["user"] \in 0..made
      BY DEF TypeOK, Slot
    <3> QED
      BY <1>0, <2>3, <3>1 DEF KeyCreateRead, TypeOK, macro, flags
  <2>4. ASSUME NEW s \in Slot, TestRead(s) PROVE TypeOK'
    <3>1. [hook |-> hook[s], doc |-> DocOf(s)] \in [hook : 1..made, doc : Doc]
      BY <2>4 DEF TestRead, TypeOK, DocOf, Slot, Doc
    <3> QED
      BY <1>0, <2>4, <3>1 DEF TestRead, TypeOK, hooks, macro
  <2>5. ASSUME NEW d \in tests, TestPut(d) PROVE TypeOK'
    <3>1. queue' \cup tests' \subseteq queue \cup tests
      BY <2>5 DEF TestPut
    <3> QED
      BY <1>0, <2>5, <3>1 DEF TestPut, TypeOK, hooks, macro
  <2>6. ASSUME NEW slot \in Slot, NEW new \in 0..(made + 1), NEW clears \in BOOLEAN,
               Writes(slot, new, clears)
        PROVE  TypeOK'
    <3>1. WriteHook(slot, new, clears) /\ mode' \in Mode /\ creating' \subseteq creating
      BY <2>6 DEF Writes
    <3>2. /\ made' \in {made, made + 1} /\ hook' \in [Slot -> 0..made'] /\ hook'[slot] = new
          /\ \A s \in Slot \ {slot} : hook'[s] = hook[s]
      BY <3>1, WriteMove
    <3>4. DocOf(slot) \in Doc /\ (DocOf(slot) = "biome" <=> slot = "biome")
      BY DEF Slot, DocOf, Doc
    <3>5. /\ gone' \subseteq 1..made' /\ queue' \cup tests' \subseteq [hook : 1..made', doc : Doc]
          /\ marking' \subseteq Doc /\ creating' \subseteq 0..made'
      <4>1. 1..made \subseteq 1..made' /\ 0..made \subseteq 0..made'
        BY <3>2 DEF TypeOK
      <4> QED
        BY <3>1, <4>1 DEF WriteHook, TypeOK
    <3>6. broken' \subseteq Doc /\ stale' \subseteq Doc
      BY <3>1, <3>4 DEF WriteHook, TypeOK
    <3>7. known' \in BOOLEAN /\ (~known' => hook'["biome"] = 0 /\ "biome" \notin broken')
      <4>1. CASE slot = "biome"
        BY <2>6, <3>1, <3>2, <4>1 DEF Writes, WriteHook, DocOf, Slot
      <4>2. CASE slot # "biome"
        <5>1. known' = known /\ hook'["biome"] = hook["biome"]
          BY <2>6, <3>2, <4>2 DEF Writes, Slot
        <5>2. broken' \subseteq broken
          BY <3>1 DEF WriteHook
        <5> QED
          BY <5>1, <5>2 DEF TypeOK
      <4> QED
        BY <4>1, <4>2
    <3> QED
      BY <1>0, <3>1, <3>2, <3>5, <3>6, <3>7 DEF TypeOK, macro
  <2> QED
    BY <1>1, <2>2, <2>3, <2>4, <2>5, <2>6, EditMove DEF ReadStep
<1>2. CASE \E d \in queue : Deliver(d) \/ PostGone(d)
  <2>1. PICK d \in queue : Deliver(d) \/ PostGone(d)
    BY <1>2
  <2>2. queue' \subseteq queue /\ tests' = tests /\ marking' \subseteq Doc
    BY <2>1 DEF Deliver, PostGone, Blamed, TypeOK
  <2> QED
    BY <2>1, <2>2 DEF Deliver, PostGone, TypeOK, macro, hooks
<1>3. CASE \E doc \in marking : MarkBroken(doc)
  <2>1. PICK doc \in marking : MarkBroken(doc)
    BY <1>3
  <2>2. broken' \subseteq Doc /\ (~known => "biome" \notin broken')
    BY <2>1 DEF MarkBroken, Flagged, TypeOK
  <2> QED
    BY <2>1, <2>2 DEF MarkBroken, TypeOK, macro, hooks
<1>4. CASE \E h \in 1..made : HookDeleted(h)
  BY <1>4 DEF HookDeleted, Spend, TypeOK, macro, hooks
<1>5. CASE UNCHANGED vars
  BY <1>5 DEF vars, TypeOK, macro, hooks, flags
<1> QED
  BY <1>1, <1>2, <1>3, <1>4, <1>5 DEF Outside

\* Every step is one of a request, of the macro, or from outside.
LEMMA Steps ==
  ASSUME [Next]_vars
  PROVE  \/ \E t \in Flusher, h \in Handler : Post(t, h)
         \/ MacroStep
         \/ \E h \in Handler : HandlerStep(h)
         \/ Outside
BY DEF Next, Outside, MacroStep

LEMMA TypeStep == TypeOK /\ FramesSound /\ BudgetSound /\ [Next]_vars => TypeOK'
<1> SUFFICES ASSUME TypeOK, FramesSound, BudgetSound, [Next]_vars PROVE TypeOK'
  OBVIOUS
<1> USE RelayAssumption
<1>1. ASSUME NEW t \in Flusher, NEW h \in Handler, Post(t, h) PROVE TypeOK'
  <2>1. PICK last \in Event :
          /\ handler' \in [Handler -> Frame] /\ sent' \in 0..appended
          /\ repeated' = repeated \cup ((acked + 1)..last \cap 1..sent)
          /\ budget > 0 /\ budget' = budget - 1
          /\ flight' = [flight EXCEPT ![t] = h]
          /\ UNCHANGED <<started, appended, acked, dropped, clock, log, hooks, flags, alerts,
                         rejected>>
    BY <1>1, PostMove
  <2>2. repeated' \subseteq Event
    BY <2>1 DEF TypeOK, Event
  <2>3. flight' \in [Flusher -> Handler \cup {None}] /\ budget' \in 0..Budget
    BY <2>1 DEF TypeOK
  <2> QED
    BY <2>1, <2>2, <2>3 DEF TypeOK, hooks, flags
<1>2. CASE MacroStep
  <2>1. /\ UNCHANGED <<started, sent, repeated, handler, clock, log, hooks, flags, alerts,
                       rejected>>
        /\ budget' \in 0..Budget
        /\ appended' \in appended..MaxEvents /\ acked' \in acked..appended'
        /\ appended' - acked' <= MaxPending
        /\ dropped' = dropped \cup (acked + 1)..acked'
        /\ flight' \in [Flusher -> Handler \cup {None}]
    BY <1>2, MacroMove
  <2>2. /\ appended' \in 0..MaxEvents /\ acked' \in 0..appended' /\ sent' \in 0..appended'
        /\ (acked + 1)..acked' \subseteq Event
    BY <2>1 DEF TypeOK, Event
  <2>3. rejected' \cup dropped' \cup repeated' \subseteq Event
    BY <2>1, <2>2 DEF TypeOK
  <2> QED
    BY <2>1, <2>2, <2>3 DEF TypeOK, hooks, flags
<1> QED
  BY <1>1, <1>2, Steps, HandlerTypeStep, OutsideTypeStep

-----------------------------------------------------------------------------
(* Frames and the budget. *)

LEMMA Widened == \A m, n \in Nat : n >= m => 1..m \subseteq 1..n /\ 1..(m + 1) \subseteq 1..(n + 1)
OBVIOUS

LEMMA FrameKept ==
  ASSUME TypeOK, TypeOK', FramesSound, NEW g \in Handler, handler'[g] = handler[g],
         acked' >= acked, sent' >= sent, made' >= made, clock' >= clock
  PROVE  /\ handler'[g].pc # "idle" => BatchSound(g)'
         /\ Active(g)' => FrameSound(g)'
<1>0. /\ acked \in Nat /\ acked' \in Nat /\ made \in Nat /\ made' \in Nat
      /\ clock \in Nat /\ clock' \in Nat
  BY RelayAssumption DEF TypeOK
<1>2. /\ 1..(acked + 1) \subseteq 1..(acked' + 1) /\ 1..made \subseteq 1..made'
      /\ 1..clock \subseteq 1..clock'
  BY <1>0, Widened
<1>3. ASSUME handler'[g].pc # "idle" PROVE BatchSound(g)'
  <2>1. BatchSound(g)
    BY <1>3 DEF FramesSound
  <2>2. handler[g].last \in handler[g].first..sent'
    BY <2>1 DEF TypeOK, BatchSound
  <2> QED
    BY <1>2, <2>1, <2>2 DEF BatchSound
<1>4. ASSUME Active(g)' PROVE FrameSound(g)'
  <2>1. FrameSound(g)
    BY <1>4 DEF FramesSound, Active
  <2>2. handler'[g].hooks \subseteq 1..made'
    BY <1>2, <2>1 DEF FrameSound
  <2>3. Stamped(g)' => handler'[g].stamp \in 1..clock'
    BY <1>2, <2>1 DEF FrameSound, Stamped
  <2> QED
    BY <2>1, <2>2, <2>3 DEF FrameSound, At
<1> QED
  BY <1>3, <1>4

LEMMA FramesBuilt ==
  ASSUME \A g \in Handler : /\ handler'[g].pc # "idle" => BatchSound(g)'
                            /\ Active(g)' => FrameSound(g)',
         \A t \in Flusher : flight'[t] # None => handler'[flight'[t]].pc # "idle"
  PROVE  FramesSound'
BY DEF FramesSound, None

LEMMA FramesInit == Init => FramesSound /\ BudgetSound
<1> SUFFICES ASSUME Init PROVE FramesSound /\ BudgetSound
  OBVIOUS
<1>1. \A h \in Handler : handler[h].pc = "idle"
  BY DEF Init, Idle
<1>2. Waiting = {}
  BY <1>1 DEF Waiting
<1>3. IsFiniteSet(Waiting) /\ Cardinality(Waiting) = 0
  BY <1>2, FS_EmptySet
<1>4. clock + 0 + budget <= Budget
  BY RelayAssumption DEF Init
<1> QED
  BY <1>1, <1>3, <1>4 DEF FramesSound, BudgetSound, Active, Init

LEMMA FramesStep ==
  ASSUME TypeOK, FramesSound, BudgetSound, [Next]_vars
  PROVE  FramesSound'
<1> USE RelayAssumption
<1>0. TypeOK'
  BY TypeStep
<1>1. ASSUME NEW t \in Flusher, NEW h \in Handler, Post(t, h) PROVE FramesSound'
  <2>1. PICK last \in Event :
          /\ Others(h) /\ handler'[h].pc = "settings" /\ handler'[h].doc = "user"
          /\ handler'[h].hooks = HooksOf("user")
          /\ handler'[h].first = acked + 1 /\ handler'[h].last = last
          /\ handler'[h].next = acked + 1
          /\ last \in (acked + 1)..appended
          /\ sent' \in 0..appended /\ sent' >= sent /\ last <= sent'
          /\ flight' = [flight EXCEPT ![t] = h]
          /\ UNCHANGED <<acked, clock, hooks>>
    BY <1>1, PostMove
  <2>3. HooksOf("user") \subseteq 1..made
    BY DEF HooksOf, TypeOK, Slot
  <2>4. /\ acked + 1 \in 1..(acked' + 1) /\ last \in (acked + 1)..sent'
        /\ acked + 1 \in (acked + 1)..(last + 1)
    BY <1>0, <2>1 DEF TypeOK, Event
  <2>5. BatchSound(h)' /\ FrameSound(h)'
    <3>1. handler'[h].hooks \subseteq 1..made'
      BY <2>1, <2>3 DEF hooks
    <3> QED
      BY <2>1, <2>4, <3>1 DEF BatchSound, FrameSound, At, Stamped, None
  <2>6. \A g \in Handler \ {h} : /\ handler'[g].pc # "idle" => BatchSound(g)'
                                 /\ Active(g)' => FrameSound(g)'
    <3>1. made' >= made /\ clock' >= clock /\ acked' >= acked
      BY <1>0, <2>1 DEF hooks, TypeOK
    <3> QED
      BY <1>0, <2>1, <3>1, FrameKept DEF Others
  <2>7. \A u \in Flusher : flight'[u] # None => handler'[flight'[u]].pc # "idle"
    <3>1. ASSUME NEW u \in Flusher, flight'[u] # None PROVE handler'[flight'[u]].pc # "idle"
      <4>1. CASE flight'[u] = h
        BY <2>1, <4>1
      <4>2. CASE flight'[u] # h
        <5>1. flight'[u] = flight[u] /\ flight[u] \in Handler \ {h}
          BY <2>1, <3>1, <4>2 DEF TypeOK
        <5> QED
          BY <2>1, <3>1, <5>1 DEF Others, FramesSound
      <4> QED
        BY <4>1, <4>2
    <3> QED
      BY <3>1
  <2>8. \A g \in Handler : /\ handler'[g].pc # "idle" => BatchSound(g)'
                           /\ Active(g)' => FrameSound(g)'
    BY <2>5, <2>6
  <2> QED
    BY <2>7, <2>8, FramesBuilt
<1>2. CASE MacroStep
  <2>1. /\ UNCHANGED <<handler, sent, clock, hooks>> /\ acked' \in acked..appended'
        /\ \A t \in Flusher : flight'[t] \in {flight[t], None}
    BY <1>2, MacroMove
  <2>2. acked' >= acked /\ sent' >= sent /\ made' >= made /\ clock' >= clock
    BY <1>0, <2>1 DEF TypeOK, hooks
  <2>3. \A g \in Handler : /\ handler'[g].pc # "idle" => BatchSound(g)'
                           /\ Active(g)' => FrameSound(g)'
    BY <1>0, <2>1, <2>2, FrameKept
  <2>4. \A t \in Flusher : flight'[t] # None => handler'[flight'[t]].pc # "idle"
    BY <2>1 DEF FramesSound
  <2> QED
    BY <2>3, <2>4, FramesBuilt
<1>3. CASE Outside
  <2>1. UNCHANGED <<flight, acked, sent, handler, clock>> /\ made' >= made
    BY <1>3, OutsideMove DEF macro
  <2>2. acked' >= acked /\ sent' >= sent /\ clock' >= clock
    BY <2>1 DEF TypeOK
  <2>3. \A g \in Handler : /\ handler'[g].pc # "idle" => BatchSound(g)'
                           /\ Active(g)' => FrameSound(g)'
    BY <1>0, <2>1, <2>2, FrameKept
  <2>4. \A t \in Flusher : flight'[t] # None => handler'[flight'[t]].pc # "idle"
    BY <2>1 DEF FramesSound
  <2> QED
    BY <2>3, <2>4, FramesBuilt
<1>4. ASSUME NEW h \in Handler, HandlerStep(h) PROVE FramesSound'
  <2>1. ASSUME Inside(h), UNCHANGED clock \/ clock' = clock + 1, handler[h].pc # "idle",
               handler'[h].pc # "idle", Active(h)' => FrameSound(h)'
        PROVE  FramesSound'
    <3>1. /\ Others(h) /\ UNCHANGED <<acked, sent, flight, made>>
          /\ handler'[h].first = handler[h].first /\ handler'[h].last = handler[h].last
      BY <2>1 DEF Inside, macro, hooks
    <3>2. acked' >= acked /\ sent' >= sent /\ made' >= made /\ clock' >= clock
      BY <2>1, <3>1 DEF TypeOK
    <3>3. \A g \in Handler \ {h} : /\ handler'[g].pc # "idle" => BatchSound(g)'
                                   /\ Active(g)' => FrameSound(g)'
      BY <1>0, <3>1, <3>2, FrameKept DEF Others
    <3>4. BatchSound(h)'
      BY <2>1, <3>1 DEF FramesSound, BatchSound
    <3>5. ASSUME NEW t \in Flusher, flight'[t] # None PROVE handler'[flight'[t]].pc # "idle"
      <4>1. flight'[t] = flight[t] /\ flight[t] \in Handler
        BY <3>1, <3>5 DEF TypeOK
      <4> QED
        BY <2>1, <3>1, <3>5, <4>1 DEF Others, FramesSound
    <3> QED
      <4>1. \A g \in Handler : /\ handler'[g].pc # "idle" => BatchSound(g)'
                               /\ Active(g)' => FrameSound(g)'
        BY <2>1, <3>3, <3>4
      <4> QED
        BY <3>5, <4>1, FramesBuilt
  <2>2. CASE ReadSettings(h)
    <3>1. /\ Inside(h) /\ handler[h].pc = "settings" /\ handler'[h].pc = "biomes"
          /\ handler'[h].next = handler[h].next /\ handler'[h].doc = SourceOf(mode)
          /\ handler'[h].hooks = CASE SourceOf(mode) = "settings" -> HooksOf("settings")
                                   [] SourceOf(mode) = "user" -> handler[h].hooks
                                   [] OTHER -> {}
          /\ UNCHANGED clock
      BY <2>2, ReadSettingsMove
    <3>2. FrameSound(h)
      BY <3>1 DEF FramesSound, Active
    <3>3. /\ handler'[h].first = handler[h].first /\ handler'[h].last = handler[h].last
          /\ made' = made
      BY <3>1 DEF Inside, macro, hooks
    <3>4. HooksOf("settings") \subseteq 1..made
      BY DEF HooksOf, TypeOK, Slot
    <3>5. handler'[h].hooks \subseteq 1..made /\ (handler'[h].doc = None => handler'[h].hooks = {})
      BY <3>1, <3>2, <3>4 DEF FrameSound, None
    <3>6. FrameSound(h)'
      BY <3>1, <3>2, <3>3, <3>5 DEF FrameSound, At, Stamped
    <3> QED
      BY <2>1, <3>1, <3>6
  <2>3. CASE ReadBiomes(h)
    <3>0. clock < Budget
      BY <2>3, Room DEF ReadBiomes, Waiting, At
    <3>1. /\ Inside(h) /\ handler[h].pc = "biomes"
          /\ handler'[h].hooks = IF handler[h].doc = "biome" THEN HooksOf("biome")
                                 ELSE handler[h].hooks
          /\ handler'[h].pc = IF handler'[h].hooks = {} THEN "insert" ELSE "event"
          /\ handler'[h].next = handler[h].next /\ handler'[h].doc = handler[h].doc
          /\ handler'[h].stamp = clock + 1 /\ clock' = clock + 1
      BY <2>3, <3>0, ReadBiomesMove
    <3>2. FrameSound(h) /\ BatchSound(h)
      BY <3>1 DEF FramesSound, Active
    <3>3. /\ handler'[h].first = handler[h].first /\ handler'[h].last = handler[h].last
          /\ made' = made
      BY <3>1 DEF Inside, macro, hooks
    <3>4. HooksOf("biome") \subseteq 1..made
      BY DEF HooksOf, TypeOK, Slot
    <3>5. handler'[h].hooks \subseteq 1..made /\ (handler'[h].doc = None => handler'[h].hooks = {})
      BY <3>1, <3>2, <3>4 DEF FrameSound, None
    <3>6. handler[h].next = handler[h].first /\ handler[h].first <= handler[h].last
      BY <3>1, <3>2 DEF FrameSound, BatchSound, At, TypeOK
    <3>7. clock + 1 \in 1..(clock + 1)
      BY DEF TypeOK
    <3>8. FrameSound(h)'
      BY <3>1, <3>2, <3>3, <3>5, <3>6, <3>7 DEF FrameSound, At, Stamped
    <3> QED
      BY <2>1, <3>1, <3>8
  <2>4. CASE DispatchStarted(h) \/ DispatchEnded(h)
    <3>0. /\ FrameSound(h) /\ handler[h].next <= handler[h].last
          /\ handler[h].hooks # {} /\ handler[h].stamp \in 1..clock
      BY <2>4 DEF DispatchStarted, DispatchEnded, FramesSound, FrameSound, Active, Stamped, At
    <3>1. /\ Inside(h) /\ handler[h].pc \in {"event", "put"}
          /\ handler'[h].pc = IF handler[h].next = handler[h].last THEN "insert" ELSE "event"
          /\ handler'[h].next = handler[h].next + 1 /\ handler'[h].hooks = handler[h].hooks
          /\ handler'[h].doc = handler[h].doc /\ handler'[h].stamp = handler[h].stamp
          /\ UNCHANGED clock
      BY <2>4, <3>0, DispatchMove
    <3>2. /\ handler'[h].first = handler[h].first /\ handler'[h].last = handler[h].last
          /\ made' = made
      BY <3>1 DEF Inside, macro, hooks
    <3>3. /\ handler[h].next + 1 \in handler[h].first..(handler[h].last + 1)
          /\ handler[h].next # handler[h].last => handler[h].next + 1 <= handler[h].last
          /\ handler[h].next = handler[h].last => handler[h].next + 1 = handler[h].last + 1
      BY <3>0 DEF FrameSound, TypeOK, Frame
    <3>4. FrameSound(h)'
      BY <3>0, <3>1, <3>2, <3>3 DEF FrameSound, At, Stamped
    <3> QED
      BY <2>1, <3>1, <3>4
  <2>5. CASE FindDuration(h)
    <3>1. /\ Inside(h) /\ handler[h].pc = "event" /\ handler'[h].pc = "put"
          /\ handler'[h].next = handler[h].next /\ handler'[h].hooks = handler[h].hooks
          /\ handler'[h].doc = handler[h].doc /\ handler'[h].stamp = handler[h].stamp
          /\ UNCHANGED clock
      BY <2>5, FindDurationMove
    <3>2. FrameSound(h)
      BY <3>1 DEF FramesSound, Active
    <3>3. /\ handler'[h].first = handler[h].first /\ handler'[h].last = handler[h].last
          /\ made' = made
      BY <3>1 DEF Inside, macro, hooks
    <3>4. FrameSound(h)'
      BY <3>1, <3>2, <3>3 DEF FrameSound, At, Stamped
    <3> QED
      BY <2>1, <3>1, <3>4
  <2>6. CASE Insert(h) \/ UnknownBiome(h)
    <3>1. /\ Inside(h) /\ handler[h].pc # "idle" /\ handler'[h].pc \in {"update", "unknown"}
          /\ UNCHANGED clock
      BY <2>6, InsertMove, UnknownMove
    <3>2. ~Active(h)'
      BY <3>1 DEF Active
    <3> QED
      BY <2>1, <3>1, <3>2
  <2>7. CASE EndStep(h)
    <3>1. /\ Others(h) /\ handler'[h].pc = "idle" /\ UNCHANGED <<sent, clock, hooks>>
          /\ \A t \in Flusher : flight'[t] \in {flight[t], None} /\ flight'[t] # h
      BY <2>7, EndMove
    <3>2. acked' \in acked..appended
      BY <2>7, PopMove
    <3>3. acked' >= acked /\ sent' >= sent /\ made' >= made /\ clock' >= clock
      BY <3>1, <3>2 DEF TypeOK, hooks
    <3>4. \A g \in Handler : /\ handler'[g].pc # "idle" => BatchSound(g)'
                             /\ Active(g)' => FrameSound(g)'
      BY <1>0, <3>1, <3>3, FrameKept DEF Others, Active
    <3>5. ASSUME NEW t \in Flusher, flight'[t] # None PROVE handler'[flight'[t]].pc # "idle"
      <4>1. flight'[t] = flight[t] /\ flight[t] \in Handler \ {h}
        BY <3>1, <3>5 DEF TypeOK
      <4> QED
        BY <3>1, <3>5, <4>1 DEF Others, FramesSound
    <3> QED
      BY <3>4, <3>5, FramesBuilt
  <2> QED
    BY <1>4, <2>2, <2>3, <2>4, <2>5, <2>6, <2>7 DEF HandlerStep, EndStep
<1> QED
  BY <1>1, <1>2, <1>3, <1>4, Steps

LEMMA BudgetStep ==
  ASSUME TypeOK, FramesSound, BudgetSound, [Next]_vars
  PROVE  BudgetSound'
<1> USE RelayAssumption
<1>0. Cardinality(Waiting) \in Nat /\ TypeOK'
  BY TypeStep, FS_CardinalityType DEF BudgetSound
<1>1. ASSUME NEW t \in Flusher, NEW h \in Handler, Post(t, h) PROVE BudgetSound'
  <2>1. /\ Others(h) /\ handler'[h].pc = "settings" /\ handler[h].pc = "idle"
        /\ budget > 0 /\ budget' = budget - 1 /\ clock' = clock
    BY <1>1, PostMove
  <2>2. Waiting' = Waiting \cup {h} /\ h \notin Waiting
    BY <2>1 DEF Waiting, Others
  <2>3. IsFiniteSet(Waiting') /\ Cardinality(Waiting') = Cardinality(Waiting) + 1
    BY <2>2, FS_AddElement DEF BudgetSound
  <2>4. clock \in Nat /\ budget \in Nat
    BY DEF TypeOK
  <2> QED
    BY <1>0, <2>1, <2>3, <2>4 DEF BudgetSound
<1>2. ASSUME Waiting' \subseteq Waiting, UNCHANGED clock, budget' <= budget
      PROVE  BudgetSound'
  <2>1. IsFiniteSet(Waiting') /\ Cardinality(Waiting') <= Cardinality(Waiting)
    BY <1>2, FS_Subset DEF BudgetSound
  <2>2. Cardinality(Waiting') \in Nat
    BY <2>1, FS_CardinalityType
  <2>3. clock \in Nat /\ budget \in Nat /\ budget' \in Nat
    BY <1>0 DEF TypeOK
  <2>4. clock' + Cardinality(Waiting') + budget' <= Budget
    <3>1. clock' = clock /\ clock + Cardinality(Waiting) + budget <= Budget /\ budget' <= budget
      BY <1>2 DEF BudgetSound
    <3> HIDE DEF Waiting
    <3> QED
      BY <1>0, <2>1, <2>2, <2>3, <3>1
  <2> QED
    BY <2>1, <2>4 DEF BudgetSound
<1>3. CASE MacroStep \/ Outside
  <2>1. handler' = handler /\ clock' = clock /\ budget' <= budget
    BY <1>3, MacroMove, OutsideMove
  <2> QED
    BY <1>2, <2>1 DEF Waiting
<1>4. ASSUME NEW h \in Handler, HandlerStep(h) PROVE BudgetSound'
  <2>1. CASE ReadBiomes(h)
    <3>1. h \in Waiting
      BY <2>1 DEF ReadBiomes, Waiting, At
    <3>2. clock < Budget
      BY <3>1, Room
    <3>3. Others(h) /\ handler'[h].pc \in {"insert", "event"} /\ clock' = clock + 1
          /\ budget' = budget
      BY <2>1, <3>2, ReadBiomesMove DEF Inside
    <3>4. Waiting' = Waiting \ {h}
      BY <3>3 DEF Waiting, Others
    <3>5. IsFiniteSet(Waiting') /\ Cardinality(Waiting') = Cardinality(Waiting) - 1
      BY <3>1, <3>4, FS_RemoveElement DEF BudgetSound
    <3>6. clock \in Nat /\ budget \in Nat
      BY DEF TypeOK
    <3> QED
      BY <1>0, <3>3, <3>5, <3>6 DEF BudgetSound
  <2>2. CASE ~ReadBiomes(h)
    <3>1. /\ Others(h) /\ UNCHANGED <<clock, budget>>
          /\ handler'[h].pc \in {"settings", "biomes"} => handler[h].pc \in {"settings", "biomes"}
      <4>1. CASE ReadSettings(h) \/ FindDuration(h) \/ UnknownBiome(h) \/ Insert(h)
        BY <4>1, ReadSettingsMove, FindDurationMove, UnknownMove, InsertMove DEF Inside
      <4>2. CASE DispatchStarted(h) \/ DispatchEnded(h)
        <5>1. handler[h].next <= handler[h].last
          BY <4>2 DEF DispatchStarted, DispatchEnded, FramesSound, FrameSound, Active, At
        <5> QED
          BY <4>2, <5>1, DispatchMove DEF Inside
      <4>3. CASE EndStep(h)
        BY <4>3, EndMove
      <4> QED
        BY <1>4, <2>2, <4>1, <4>2, <4>3 DEF HandlerStep, EndStep
    <3>2. Waiting' \subseteq Waiting
      BY <3>1 DEF Waiting, Others
    <3>3. budget' <= budget
      BY <3>1 DEF TypeOK
    <3> QED
      BY <1>2, <3>1, <3>2, <3>3
  <2> QED
    BY <2>1, <2>2
<1> QED
  BY <1>1, <1>3, <1>4, Steps

-----------------------------------------------------------------------------
(* The broken flag. *)

LEMMA FlagInit == Init => FlagSound
<1> SUFFICES ASSUME Init PROVE FlagSound
  OBVIOUS
<1>1. \A h \in Handler : handler[h].hooks = {}
  BY DEF Init, Idle
<1> QED
  BY <1>1 DEF Init, FlagSound, DocSound

LEMMA SlotFlags ==
  ASSUME TypeOK, FlagSound, Quiet, NEW slot \in Slot, NEW new \in 0..(made + 1),
         NEW clears \in BOOLEAN, WriteHook(slot, new, clears)
  PROVE  FlagSound'
<1>1. /\ hook'[slot] = new /\ \A s \in Slot \ {slot} : hook'[s] = hook[s]
      /\ UNCHANGED <<handler, gone, queue, marking, tests>>
  BY WriteMove DEF WriteHook, Quiet
<1>2. ASSUME NEW doc \in Doc, doc # DocOf(slot) PROVE DocSound(doc)'
  <2>1. HooksOf(doc)' = HooksOf(doc)
    BY <1>1, <1>2 DEF HooksOf
  <2>2. (doc \in broken' <=> doc \in broken) /\ (doc \in stale' <=> doc \in stale)
    BY <1>2 DEF WriteHook
  <2>3. DocSound(doc)
    BY DEF FlagSound
  <2> QED
    BY <1>1, <2>1, <2>2, <2>3 DEF DocSound
<1>3. DocSound(DocOf(slot))'
  <2> DEFINE doc == DocOf(slot)
  <2>1. CASE Outstanding(doc) \/ (~clears /\ doc \in broken)
    BY <2>1 DEF WriteHook, DocSound
  <2>2. CASE ~(Outstanding(doc) \/ (~clears /\ doc \in broken))
    <3>1. /\ doc \notin marking' /\ doc \notin broken'
          /\ \A d \in queue' \cup tests' : d.doc # doc
      BY <1>1, <2>2 DEF WriteHook, Outstanding
    <3>2. \A h \in Handler :
            ~(handler'[h].doc = doc /\ handler'[h].hooks # {} /\ handler'[h].pc # "insert")
      BY <1>1, <2>2 DEF Outstanding
    <3> HIDE DEF doc
    <3>3. DocSound(doc)'
      BY <3>1, <3>2 DEF DocSound
    <3> QED
      BY <3>3 DEF doc
  <2> QED
    BY <2>1, <2>2
<1> QED
  BY <1>2, <1>3 DEF FlagSound

\* A request that goes on may only name webhooks that are on its document.
LEMMA RequestFlags ==
  ASSUME TypeOK, FlagSound, NEW h \in Handler, Others(h),
         UNCHANGED <<hook, broken, gone, marking, tests, stale>>,
         \A d \in queue' \ queue :
           d.doc = handler[h].doc /\ d.hook \in handler[h].hooks /\ handler[h].pc # "insert",
         \A doc \in Doc \ stale :
           handler'[h].doc = doc /\ handler'[h].hooks # {} /\ handler'[h].pc # "insert" =>
             handler'[h].hooks \subseteq HooksOf(doc)
  PROVE  FlagSound'
<1>1. ASSUME NEW doc \in Doc, doc \notin stale PROVE DocSound(doc)'
  <2>1. HooksOf(doc)' = HooksOf(doc)
    BY DEF HooksOf
  <2>2. DocSound(doc)
    BY DEF FlagSound
  <2>3. \A d \in queue' \cup tests' : d.doc = doc => d.hook \in HooksOf(doc)
    BY <1>1, <2>2 DEF DocSound
  <2>4. \A g \in Handler :
          handler'[g].doc = doc /\ handler'[g].hooks # {} /\ handler'[g].pc # "insert" =>
            handler'[g].hooks \subseteq HooksOf(doc)
    BY <1>1, <2>2 DEF DocSound, Others
  <2> QED
    BY <1>1, <2>1, <2>2, <2>3, <2>4 DEF DocSound
<1> QED
  BY <1>1 DEF FlagSound, DocSound

LEMMA FlagStep ==
  ASSUME TypeOK, FramesSound, BudgetSound, FlagSound, [Next]_vars
  PROVE  FlagSound'
<1>1. ASSUME NEW t \in Flusher, NEW h \in Handler, Post(t, h) PROVE FlagSound'
  <2>1. /\ Others(h) /\ handler'[h].doc = "user" /\ handler'[h].hooks = HooksOf("user")
        /\ UNCHANGED <<hook, broken, gone, marking, tests, stale, queue>>
    BY <1>1, PostMove DEF hooks, flags
  <2> QED
    BY <2>1, RequestFlags
<1>2. CASE MacroStep
  <2>1. UNCHANGED <<handler, hook, broken, gone, marking, tests, stale, queue>>
    BY <1>2, MacroMove DEF hooks, flags
  <2> QED
    BY <2>1 DEF FlagSound, DocSound, HooksOf
<1>3. CASE Outside
  <2>0. handler' = handler
    BY <1>3, OutsideMove
  <2>1. CASE EditStep
    <3>1. CASE SetMode \/ KeyCreateRead
      <4>1. UNCHANGED <<hook, broken, gone, marking, tests, stale, queue>>
        BY <3>1 DEF SetMode, KeyCreateRead, flags
      <4> QED
        BY <2>0, <4>1 DEF FlagSound, DocSound, HooksOf
    <3>2. ASSUME NEW s \in Slot, TestRead(s) PROVE FlagSound'
      <4>1. /\ UNCHANGED <<hook, broken, gone, marking, queue, stale>>
            /\ tests' = tests \cup {[hook |-> hook[s], doc |-> DocOf(s)]} /\ hook[s] # 0
        BY <3>2 DEF TestRead, hooks
      <4>2. hook[s] \in HooksOf(DocOf(s))
        BY <4>1 DEF HooksOf
      <4>3. \A doc \in Doc : HooksOf(doc)' = HooksOf(doc)
        BY <4>1 DEF HooksOf
      <4> QED
        BY <2>0, <4>1, <4>2, <4>3 DEF FlagSound, DocSound
    <3>3. ASSUME NEW d \in tests, TestPut(d) PROVE FlagSound'
      <4>1. /\ UNCHANGED <<hook, broken, gone, marking, stale>>
            /\ queue' \cup tests' \subseteq queue \cup tests
        BY <3>3 DEF TestPut, hooks
      <4>2. \A doc \in Doc : HooksOf(doc)' = HooksOf(doc)
        BY <4>1 DEF HooksOf
      <4> QED
        BY <2>0, <4>1, <4>2 DEF FlagSound, DocSound
    <3> QED
      BY <2>1, <3>1, <3>2, <3>3, EditMove, SlotFlags DEF Writes, ReadStep
  <2>2. CASE \E d \in queue : Deliver(d) \/ PostGone(d)
    <3>1. PICK d \in queue : Deliver(d) \/ PostGone(d)
      BY <2>2
    <3>2. queue' \subseteq queue /\ UNCHANGED <<hook, broken, gone, tests, stale>>
      BY <3>1 DEF Deliver, PostGone, hooks
    <3>3. marking' \subseteq marking \cup {d.doc} /\ (marking' # marking => d.hook \in gone)
      BY <3>1 DEF Deliver, PostGone, Blamed
    <3>4. \A doc \in Doc : HooksOf(doc)' = HooksOf(doc)
      BY <3>2 DEF HooksOf
    <3>5. ASSUME NEW doc \in Doc, doc \notin stale PROVE DocSound(doc)'
      <4>1. DocSound(doc)
        BY DEF FlagSound
      <4>2. doc \in marking' \cup broken' => HooksOf(doc) \cap gone # {}
        BY <3>2, <3>3, <3>5, <4>1 DEF DocSound
      <4> QED
        BY <2>0, <3>2, <3>4, <3>5, <4>1, <4>2 DEF DocSound
    <3> QED
      BY <3>2, <3>5 DEF FlagSound, DocSound
  <2>3. CASE \E doc \in marking : MarkBroken(doc)
    <3>1. PICK doc \in marking : MarkBroken(doc)
      BY <2>3
    <3>2. /\ UNCHANGED <<hook, gone, queue, tests, stale>> /\ marking' \subseteq marking
          /\ broken' \subseteq broken \cup marking
      BY <3>1 DEF MarkBroken, Flagged, hooks
    <3>3. \A d \in Doc : HooksOf(d)' = HooksOf(d)
      BY <3>2 DEF HooksOf
    <3> QED
      BY <2>0, <3>2, <3>3 DEF FlagSound, DocSound
  <2>4. CASE \E h \in 1..made : HookDeleted(h)
    <3>1. UNCHANGED <<hook, broken, queue, marking, tests, stale>> /\ gone \subseteq gone'
      BY <2>4 DEF HookDeleted, hooks
    <3>2. \A d \in Doc : HooksOf(d)' = HooksOf(d)
      BY <3>1 DEF HooksOf
    <3> QED
      BY <2>0, <3>1, <3>2 DEF FlagSound, DocSound
  <2>5. CASE UNCHANGED vars
    BY <2>5 DEF vars, hooks, flags, FlagSound, DocSound, HooksOf
  <2> QED
    BY <1>3, <2>1, <2>2, <2>3, <2>4, <2>5 DEF Outside
<1>4. ASSUME NEW h \in Handler, HandlerStep(h) PROVE FlagSound'
  <2>1. CASE ReadSettings(h)
    <3>1. /\ Inside(h) /\ handler[h].pc = "settings" /\ handler'[h].doc = SourceOf(mode)
          /\ handler'[h].hooks = CASE SourceOf(mode) = "settings" -> HooksOf("settings")
                                   [] SourceOf(mode) = "user" -> handler[h].hooks
                                   [] OTHER -> {}
          /\ UNCHANGED flags
      BY <2>1, ReadSettingsMove
    <3>2. handler[h].doc = "user"
      BY <3>1 DEF FramesSound, FrameSound, Active, At
    <3>3. "user" \in stale \/ handler[h].hooks \subseteq HooksOf("user")
      BY <3>1, <3>2 DEF FlagSound, DocSound, Doc
    <3>4. \A doc \in Doc \ stale :
            handler'[h].doc = doc => handler'[h].hooks \subseteq HooksOf(doc)
      BY <3>1, <3>3
    <3> QED
      BY <3>1, <3>4, RequestFlags DEF Inside, hooks, flags
  <2>2. CASE ReadBiomes(h)
    <3>0. clock < Budget
      BY <2>2, Room DEF ReadBiomes, Waiting, At
    <3>1. /\ Inside(h) /\ handler[h].pc = "biomes" /\ handler'[h].doc = handler[h].doc
          /\ handler'[h].hooks = IF handler[h].doc = "biome" THEN HooksOf("biome")
                                 ELSE handler[h].hooks
          /\ UNCHANGED flags
      BY <2>2, <3>0, ReadBiomesMove
    <3>2. \A doc \in Doc \ stale :
            handler'[h].doc = doc => handler'[h].hooks \subseteq HooksOf(doc)
      BY <3>1 DEF FlagSound, DocSound
    <3> QED
      BY <3>1, <3>2, RequestFlags DEF Inside, hooks, flags
  <2>3. CASE DispatchStarted(h) \/ DispatchEnded(h)
    <3>0. handler[h].next <= handler[h].last
      BY <2>3 DEF DispatchStarted, DispatchEnded, FramesSound, FrameSound, Active, At
    <3>1. /\ Inside(h) /\ handler[h].pc \in {"event", "put"} /\ handler'[h].doc = handler[h].doc
          /\ handler'[h].hooks = handler[h].hooks
          /\ UNCHANGED <<broken, gone, marking, tests, stale>>
      BY <2>3, <3>0, DispatchMove
    <3>2. PICK url \in handler[h].hooks :
            queue' = queue \cup {[hook |-> url, doc |-> handler[h].doc]}
      BY <2>3, <3>0, DispatchMove
    <3>3. \A doc \in Doc \ stale :
            handler'[h].doc = doc => handler'[h].hooks \subseteq HooksOf(doc)
      BY <3>1 DEF FlagSound, DocSound
    <3>4. \A d \in queue' \ queue :
            d.doc = handler[h].doc /\ d.hook \in handler[h].hooks /\ handler[h].pc # "insert"
      BY <3>1, <3>2
    <3> QED
      BY <3>1, <3>3, <3>4, RequestFlags DEF Inside, hooks
  <2>4. CASE FindDuration(h)
    <3>1. /\ Inside(h) /\ handler[h].pc = "event" /\ handler'[h].doc = handler[h].doc
          /\ handler'[h].hooks = handler[h].hooks /\ UNCHANGED flags
      BY <2>4, FindDurationMove
    <3>2. \A doc \in Doc \ stale :
            handler'[h].doc = doc => handler'[h].hooks \subseteq HooksOf(doc)
      BY <3>1 DEF FlagSound, DocSound
    <3> QED
      BY <3>1, <3>2, RequestFlags DEF Inside, hooks, flags
  <2>5. CASE Insert(h) \/ UnknownBiome(h)
    <3>1. Inside(h) /\ handler'[h].hooks = {} /\ UNCHANGED flags
      BY <2>5, InsertMove, UnknownMove
    <3> QED
      BY <3>1, RequestFlags DEF Inside, hooks, flags
  <2>6. CASE EndStep(h)
    <3>1. Others(h) /\ handler'[h].hooks = {} /\ UNCHANGED <<hooks, flags>>
      BY <2>6, EndMove
    <3> QED
      BY <3>1, RequestFlags DEF hooks, flags
  <2> QED
    BY <1>4, <2>1, <2>2, <2>3, <2>4, <2>5, <2>6 DEF HandlerStep, EndStep
<1> QED
  BY <1>1, <1>2, <1>3, <1>4, Steps

-----------------------------------------------------------------------------
(* The audit log. *)

LEMMA AuditInit == Init => StampSound /\ PopSound /\ AuditTruthful
<1> SUFFICES ASSUME Init PROVE StampSound /\ PopSound /\ AuditTruthful
  OBVIOUS
<1>1. \A h \in Handler : handler[h].pc = "idle"
  BY DEF Init, Idle
<1>2. \A e \in 1..acked : FALSE
  BY DEF Init
<1> QED
  BY <1>1, <1>2 DEF Init, StampSound, PopSound, AuditTruthful, Stamped, At

\* A step that neither queues nor stores, of a request with no stamp after it or the same.
LEMMA StampKept ==
  ASSUME StampSound, NEW h \in Handler, Others(h), UNCHANGED <<alerts, log>>,
         Stamped(h)' =>
           /\ Stamped(h) /\ handler'[h].stamp = handler[h].stamp
           /\ handler'[h].first = handler[h].first /\ handler'[h].next = handler[h].next
  PROVE  StampSound'
<1>1. ASSUME NEW g \in Handler, Stamped(g)'
      PROVE  /\ Stamped(g) /\ handler'[g].stamp = handler[g].stamp
             /\ handler'[g].first = handler[g].first /\ handler'[g].next = handler[g].next
  BY <1>1 DEF Others, Stamped
<1> QED
  BY <1>1 DEF StampSound

\* A request that ends, or waits to answer, with any part of its batch stored.
LEMMA StampStored ==
  ASSUME StampSound, NEW h \in Handler, Others(h), ~Stamped(h)', alerts' = alerts,
         Stamped(h), NEW part \in SUBSET ToStore(h), log' = log \cup part
  PROVE  StampSound'
<1>1. ASSUME NEW g \in Handler, Stamped(g)'
      PROVE  /\ Stamped(g) /\ g # h /\ handler'[g] = handler[g]
             /\ \A d \in log' : d.stamp # handler[g].stamp
  <2>1. Stamped(g) /\ g # h /\ handler'[g] = handler[g]
    BY <1>1 DEF Others, Stamped
  <2>2. handler[g].stamp # handler[h].stamp
    BY <2>1 DEF StampSound
  <2>3. \A d \in part : d.stamp = handler[h].stamp
    BY DEF ToStore
  <2> QED
    BY <2>1, <2>2, <2>3 DEF StampSound
<1> QED
  BY <1>1 DEF StampSound

LEMMA StampStep ==
  ASSUME TypeOK, FramesSound, BudgetSound, StampSound, [Next]_vars
  PROVE  StampSound'
<1>1. ASSUME NEW t \in Flusher, NEW h \in Handler, Post(t, h) PROVE StampSound'
  <2>1. Others(h) /\ ~Stamped(h)' /\ UNCHANGED <<alerts, log>>
    BY <1>1, PostMove DEF Stamped
  <2> QED
    BY <2>1, StampKept
<1>2. CASE MacroStep \/ Outside
  <2>1. UNCHANGED <<handler, alerts, log>>
    BY <1>2, MacroMove, OutsideMove
  <2> QED
    BY <2>1 DEF StampSound, Stamped
<1>3. ASSUME NEW h \in Handler, HandlerStep(h) PROVE StampSound'
  <2>1. CASE ReadSettings(h)
    BY <2>1, ReadSettingsMove, StampKept DEF Inside, Stamped
  <2>2. CASE ReadBiomes(h)
    <3>0. clock < Budget
      BY <2>2, Room DEF ReadBiomes, Waiting, At
    <3>1. /\ Inside(h) /\ handler[h].pc = "biomes" /\ handler'[h].next = handler[h].next
          /\ handler'[h].stamp = clock + 1 /\ UNCHANGED <<alerts, log>>
      BY <2>2, <3>0, ReadBiomesMove
    <3>2. handler[h].next = handler[h].first /\ handler'[h].first = handler[h].first
      BY <3>1 DEF FramesSound, FrameSound, Active, At, Inside
    <3>3. /\ \A e \in Event : [event |-> e, stamp |-> handler'[h].stamp] \notin alerts
          /\ \A d \in log : d.stamp # handler'[h].stamp
      <4>1. clock \in Nat /\ clock + 1 \notin 1..clock
        BY RelayAssumption DEF TypeOK
      <4>2. \A a \in alerts : a.stamp \in 1..clock
        BY DEF TypeOK
      <4>3. \A d \in log : d.stamp \in 1..clock
        BY DEF TypeOK
      <4> QED
        BY <3>1, <4>1, <4>2, <4>3
    <3>4. \A e \in Event : e \notin handler'[h].first..(handler'[h].next - 1)
      BY <3>1, <3>2 DEF TypeOK, Frame, Event
    <3>5. ASSUME NEW g \in Handler \ {h}, Stamped(g)'
          PROVE  Stamped(g) /\ handler'[g] = handler[g] /\ handler[g].stamp # clock + 1
      <4>1. Stamped(g) /\ handler'[g] = handler[g]
        BY <3>1, <3>5 DEF Inside, Others, Stamped
      <4>2. handler[g].stamp \in 1..clock /\ clock \in Nat
        BY <4>1, RelayAssumption DEF FramesSound, FrameSound, Active, Stamped, TypeOK
      <4> QED
        BY <4>1, <4>2
    <3> QED
      BY <3>1, <3>3, <3>4, <3>5 DEF StampSound
  <2>3. CASE DispatchStarted(h) \/ DispatchEnded(h)
    <3>0. handler[h].next <= handler[h].last /\ FrameSound(h) /\ Stamped(h)
      BY <2>3 DEF DispatchStarted, DispatchEnded, FramesSound, FrameSound, Active, Stamped, At
    <3>1. /\ Inside(h) /\ handler'[h].next = handler[h].next + 1
          /\ handler'[h].stamp = handler[h].stamp
          /\ alerts' = alerts \cup {Payload(h)} /\ log' = log
      BY <2>3, <3>0, DispatchMove
    <3>2. handler'[h].first = handler[h].first /\ Others(h)
      BY <3>1 DEF Inside
    <3>3. \A e \in Event : [event |-> e, stamp |-> handler[h].stamp] \in alerts' <=>
                             e \in handler[h].first..((handler[h].next + 1) - 1)
      <4>1. \A e \in Event : [event |-> e, stamp |-> handler[h].stamp] \in alerts' <=>
              e \in handler[h].first..(handler[h].next - 1) \/ e = handler[h].next
        <5>1. \A e \in Event : [event |-> e, stamp |-> handler[h].stamp] = Payload(h) <=>
                                 e = handler[h].next
          BY DEF Payload
        <5> QED
          BY <3>0, <3>1, <5>1 DEF StampSound
      <4>2. /\ handler[h].first \in Nat /\ handler[h].next \in Nat
            /\ handler[h].first <= handler[h].next
        BY <3>0 DEF FrameSound, TypeOK, Frame
      <4>3. \A e \in Event : e \in handler[h].first..((handler[h].next + 1) - 1) <=>
              e \in handler[h].first..(handler[h].next - 1) \/ e = handler[h].next
        BY <4>2 DEF Event
      <4> QED
        BY <4>1, <4>3
    <3>4. ASSUME NEW g \in Handler \ {h}, Stamped(g)'
          PROVE  /\ Stamped(g) /\ handler'[g] = handler[g] /\ handler[g].stamp # handler[h].stamp
                 /\ \A e \in Event : [event |-> e, stamp |-> handler[g].stamp] \in alerts' <=>
                                       [event |-> e, stamp |-> handler[g].stamp] \in alerts
      <4>1. Stamped(g) /\ handler'[g] = handler[g]
        BY <3>2, <3>4 DEF Others, Stamped
      <4>2. handler[g].stamp # handler[h].stamp
        BY <3>0, <4>1 DEF StampSound
      <4>3. \A e \in Event : [event |-> e, stamp |-> handler[g].stamp] # Payload(h)
        BY <4>2 DEF Payload
      <4> QED
        BY <3>1, <4>1, <4>2, <4>3
    <3> QED
      BY <3>0, <3>1, <3>2, <3>3, <3>4 DEF StampSound
  <2>4. CASE FindDuration(h)
    BY <2>4, FindDurationMove, StampKept DEF Inside, Stamped
  <2>5. CASE Insert(h)
    <3>1. /\ Others(h) /\ ~Stamped(h)' /\ Stamped(h) /\ alerts' = alerts
          /\ log' = log \cup ToStore(h)
      BY <2>5, InsertMove DEF Stamped, Inside
    <3> QED
      BY <3>1, StampStored
  <2>6. CASE UnknownBiome(h)
    BY <2>6, UnknownMove, StampKept DEF Inside, Stamped
  <2>7. CASE EndStep(h)
    <3>1. Others(h) /\ ~Stamped(h)' /\ alerts' = alerts
      BY <2>7, EndMove DEF Stamped
    <3>2. CASE log' = log
      BY <3>1, <3>2, StampKept
    <3>3. CASE At(h, "insert") /\ \E part \in SUBSET ToStore(h) : log' = log \cup part
      BY <3>1, <3>3, StampStored DEF At, Stamped
    <3> QED
      BY <2>7, <3>2, <3>3, EndMove
  <2> QED
    BY <1>3, <2>1, <2>2, <2>3, <2>4, <2>5, <2>6, <2>7 DEF HandlerStep, EndStep
<1> QED
  BY <1>1, <1>2, <1>3, Steps

\* What a request is about to store says of each event whether it was dispatched.
LEMMA StoredTruthful ==
  ASSUME TypeOK, FramesSound, StampSound, NEW h \in Handler, At(h, "insert"), NEW d \in ToStore(h)
  PROVE  d.dispatched <=> [event |-> d.event, stamp |-> d.stamp] \in alerts
<1>1. BatchSound(h) /\ FrameSound(h) /\ Stamped(h)
  BY DEF FramesSound, Active, Stamped, At
<1>2. PICK e \in handler[h].first..handler[h].last :
        d = [event |-> e, stamp |-> handler[h].stamp, dispatched |-> handler[h].hooks # {}]
  BY DEF ToStore, Batch
<1>3. d.event = e /\ d.stamp = handler[h].stamp /\ (d.dispatched <=> handler[h].hooks # {})
  BY <1>2
<1>4. handler[h].first \in Nat /\ handler[h].last \in Nat /\ e \in Event
  BY <1>1, RelayAssumption DEF BatchSound, TypeOK, Event
<1>5. handler[h].next = IF handler[h].hooks = {} THEN handler[h].first ELSE handler[h].last + 1
  BY <1>1 DEF FrameSound
<1>6. [event |-> e, stamp |-> handler[h].stamp] \in alerts <=>
        e \in handler[h].first..(handler[h].next - 1)
  BY <1>1, <1>4 DEF StampSound
<1>7. e \in handler[h].first..(handler[h].next - 1) <=> handler[h].hooks # {}
  BY <1>4, <1>5
<1> QED
  BY <1>3, <1>6, <1>7

Truthful == \A d \in log : d.dispatched <=> [event |-> d.event, stamp |-> d.stamp] \in alerts

LEMMA TruthfulStep ==
  ASSUME TypeOK, FramesSound, BudgetSound, StampSound, Truthful, [Next]_vars
  PROVE  Truthful'
<1>1. ASSUME NEW t \in Flusher, NEW h \in Handler, Post(t, h) PROVE Truthful'
  BY <1>1 DEF Post, Truthful
<1>2. CASE MacroStep \/ Outside
  BY <1>2, MacroMove, OutsideMove DEF Truthful
<1>3. ASSUME NEW h \in Handler, HandlerStep(h) PROVE Truthful'
  <2>1. CASE DispatchStarted(h) \/ DispatchEnded(h)
    <3>1. handler[h].next <= handler[h].last /\ Stamped(h)
      BY <2>1 DEF DispatchStarted, DispatchEnded, FramesSound, FrameSound, Active, Stamped, At
    <3>2. alerts' = alerts \cup {Payload(h)} /\ log' = log
      BY <2>1, <3>1, DispatchMove
    <3>3. \A d \in log : [event |-> d.event, stamp |-> d.stamp] # Payload(h)
      <4>1. \A d \in log : d.stamp # handler[h].stamp
        BY <3>1 DEF StampSound
      <4> QED
        BY <4>1 DEF Payload
    <3> QED
      BY <3>2, <3>3 DEF Truthful
  <2>2. CASE ReadSettings(h) \/ ReadBiomes(h) \/ FindDuration(h)
    BY <2>2 DEF ReadSettings, ReadBiomes, FindDuration, Truthful
  <2>3. CASE Insert(h) \/ InsertFails(h)
    <3>1. /\ At(h, "insert") /\ alerts' = alerts
          /\ \A d \in log' : d \in log \/ d \in ToStore(h)
      BY <2>3 DEF Insert, InsertFails
    <3> QED
      BY <3>1, StoredTruthful DEF Truthful
  <2>4. CASE UnknownBiome(h) \/ Answer(h) \/ HandlerFails(h)
    BY <2>4 DEF UnknownBiome, Answer, HandlerFails, Truthful
  <2> QED
    BY <1>3, <2>1, <2>2, <2>3, <2>4 DEF HandlerStep
<1> QED
  BY <1>1, <1>2, <1>3, Steps

Settled(e) == e \in rejected \cup dropped \/ Logged(e)

Accounted == \A e \in 1..acked : Settled(e)

\* Nothing is unsettled, and only a request that has stored its batch says so.
LEMMA AccountKept ==
  ASSUME PopSound, log \subseteq log', NEW h \in Handler, Others(h), ~At(h, "update")'
  PROVE  PopSound'
<1>1. ASSUME NEW g \in Handler, At(g, "update")', NEW e \in Batch(g)' PROVE Logged(e)'
  <2>1. At(g, "update") /\ e \in Batch(g)
    BY <1>1 DEF Others, At, Batch
  <2>2. Logged(e)
    BY <2>1 DEF PopSound
  <2> QED
    BY <2>2 DEF Logged
<1> QED
  BY <1>1 DEF PopSound

LEMMA AccountStep ==
  ASSUME TypeOK, FramesSound, BudgetSound, PopSound, Accounted, [Next]_vars
  PROVE  PopSound' /\ Accounted'
<1>0. ASSUME log \subseteq log', dropped \subseteq dropped', rejected \subseteq rejected',
             NEW e, Settled(e)
      PROVE  Settled(e)'
  BY <1>0 DEF Settled, Logged
<1>1. ASSUME NEW t \in Flusher, NEW h \in Handler, Post(t, h) PROVE PopSound' /\ Accounted'
  <2>1. /\ Others(h) /\ handler'[h].pc = "settings"
        /\ UNCHANGED <<acked, dropped, log, rejected>>
    BY <1>1, PostMove
  <2>2. PopSound'
    BY <2>1, AccountKept DEF At
  <2> QED
    BY <2>1, <2>2 DEF Accounted, Settled, Logged
<1>2. CASE MacroStep
  <2>1. /\ UNCHANGED <<handler, log, rejected>> /\ acked' \in acked..appended'
        /\ dropped' = dropped \cup (acked + 1)..acked'
    BY <1>2, MacroMove
  <2>2. PopSound'
    BY <2>1 DEF PopSound, At, Batch, Logged
  <2>3. ASSUME NEW e \in 1..acked' PROVE Settled(e)'
    <3>1. e \in 1..acked \/ e \in (acked + 1)..acked'
      BY <2>1 DEF TypeOK
    <3> QED
      BY <1>0, <2>1, <3>1 DEF Accounted, Settled
  <2> QED
    BY <2>2, <2>3 DEF Accounted
<1>3. CASE Outside
  <2>1. UNCHANGED <<acked, dropped, handler, log, rejected>>
    BY <1>3, OutsideMove DEF macro
  <2> QED
    BY <2>1 DEF PopSound, Accounted, Settled, Logged, At, Batch
<1>4. ASSUME NEW h \in Handler, HandlerStep(h) PROVE PopSound' /\ Accounted'
  <2>1. ASSUME Inside(h), log \subseteq log' PROVE Accounted'
    <3>1. UNCHANGED <<acked, dropped, rejected>>
      BY <2>1 DEF Inside, macro
    <3> QED
      BY <1>0, <2>1, <3>1 DEF Accounted
  <2>2. CASE ReadSettings(h) \/ ReadBiomes(h) \/ DispatchStarted(h) \/ DispatchEnded(h)
                             \/ FindDuration(h) \/ UnknownBiome(h)
    <3>1. Inside(h) /\ log' = log /\ ~At(h, "update")'
      <4>1. CASE ReadSettings(h) \/ FindDuration(h) \/ UnknownBiome(h)
        BY <4>1, ReadSettingsMove, FindDurationMove, UnknownMove DEF At
      <4>2. CASE ReadBiomes(h)
        <5>1. clock < Budget
          BY <4>2, Room DEF ReadBiomes, Waiting, At
        <5> QED
          BY <4>2, <5>1, ReadBiomesMove DEF At
      <4>3. CASE DispatchStarted(h) \/ DispatchEnded(h)
        <5>1. handler[h].next <= handler[h].last
          BY <4>3 DEF DispatchStarted, DispatchEnded, FramesSound, FrameSound, Active, At
        <5> QED
          BY <4>3, <5>1, DispatchMove DEF At
      <4> QED
        BY <2>2, <4>1, <4>2, <4>3
    <3> QED
      BY <2>1, <3>1, AccountKept DEF Inside
  <2>3. CASE Insert(h)
    <3>1. Inside(h) /\ log' = log \cup ToStore(h)
      BY <2>3, InsertMove
    <3>2. ASSUME NEW e \in Batch(h) PROVE Logged(e)'
      <4>1. [event |-> e, stamp |-> handler[h].stamp, dispatched |-> handler[h].hooks # {}]
              \in ToStore(h)
        BY DEF ToStore
      <4> QED
        BY <3>1, <4>1 DEF Logged
    <3>3. ASSUME NEW g \in Handler \ {h}, At(g, "update")', NEW e \in Batch(g)' PROVE Logged(e)'
      <4>1. At(g, "update") /\ e \in Batch(g)
        BY <3>1, <3>3 DEF Inside, Others, At, Batch
      <4> QED
        BY <3>1, <4>1 DEF PopSound, Logged
    <3>4. Batch(h)' = Batch(h)
      BY <3>1 DEF Inside, Batch
    <3>5. PopSound'
      BY <3>2, <3>3, <3>4 DEF PopSound
    <3> QED
      BY <2>1, <3>1, <3>5
  <2>4. CASE EndStep(h)
    <3>1. Others(h) /\ ~At(h, "update")' /\ log \subseteq log'
      BY <2>4, EndMove DEF At
    <3>2. /\ acked' \in acked..appended
          /\ dropped \subseteq dropped' /\ rejected \subseteq rejected'
          /\ \A e \in (acked + 1)..acked' :
               \/ e \in dropped'
               \/ Awaited(h) /\ e \in Batch(h) /\ (At(h, "update") \/ e \in rejected')
      BY <2>4, PopMove
    <3>3. ASSUME NEW e \in 1..acked' PROVE Settled(e)'
      <4>1. CASE e \in 1..acked
        BY <1>0, <3>1, <3>2, <4>1 DEF Accounted
      <4>2. CASE e \in (acked + 1)..acked'
        <5>1. CASE e \in dropped' \cup rejected'
          BY <5>1 DEF Settled
        <5>2. CASE e \in Batch(h) /\ At(h, "update")
          BY <3>1, <5>2 DEF PopSound, Settled, Logged
        <5> QED
          BY <3>2, <4>2, <5>1, <5>2
      <4> QED
        BY <3>2, <4>1, <4>2 DEF TypeOK
    <3>4. Accounted'
      BY <3>3 DEF Accounted
    <3> QED
      BY <3>1, <3>4, AccountKept
  <2> QED
    BY <1>4, <2>2, <2>3, <2>4 DEF HandlerStep, EndStep
<1> QED
  BY <1>1, <1>2, <1>3, <1>4, Steps

LEMMA AuditStep ==
  ASSUME TypeOK, FramesSound, BudgetSound, StampSound, PopSound, AuditTruthful, [Next]_vars
  PROVE  PopSound' /\ AuditTruthful'
<1>1. Accounted /\ Truthful
  BY DEF AuditTruthful, Accounted, Truthful, Settled, Logged
<1>2. PopSound' /\ Accounted' /\ Truthful'
  BY <1>1, AccountStep, TruthfulStep
<1> QED
  BY <1>2 DEF AuditTruthful, Accounted, Truthful, Settled, Logged

-----------------------------------------------------------------------------
(* The duration of an `ended` alert. *)

LEMMA RepeatInit == Init => RepeatSound /\ OrderSound /\ DurationExplained
BY DEF Init, Idle, RepeatSound, OrderSound, DurationExplained, Active, Stamped, At

\* What a request is about to store.
LEMMA StoredEvents ==
  ASSUME NEW h \in Handler, NEW d \in ToStore(h)
  PROVE  d.event \in Batch(h) /\ d.stamp = handler[h].stamp
BY DEF ToStore, Batch

\* In a step that only takes from the buffer, a request meets no more than before, but for
\* what is dropped, when another goes on, stores or ends.
LEMMA RepeatKept ==
  ASSUME TypeOK, FramesSound, RepeatSound, NEW h \in Handler, Others(h),
         UNCHANGED <<sent, repeated>>, dropped \subseteq dropped', acked' \in acked..appended',
         appended' \in Nat,
         Active(h)' => Active(h) /\ Batch(h)' = Batch(h),
         \A t \in Flusher : flight'[t] \in {flight[t], None},
         Active(h)' \/ Awaited(h)' =>
           (Active(h) \/ Awaited(h)) /\ handler'[h].last = handler[h].last,
         \A e \in (acked + 1)..acked' :
           e \in dropped' \/ (Awaited(h) /\ e \in Batch(h) /\ ~Active(h)'),
         \A d \in log' \ log : Active(h) /\ d.event \in Batch(h) /\ ~Active(h)'
  PROVE  RepeatSound'
<1> USE RelayAssumption
<1>0. /\ acked \in Nat /\ acked' \in Nat /\ sent \in Nat
      /\ \A g \in Handler : handler[g].first \in Nat /\ handler[g].last \in Nat
      /\ \A d \in log : d.event \in Nat
  BY DEF TypeOK, Frame, Event
<1>1. \A k \in Handler : Awaited(k)' => Awaited(k)
  BY DEF Awaited
<1>2. ASSUME NEW g \in Handler, Active(g)', NEW e \in Batch(g)', Met(e, g)', e \notin dropped'
      PROVE  e \in Disturbed'
  <2>1. Active(g) /\ e \in Batch(g)
    BY <1>2 DEF Others, Active, Batch
  <2>2. e \in Nat
    BY <1>0, <2>1 DEF Batch
  <2>3. ASSUME e <= acked' PROVE Met(e, g)
    <3>1. e <= acked \/ e \in (acked + 1)..acked'
      BY <1>0, <2>2, <2>3
    <3>2. CASE e <= acked
      BY <3>2 DEF Met
    <3>3. CASE e \in (acked + 1)..acked'
      <4>1. Awaited(h) /\ e \in Batch(h) /\ h # g
        BY <1>2, <3>3
      <4>2. e <= handler[h].last
        BY <1>0, <2>2, <4>1 DEF Batch
      <4> QED
        BY <4>1, <4>2 DEF Met
    <3> QED
      BY <3>1, <3>2, <3>3
  <2>4. ASSUME NEW d \in log', e <= d.event PROVE Met(e, g)
    <3>1. CASE d \in log
      BY <2>4, <3>1 DEF Met
    <3>2. CASE d \notin log
      <4>1. Active(h) /\ d.event \in Batch(h) /\ h # g
        BY <1>2, <3>2
      <4>2. d.event \in Nat /\ d.event <= handler[h].last
        BY <1>0, <4>1 DEF Batch
      <4>3. e <= handler[h].last
        BY <1>0, <2>2, <2>4, <4>2
      <4> QED
        BY <4>1, <4>3 DEF Met
    <3> QED
      BY <3>1, <3>2
  <2>5. ASSUME NEW k \in Handler \ {g}, Active(k)' \/ Awaited(k)', e <= handler'[k].last
        PROVE  Met(e, g)
    <3>1. Active(k) \/ Awaited(k)
      BY <1>1, <2>5 DEF Others, Active
    <3>2. handler'[k].last = handler[k].last
      BY <2>5 DEF Others
    <3> QED
      BY <2>5, <3>1, <3>2 DEF Met
  <2>6. Met(e, g)
    BY <1>2, <2>3, <2>4, <2>5 DEF Met
  <2> QED
    BY <2>1, <2>6 DEF RepeatSound, Disturbed
<1>3. ASSUME NEW d \in log' PROVE d.event <= sent
  <2>1. CASE d \in log
    BY <2>1 DEF RepeatSound
  <2>2. CASE d \notin log
    <3>1. Active(h) /\ d.event \in Batch(h)
      BY <2>2
    <3>2. handler[h].last \in Nat /\ handler[h].last <= sent
      BY <1>0, <3>1 DEF FramesSound, BatchSound, Active
    <3> QED
      BY <1>0, <3>1, <3>2 DEF Batch
  <2> QED
    BY <2>1, <2>2
<1> QED
  BY <1>2, <1>3 DEF RepeatSound, Disturbed

LEMMA RepeatStep ==
  ASSUME TypeOK, FramesSound, BudgetSound, RepeatSound, [Next]_vars
  PROVE  RepeatSound'
<1> USE RelayAssumption
<1>0. /\ acked \in Nat /\ appended \in Nat /\ sent \in Nat /\ acked \in acked..appended
      /\ \A h \in Handler : handler[h].first \in Nat /\ handler[h].last \in Nat
      /\ \A d \in log : d.event \in Nat
  BY DEF TypeOK, Frame, Event
<1>9. \A h \in Handler : Active(h) \/ Awaited(h) => handler[h].last <= sent
  <2>1. \A h \in Handler : Active(h) \/ Awaited(h) => handler[h].pc # "idle"
    BY DEF Active, Awaited, FramesSound, None
  <2> QED
    BY <1>0, <2>1 DEF FramesSound, BatchSound
<1>1. ASSUME NEW t \in Flusher, NEW h \in Handler, Post(t, h) PROVE RepeatSound'
  <2>1. PICK last \in Event :
          /\ Others(h) /\ handler'[h].pc = "settings" /\ handler'[h].first = acked + 1
          /\ handler'[h].last = last
          /\ sent' \in 0..appended /\ sent' >= sent
          /\ repeated' = repeated \cup ((acked + 1)..last \cap 1..sent)
          /\ flight' = [flight EXCEPT ![t] = h]
          /\ UNCHANGED <<acked, dropped, log>>
    BY <1>1, PostMove
  <2>2. last \in Nat /\ sent' \in Nat
    BY <2>1 DEF Event
  <2>3. \A d \in log' : d.event <= sent'
    BY <1>0, <2>1, <2>2 DEF RepeatSound
  <2>0. ASSUME NEW g \in Handler \ {h}
        PROVE  /\ handler'[g] = handler[g] /\ (Active(g)' => Active(g))
               /\ (Awaited(g)' => Awaited(g))
    <3>1. handler'[g] = handler[g]
      BY <2>1 DEF Others
    <3>2. Awaited(g)' => Awaited(g)
      BY <2>1 DEF Awaited, TypeOK
    <3> QED
      BY <3>1, <3>2 DEF Active
  <2>4. ASSUME NEW e \in (acked + 1)..last, Met(e, h)' PROVE e \in repeated'
    <3>1. e \in Nat /\ e > acked /\ e >= 1
      BY <1>0, <2>2
    <3>2. e <= sent
      <4>1. CASE \E d \in log : e <= d.event
        BY <1>0, <3>1, <4>1 DEF RepeatSound
      <4>2. CASE \E g \in Handler \ {h} : (Active(g) \/ Awaited(g)) /\ e <= handler[g].last
        BY <1>0, <1>9, <3>1, <4>2
      <4> QED
        BY <1>0, <2>0, <2>1, <2>4, <3>1, <4>1, <4>2 DEF Met
    <3> QED
      BY <1>0, <2>1, <2>4, <3>1, <3>2
  <2>5. ASSUME NEW g \in Handler \ {h}, Active(g)', NEW e \in Batch(g)', Met(e, g)'
        PROVE  e \in Disturbed'
    <3>1. Active(g) /\ e \in Batch(g)
      BY <2>0, <2>5 DEF Batch
    <3>2. CASE Met(e, g)
      BY <2>1, <3>1, <3>2 DEF RepeatSound, Disturbed
    <3>3. CASE ~Met(e, g)
      <4>1. e \in Nat
        BY <1>0, <3>1 DEF Batch
      <4>2. ~(e <= acked) /\ ~(\E d \in log : e <= d.event)
        BY <3>3 DEF Met
      <4>3. PICK k \in Handler \ {g} : (Active(k)' \/ Awaited(k)') /\ e <= handler'[k].last
        BY <2>1, <2>5, <4>2 DEF Met
      <4>4. k = h
        BY <2>0, <3>3, <4>3 DEF Met
      <4>5. e <= last
        BY <2>1, <4>3, <4>4
      <4>6. e <= sent
        BY <1>0, <1>9, <3>1, <4>1 DEF Batch
      <4> QED
        BY <1>0, <2>1, <2>2, <4>1, <4>2, <4>5, <4>6 DEF Disturbed
    <3> QED
      BY <3>2, <3>3
  <2>6. \A e \in Batch(h)' : e \in (acked + 1)..last
    BY <2>1 DEF Batch
  <2> QED
    BY <2>3, <2>4, <2>5, <2>6 DEF RepeatSound, Disturbed
<1>2. CASE MacroStep
  <2>1. /\ UNCHANGED <<sent, repeated, handler, log>>
        /\ appended' \in appended..MaxEvents /\ acked' \in acked..appended'
        /\ dropped' = dropped \cup (acked + 1)..acked'
        /\ \A t \in Flusher : flight'[t] \in {flight[t], None}
    BY <1>2, MacroMove
  <2>2. ASSUME NEW h \in Handler PROVE RepeatSound'
    <3>1. Others(h) /\ appended' \in Nat
      BY <1>0, <2>1 DEF Others
    <3>2. Awaited(h)' => Awaited(h)
      BY <2>1 DEF Awaited
    <3>3. (Active(h)' <=> Active(h)) /\ Batch(h)' = Batch(h)
      BY <2>1 DEF Active, Batch
    <3> QED
      BY <2>1, <3>1, <3>2, <3>3, RepeatKept
  <2>3. CASE Handler = {}
    BY <2>1, <2>3 DEF RepeatSound
  <2> QED
    BY <2>2, <2>3
<1>3. CASE Outside
  <2>1. UNCHANGED <<acked, flight, sent, repeated, dropped, handler, log>>
    BY <1>3, OutsideMove DEF macro
  <2> QED
    BY <2>1 DEF RepeatSound, Met, Active, Awaited, Batch, Disturbed
<1>4. ASSUME NEW h \in Handler, HandlerStep(h) PROVE RepeatSound'
  <2>1. ASSUME Inside(h), Active(h), log' = log \/ (log' = log \cup ToStore(h) /\ ~Active(h)')
        PROVE  RepeatSound'
    <3>1. /\ Others(h) /\ Batch(h)' = Batch(h) /\ handler'[h].last = handler[h].last
          /\ UNCHANGED <<sent, repeated, dropped, acked, appended, flight>>
      BY <2>1 DEF Inside, macro, Batch
    <3>2. \A d \in log' \ log : d.event \in Batch(h) /\ ~Active(h)'
      BY <2>1, StoredEvents
    <3>3. acked' \in acked..appended' /\ \A e \in (acked + 1)..acked' : FALSE
      BY <1>0, <3>1
    <3> QED
      BY <1>0, <2>1, <3>1, <3>2, <3>3, RepeatKept
  <2>2. CASE ReadSettings(h) \/ ReadBiomes(h) \/ DispatchStarted(h) \/ DispatchEnded(h)
                             \/ FindDuration(h) \/ UnknownBiome(h)
    <3>1. Inside(h) /\ log' = log /\ Active(h)
      <4>1. CASE ReadSettings(h) \/ FindDuration(h) \/ UnknownBiome(h)
        BY <4>1, ReadSettingsMove, FindDurationMove, UnknownMove DEF Active
      <4>2. CASE ReadBiomes(h)
        <5>1. clock < Budget
          BY <4>2, Room DEF ReadBiomes, Waiting, At
        <5> QED
          BY <4>2, <5>1, ReadBiomesMove DEF Active
      <4>3. CASE DispatchStarted(h) \/ DispatchEnded(h)
        <5>1. handler[h].next <= handler[h].last
          BY <4>3 DEF DispatchStarted, DispatchEnded, FramesSound, FrameSound, Active, At
        <5> QED
          BY <4>3, <5>1, DispatchMove DEF Active
      <4> QED
        BY <2>2, <4>1, <4>2, <4>3
    <3> QED
      BY <2>1, <3>1
  <2>3. CASE Insert(h)
    <3>1. Inside(h) /\ Active(h) /\ ~Active(h)' /\ log' = log \cup ToStore(h)
      BY <2>3, InsertMove DEF Active
    <3> QED
      BY <2>1, <3>1
  <2>4. CASE EndStep(h)
    <3>1. /\ Others(h) /\ ~Active(h)'
          /\ \A t \in Flusher : flight'[t] \in {flight[t], None} /\ flight'[t] # h
          /\ UNCHANGED <<sent, repeated, appended>>
      BY <2>4, EndMove DEF Active
    <3>2. /\ acked' \in acked..appended /\ dropped \subseteq dropped'
          /\ \A e \in (acked + 1)..acked' :
               e \in dropped' \/ (Awaited(h) /\ e \in Batch(h))
      BY <2>4, PopMove
    <3>3. \A d \in log' \ log : Active(h) /\ d.event \in Batch(h)
      <4>1. CASE log' = log
        BY <4>1
      <4>2. CASE At(h, "insert") /\ \E part \in SUBSET ToStore(h) : log' = log \cup part
        BY <4>2, StoredEvents DEF At, Active
      <4> QED
        BY <2>4, <4>1, <4>2, EndMove
    <3>4. ~Awaited(h)'
      BY <3>1 DEF Awaited
    <3> QED
      BY <1>0, <3>1, <3>2, <3>3, <3>4, RepeatKept
  <2> QED
    BY <1>4, <2>2, <2>3, <2>4 DEF HandlerStep, EndStep
<1> QED
  BY <1>1, <1>2, <1>3, <1>4, Steps

\* Storing any part of a batch.
LEMMA OrderStored ==
  ASSUME TypeOK, FramesSound, RepeatSound, OrderSound, NEW h \in Handler, At(h, "insert"),
         Others(h), ~Stamped(h)', Disturbed \subseteq Disturbed',
         NEW part \in SUBSET ToStore(h), log' = log \cup part
  PROVE  OrderSound'
<1> USE RelayAssumption
<1>0. /\ acked \in Nat /\ handler[h].stamp \in Nat
      /\ \A g \in Handler : handler[g].first \in Nat /\ handler[g].last \in Nat
      /\ \A d \in log : d.event \in Nat /\ d.stamp \in Nat
  BY DEF TypeOK, Frame, Event
<1>1. Active(h) /\ Stamped(h)
  BY DEF At, Active, Stamped
<1>2. \A d \in part : d.event \in Batch(h) /\ d.event \in Nat /\ d.stamp = handler[h].stamp
  BY <1>0, StoredEvents DEF Batch
<1>3. ASSUME NEW c \in log', NEW d \in log', c.event < d.event, c.event \notin Disturbed'
      PROVE  c.stamp <= d.stamp
  <2>1. CASE c \in log /\ d \in log
    BY <1>3, <2>1 DEF OrderSound
  <2>2. CASE c \in part /\ d \in part
    BY <1>0, <1>2, <2>2
  <2>3. CASE c \in part /\ d \in log
    <3>1. c.event <= d.event
      BY <1>0, <1>2, <1>3, <2>3
    <3> QED
      BY <1>1, <1>2, <1>3, <2>3, <3>1 DEF RepeatSound, Met
  <2>4. CASE c \in log /\ d \in part
    <3>1. CASE c.event < handler[h].first
      BY <1>1, <1>2, <1>3, <2>4, <3>1 DEF OrderSound
    <3>2. CASE ~(c.event < handler[h].first)
      <4>1. c.event \in Batch(h) /\ c.event <= c.event
        BY <1>0, <1>2, <1>3, <2>4, <3>2 DEF Batch
      <4> QED
        BY <1>1, <1>3, <2>4, <4>1 DEF RepeatSound, Met
    <3> QED
      BY <3>1, <3>2
  <2> QED
    BY <2>1, <2>2, <2>3, <2>4
<1>4. ASSUME NEW g \in Handler, NEW d \in log', Stamped(g)', d.event < handler'[g].first,
             d.event \notin Disturbed'
      PROVE  d.stamp <= handler'[g].stamp
  <2>1. g # h /\ handler'[g] = handler[g] /\ Stamped(g) /\ Active(g)
    BY <1>4 DEF Others, Stamped, Active
  <2>2. CASE d \in log
    BY <1>4, <2>1, <2>2 DEF OrderSound
  <2>3. CASE d \in part
    <3>1. handler[g].first <= acked + 1
      BY <1>0, <2>1 DEF FramesSound, BatchSound, Active
    <3>2. d.event <= acked
      BY <1>0, <1>2, <1>4, <2>1, <2>3, <3>1
    <3> QED
      BY <1>1, <1>2, <1>4, <2>3, <3>2 DEF RepeatSound, Met
  <2> QED
    BY <2>2, <2>3
<1> QED
  BY <1>3, <1>4 DEF OrderSound

\* A step that stores nothing, of a request with no stamp after it or the same.
LEMMA OrderKept ==
  ASSUME OrderSound, NEW h \in Handler, Others(h), log' = log, Disturbed \subseteq Disturbed',
         Stamped(h)' => /\ Stamped(h) /\ handler'[h].stamp = handler[h].stamp
                        /\ handler'[h].first = handler[h].first
  PROVE  OrderSound'
<1>1. ASSUME NEW g \in Handler, Stamped(g)'
      PROVE  /\ Stamped(g) /\ handler'[g].stamp = handler[g].stamp
             /\ handler'[g].first = handler[g].first
  BY <1>1 DEF Others, Stamped
<1> QED
  BY <1>1 DEF OrderSound

LEMMA OrderStep ==
  ASSUME TypeOK, FramesSound, BudgetSound, RepeatSound, OrderSound, [Next]_vars
  PROVE  OrderSound'
<1>1. ASSUME NEW t \in Flusher, NEW h \in Handler, Post(t, h) PROVE OrderSound'
  <2>1. /\ Others(h) /\ ~Stamped(h)' /\ log' = log
        /\ repeated \subseteq repeated' /\ dropped' = dropped
    BY <1>1, PostMove DEF Stamped
  <2>2. Disturbed \subseteq Disturbed'
    BY <2>1 DEF Disturbed
  <2> QED
    BY <2>1, <2>2, OrderKept
<1>2. CASE MacroStep \/ Outside
  <2>1. UNCHANGED <<handler, log, repeated>> /\ dropped \subseteq dropped'
    BY <1>2, MacroMove, OutsideMove DEF macro
  <2> QED
    BY <2>1 DEF OrderSound, Stamped, Disturbed
<1>3. ASSUME NEW h \in Handler, HandlerStep(h) PROVE OrderSound'
  <2>0. Inside(h) => Others(h) /\ Disturbed' = Disturbed /\ handler'[h].first = handler[h].first
    BY DEF Inside, macro, Disturbed
  <2>1. CASE ReadSettings(h)
    BY <2>0, <2>1, ReadSettingsMove, OrderKept DEF Stamped
  <2>2. CASE ReadBiomes(h)
    <3>0. clock < Budget
      BY <2>2, Room DEF ReadBiomes, Waiting, At
    <3>1. Inside(h) /\ handler'[h].stamp = clock + 1 /\ log' = log
      BY <2>2, <3>0, ReadBiomesMove
    <3>2. Others(h) /\ Disturbed' = Disturbed
      BY <2>0, <3>1
    <3>3. \A d \in log : d.stamp <= handler'[h].stamp
      BY <3>1, RelayAssumption DEF TypeOK
    <3>4. ASSUME NEW g \in Handler \ {h}, Stamped(g)' PROVE Stamped(g) /\ handler'[g] = handler[g]
      BY <3>2, <3>4 DEF Others, Stamped
    <3> QED
      BY <3>1, <3>2, <3>3, <3>4 DEF OrderSound
  <2>3. CASE DispatchStarted(h) \/ DispatchEnded(h)
    <3>1. handler[h].next <= handler[h].last /\ Stamped(h)
      BY <2>3 DEF DispatchStarted, DispatchEnded, FramesSound, FrameSound, Active, Stamped, At
    <3> QED
      BY <2>0, <2>3, <3>1, DispatchMove, OrderKept
  <2>4. CASE FindDuration(h) \/ UnknownBiome(h)
    BY <2>0, <2>4, FindDurationMove, UnknownMove, OrderKept DEF Stamped
  <2>5. CASE Insert(h)
    <3>1. /\ Others(h) /\ ~Stamped(h)' /\ At(h, "insert") /\ Disturbed' = Disturbed
          /\ log' = log \cup ToStore(h)
      BY <2>0, <2>5, InsertMove DEF Stamped, At
    <3> QED
      BY <3>1, OrderStored
  <2>6. CASE EndStep(h)
    <3>1. Others(h) /\ ~Stamped(h)' /\ repeated' = repeated /\ dropped \subseteq dropped'
      BY <2>6, EndMove, PopMove DEF Stamped
    <3>2. Disturbed \subseteq Disturbed'
      BY <3>1 DEF Disturbed
    <3>3. CASE log' = log
      BY <3>1, <3>2, <3>3, OrderKept
    <3>4. CASE At(h, "insert") /\ \E part \in SUBSET ToStore(h) : log' = log \cup part
      BY <3>1, <3>2, <3>4, OrderStored
    <3> QED
      BY <2>6, <3>3, <3>4, EndMove
  <2> QED
    BY <1>3, <2>1, <2>2, <2>3, <2>4, <2>5, <2>6 DEF HandlerStep, EndStep
<1> QED
  BY <1>1, <1>2, <1>3, Steps

\* Why a look-up for event e, of a batch from `first` on, may find f.
Explained(first, e, f) ==
  \/ SameStamp(f, started[e])
  \/ started[e] = Unseen
  \/ first <= started[e] \/ started[e] \in rejected \cup dropped
  \/ f \in (started[e] + 1)..(e - 1)
  \/ {e, f} \cap (repeated \cup dropped) # {}

Durations ==
  \A h \in Handler :
    At(h, "put") /\ handler[h].found # 0 =>
      Explained(handler[h].first, handler[h].next, handler[h].found)

LEMMA DurationsExplained == DurationExplained <=> Durations
BY DEF DurationExplained, Durations, Explained

\* What explains a duration goes on to explain it.
LEMMA ExplainedKept ==
  ASSUME started' = started, log \subseteq log', rejected \subseteq rejected',
         repeated \subseteq repeated', dropped \subseteq dropped', NEW first, NEW e, NEW f, Explained(first, e, f)
  PROVE  Explained(first, e, f)'
<1>1. SameStamp(f, started[e]) => SameStamp(f, started[e])'
  BY DEF SameStamp
<1> QED
  BY <1>1 DEF Explained

\* The cause, if what a look-up finds is not the matching `started` event.
LEMMA Found ==
  ASSUME TypeOK, FramesSound, RepeatSound, OrderSound, AuditTruthful, NEW h \in Handler,
         At(h, "event"), started[handler[h].next] # 0,
         NEW df \in Latest({d \in log : started[d.event] = 0})
  PROVE  Explained(handler[h].first, handler[h].next, df.event)
<1> USE RelayAssumption
<1> DEFINE e == handler[h].next
           s == started[e]
<1>1. /\ FrameSound(h) /\ Active(h) /\ e \in handler[h].first..handler[h].last
      /\ e \in Event /\ handler[h].first \in Nat /\ acked \in Nat /\ handler[h].first <= acked + 1
  <2>1. FrameSound(h) /\ BatchSound(h) /\ Active(h) /\ e <= handler[h].last
    BY DEF FramesSound, FrameSound, Active, At
  <2>2. /\ handler[h].first \in Nat /\ handler[h].last \in Nat /\ acked \in Nat
        /\ handler[h].last <= MaxEvents /\ handler[h].first >= 1 /\ e \in Nat
    BY <2>1 DEF BatchSound, TypeOK, Frame
  <2> QED
    BY <2>1, <2>2 DEF BatchSound, FrameSound, Event
<1>2. s = Unseen \/ (s \in Event /\ started[s] = 0)
  <2>1. started \in Stream
    BY DEF TypeOK
  <2>2. s = Unseen \/ s \in 1..MaxEvents
    BY <1>1, <2>1 DEF Stream
  <2> QED
    BY <1>1, <2>1, <2>2 DEF Event, Stream
<1> HIDE DEF e, s
<1>3. /\ df \in log /\ df.event \in Event /\ df.stamp \in Nat
      /\ \A d \in log : started[d.event] = 0 => d.stamp <= df.stamp
  BY DEF Latest, TypeOK
<1>4. SUFFICES ASSUME ~(handler[h].first <= s), s \notin rejected \cup dropped, s # Unseen,
                      ~SameStamp(df.event, s)
               PROVE  df.event \in (s + 1)..(e - 1) \/ {e, df.event} \cap Disturbed # {}
  BY DEF e, s, Explained, Disturbed
<1>5. PICK ds \in log : ds.event = s
  <2>1. s \in 1..acked
    BY <1>1, <1>2, <1>4 DEF Event, Unseen
  <2> QED
    BY <1>4, <2>1 DEF AuditTruthful
<1>6. ds.stamp < df.stamp /\ df.event # s
  <2>1. ds.stamp <= df.stamp /\ ds.stamp \in Nat
    BY <1>2, <1>3, <1>4, <1>5 DEF TypeOK
  <2>2. ds.stamp # df.stamp
    BY <1>3, <1>4, <1>5 DEF SameStamp
  <2>3. df.event # s
    BY <1>4, <1>5 DEF SameStamp
  <2> QED
    BY <1>3, <2>1, <2>2, <2>3
<1>7. CASE df.event < s
  <2>1. ds.stamp \in Nat
    BY DEF TypeOK
  <2>2. df.event \notin Disturbed => df.stamp <= ds.stamp
    BY <1>3, <1>5, <1>7 DEF OrderSound
  <2> QED
    BY <1>3, <1>6, <2>1, <2>2
<1>8. CASE e <= df.event
  <2>1. Met(e, h) /\ e \in Batch(h)
    BY <1>1, <1>3, <1>8 DEF Met, Batch
  <2> QED
    BY <1>1, <2>1 DEF RepeatSound
<1>9. CASE ~(df.event < s) /\ ~(e <= df.event)
  BY <1>1, <1>2, <1>3, <1>4, <1>6, <1>9 DEF Event
<1> QED
  BY <1>7, <1>8, <1>9

LEMMA DurationStep ==
  ASSUME TypeOK, FramesSound, BudgetSound, AuditTruthful, RepeatSound, OrderSound,
         DurationExplained, [Next]_vars
  PROVE  DurationExplained'
<1>0. Durations
  BY DurationsExplained
<1>1. ASSUME NEW h \in Handler, Others(h), started' = started, log \subseteq log',
             rejected \subseteq rejected', repeated \subseteq repeated',
             dropped \subseteq dropped',
             At(h, "put")' /\ handler'[h].found # 0 =>
               Explained(handler'[h].first, handler'[h].next, handler'[h].found)
      PROVE  DurationExplained'
  <2>1. ASSUME NEW g \in Handler, At(g, "put")', handler'[g].found # 0
        PROVE  Explained(handler'[g].first, handler'[g].next, handler'[g].found)
    BY <1>0, <1>1, <2>1 DEF Others, At, Durations
  <2>2. ASSUME NEW g \in Handler, At(g, "put")', handler'[g].found # 0
        PROVE  Explained(handler[g].first, handler[g].next, handler[g].found)'
    <3>1. \A first, e, f : Explained(first, e, f) => Explained(first, e, f)'
      BY <1>1, ExplainedKept
    <3>2. \A first, e, f : Explained(first, e, f)' =>
            (handler'[g].first = first /\ handler'[g].next = e /\ handler'[g].found = f =>
              Explained(handler[g].first, handler[g].next, handler[g].found)')
      BY DEF Explained, SameStamp
    <3> QED
      BY <2>1, <2>2, <3>1, <3>2
  <2>3. Durations'
    BY <2>2 DEF Durations
  <2> QED
    BY <2>3, DurationsExplained, PTL
<1>2. ASSUME NEW t \in Flusher, NEW h \in Handler, Post(t, h) PROVE DurationExplained'
  <2>1. /\ Others(h) /\ ~At(h, "put")' /\ UNCHANGED <<started, log, rejected, dropped>>
        /\ repeated \subseteq repeated'
    BY <1>2, PostMove DEF At
  <2> QED
    BY <1>1, <2>1
<1>3. CASE MacroStep \/ Outside
  <2>1. /\ UNCHANGED <<handler, started, log, rejected, repeated>> /\ dropped \subseteq dropped'
    BY <1>3, MacroMove, OutsideMove DEF macro
  <2>2. \A c, d : SameStamp(c, d)' <=> SameStamp(c, d)
    BY <2>1 DEF SameStamp
  <2> QED
    BY <2>1, <2>2 DEF DurationExplained, At
<1>4. ASSUME NEW h \in Handler, HandlerStep(h) PROVE DurationExplained'
  <2>1. CASE FindDuration(h)
    <3>1. /\ Inside(h) /\ handler[h].pc = "event" /\ handler'[h].pc = "put"
          /\ handler'[h].next = handler[h].next /\ started[handler[h].next] # 0
          /\ handler'[h].found \in {0} \cup {d.event : d \in {p \in
               Latest({d \in log : started[d.event] = 0}) : p.stamp < handler[h].stamp}}
          /\ log' = log
      BY <2>1, FindDurationMove
    <3>2. /\ Others(h) /\ handler'[h].first = handler[h].first
          /\ UNCHANGED <<started, rejected, repeated, dropped>>
      BY <3>1 DEF Inside, macro
    <3>3. handler'[h].found # 0 =>
            \E df \in Latest({d \in log : started[d.event] = 0}) : handler'[h].found = df.event
      BY <3>1
    <3>4. handler'[h].found # 0 =>
            Explained(handler[h].first, handler[h].next, handler'[h].found)
      BY <3>1, <3>3, Found DEF At
    <3> QED
      BY <1>1, <3>1, <3>2, <3>4
  <2>2. CASE ReadSettings(h)
    BY <1>1, <2>2, ReadSettingsMove DEF Inside, At, macro
  <2>3. CASE ReadBiomes(h)
    <3>1. clock < Budget
      BY <2>3, Room DEF ReadBiomes, Waiting, At
    <3> QED
      BY <1>1, <2>3, <3>1, ReadBiomesMove DEF Inside, At, macro
  <2>4. CASE DispatchStarted(h) \/ DispatchEnded(h)
    <3>1. handler[h].next <= handler[h].last
      BY <2>4 DEF DispatchStarted, DispatchEnded, FramesSound, FrameSound, Active, At
    <3> QED
      BY <1>1, <2>4, <3>1, DispatchMove DEF Inside, At, macro
  <2>5. CASE Insert(h) \/ UnknownBiome(h)
    BY <1>1, <2>5, InsertMove, UnknownMove DEF Inside, At, macro
  <2>6. CASE EndStep(h)
    <3>1. /\ Others(h) /\ ~At(h, "put")' /\ UNCHANGED <<started, repeated>>
          /\ log \subseteq log'
      BY <2>6, EndMove DEF At
    <3>2. rejected \subseteq rejected' /\ dropped \subseteq dropped'
      BY <2>6, PopMove
    <3> QED
      BY <1>1, <3>1, <3>2
  <2> QED
    BY <1>4, <2>1, <2>2, <2>3, <2>4, <2>5, <2>6 DEF HandlerStep, EndStep
<1> QED
  BY <1>2, <1>3, <1>4, Steps

-----------------------------------------------------------------------------
(* The theorems. *)

LEMMA RelayCorrect == Spec => []RelaySound
<1>1. Init => RelaySound
  BY InitTyped, FramesInit, FlagInit, AuditInit, RepeatInit DEF RelaySound
<1>2. RelaySound /\ [Next]_vars => RelaySound'
  BY TypeStep, FramesStep, BudgetStep, FlagStep, StampStep, AuditStep, RepeatStep, OrderStep,
     DurationStep DEF RelaySound
<1> QED
  BY <1>1, <1>2, PTL DEF Spec

\* The webhooks, stamps and events of every request, delivery and document are ones the
\* program has made, and a biome that was deleted has neither webhook nor flag.
THEOREM TypeCorrect == Spec => []TypeOK
<1>1. RelaySound => TypeOK
  BY DEF RelaySound
<1> QED
  BY <1>1, RelayCorrect, PTL

\* However flushes and requests overlap, fail half-way or outlive their client: an event that
\* left the macro's buffer is in the audit log, was refused with its batch, or left it without
\* an answer to its own batch (overwritten, popped for another flush, or lost with the macro);
\* and the log tells which events were queued.
THEOREM AuditIsTruthful == Spec => []AuditTruthful
<1>1. RelaySound => AuditTruthful
  BY DEF RelaySound
<1> QED
  BY <1>1, RelayCorrect, PTL

\* However many batches, resends, flushes and requests at once: `_find_duration` is wrong
\* about the matching `started` event only for one of the named causes.
THEOREM DurationIsExplained == Spec => []DurationExplained
<1>1. RelaySound => DurationExplained
  BY DEF RelaySound
<1> QED
  BY <1>1, RelayCorrect, PTL

\* Whatever edits overtake a delivery: `webhook_broken` is up for a webhook that is gone and
\* on the document now, or for one of the named causes.
THEOREM FlagIsExplained == Spec => []FlagExplained
<1>1. RelaySound => FlagExplained
  BY DEF RelaySound, FlagSound, DocSound, FlagExplained, TypeOK
<1> QED
  BY <1>1, RelayCorrect, PTL
=============================================================================
