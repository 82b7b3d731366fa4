------------------------------- MODULE Relay -------------------------------
(***************************************************************************)
(* From a macro's POST /events to the webhook: the server's handler        *)
(* (routes/macro.py), the choice of the webhook and the duration of an     *)
(* `ended` alert (dispatch.py), the audit log, the broken flags, and the   *)
(* dashboard and bot edits of webhooks (routes/admin.py, cogs/setup.py,    *)
(* cogs/keys.py).  The queue's order and retries are Dispatcher's subject. *)
(*                                                                         *)
(* One member and one rare biome: common ones are neither stored nor looked*)
(* up.  Events are numbered in the order they enter the macro's buffer,    *)
(* which the consumer and the heartbeat flush, at once or in turn (how     *)
(* events get there and when the tasks run is NetWorker's subject).  Each  *)
(* await of a handler is a gap, and the handler goes on when its client    *)
(* has given up.  Webhooks are numbered as created, 0 is none.             *)
(***************************************************************************)
EXTENDS Integers

CONSTANTS
  Flusher,     \* the macro's tasks that call _flush
  Handler,     \* requests served at once
  MaxPending,  \* maxlen of the macro's _pending
  BatchSize,   \* events per POST
  MaxEvents,   \* bound on events
  Streams,     \* what the events may be, see Stream
  FirstModes,  \* modes at the start
  Budget       \* bound on POSTs, exits, edits and deletions of webhooks together

Event == 1..MaxEvents
Unseen == -1

\* For each event 0 if it is a `started`, else the `started` it ends: Unseen when the
\* watcher only replayed that one in silence, so that it was never put.
Stream == {s \in [Event -> {Unseen} \cup 0..MaxEvents] :
             \A e \in Event : s[e] < e /\ (s[e] \in Event => s[s[e]] = 0)}

Mode == {"single_channel", "per_biome_channels", "per_user_channels",
         "direct"}                        \* per_user_channels with relay off
Doc == {"settings", "biome", "user"}      \* documents that hold webhooks and a flag
Slot == {"primary", "extra", "biome", "user"}
DocOf(slot) == IF slot \in {"primary", "extra"} THEN "settings" ELSE slot
None == "none"

ASSUME RelayAssumption ==
  /\ MaxPending \in Nat \ {0} /\ BatchSize \in Nat \ {0}
  /\ MaxEvents \in Nat /\ Budget \in Nat /\ Streams \subseteq Stream /\ FirstModes \subseteq Mode
  /\ None \notin Handler

VARIABLES
  budget,    \* POSTs, exits, edits and deletions left
  started,   \* the stream: for each event its `started` event
  appended,  \* events that entered the macro's buffer
  acked,     \* events that left it: _pending is acked + 1 .. appended
  flight,    \* [Flusher -> the handler whose answer its POST waits for]
  handler,   \* [Handler -> where it is, and its local variables]
  clock,     \* utcnow(): each handler reads a later one
  log,       \* db.events
  mode,      \* dispatch_mode and relay of the settings
  hook,      \* [Slot -> webhook]
  made,      \* webhooks created so far
  known,     \* the biome's document exists
  broken,    \* documents whose broken flag is up
  gone,      \* external: webhooks deleted in Discord
  queue,     \* deliveries not ended, by webhook and document
  marking,   \* documents some worker is about to flag
  tests,     \* webhooks read by a send_test that has not queued it yet, with the document
  creating,  \* webhooks of the member that some /key create has read
  alerts,    \* history: event and time stamp of each alert put on the queue
  rejected,  \* history: events popped by the 422 that answers their own batch
  dropped,   \* history: events that left the buffer without an answer to their batch
  sent,      \* history: the last event ever sent
  repeated,  \* history: events sent more than once
  stale      \* history: documents whose flag may be another webhook's

macro == <<appended, acked, flight, sent, repeated, dropped>>
hooks == <<mode, hook, made, known, creating>>
flags == <<broken, gone, queue, marking, tests, stale>>
vars == <<budget, started, macro, handler, clock, log, hooks, flags, alerts, rejected>>

Idle == [pc |-> "idle", first |-> 0, last |-> 0, next |-> 0, stamp |-> 0,
         doc |-> None, hooks |-> {}, found |-> 0]
Frame == [pc : {"idle", "settings", "biomes", "event", "put", "insert", "update", "unknown"},
          first : 0..MaxEvents, last : 0..MaxEvents, next : 0..(MaxEvents + 1), stamp : 0..Budget,
          doc : Doc \cup {None}, hooks : SUBSET (Nat \ {0}), found : 0..MaxEvents]

\* Types; the buffer is bounded, and a flag is up only on a document.
TypeOK ==
  /\ budget \in 0..Budget /\ started \in Streams
  /\ appended \in 0..MaxEvents /\ acked \in 0..appended /\ sent \in 0..appended
  /\ appended - acked <= MaxPending
  /\ flight \in [Flusher -> Handler \cup {None}]
  /\ handler \in [Handler -> Frame] /\ clock \in 0..Budget
  /\ log \subseteq [event : Event, stamp : 1..clock, dispatched : BOOLEAN]
  /\ mode \in Mode /\ hook \in [Slot -> 0..made] /\ made \in Nat
  /\ known \in BOOLEAN /\ (~known => hook["biome"] = 0 /\ "biome" \notin broken)
  /\ broken \subseteq Doc /\ gone \subseteq 1..made
  /\ queue \cup tests \subseteq [hook : 1..made, doc : Doc] /\ marking \subseteq Doc
  /\ creating \subseteq 0..made
  /\ alerts \subseteq [event : Event, stamp : 1..clock]
  /\ rejected \cup dropped \cup repeated \subseteq Event /\ stale \subseteq Doc

Init ==
  /\ budget = Budget /\ started \in Streams
  /\ appended = 0 /\ acked = 0 /\ flight = [t \in Flusher |-> None]
  /\ sent = 0 /\ repeated = {} /\ dropped = {}
  /\ handler = [h \in Handler |-> Idle] /\ clock = 0 /\ log = {}
  /\ mode \in FirstModes /\ known = TRUE /\ made = 3
  /\ hook = [primary |-> 1, extra |-> 0, biome |-> 2, user |-> 3]
  /\ broken = {} /\ gone = {} /\ queue = {} /\ marking = {} /\ stale = {}
  /\ tests = {} /\ creating = {}
  /\ alerts = {} /\ rejected = {}

Spend == budget > 0 /\ budget' = budget - 1
HooksOf(doc) == {hook[s] : s \in {t \in Slot : DocOf(t) = doc}} \ {0}
Later(a, b) == IF a > b THEN a ELSE b
Sooner(a, b) == IF a < b THEN a ELSE b

-----------------------------------------------------------------------------
(* The macro. *)

\* _handle_event: the deque pushes its oldest event out when it is full.
Buffer ==
  /\ appended < MaxEvents
  /\ appended' = appended + 1
  /\ acked' = Later(acked, appended + 1 - MaxPending)
  /\ dropped' = dropped \cup (acked + 1)..acked'
  /\ UNCHANGED <<budget, started, flight, sent, repeated, handler, clock, log, hooks, flags,
                 alerts, rejected>>

\* _flush of one task sends the front of the buffer, whatever the other task has in
\* flight; auth has read the user's document.
Post(t, h) ==
  /\ Spend
  /\ flight[t] = None /\ handler[h] = Idle /\ acked < appended
  /\ flight' = [flight EXCEPT ![t] = h]
  /\ LET last == Sooner(appended, acked + BatchSize) IN
       /\ sent' = Later(sent, last)
       /\ repeated' = repeated \cup ((acked + 1)..last \cap 1..sent)
       /\ handler' = [handler EXCEPT ![h] =
            [Idle EXCEPT !.pc = "settings", !.first = acked + 1, !.last = last,
                         !.next = acked + 1, !.doc = "user", !.hooks = HooksOf("user")]]
  /\ UNCHANGED <<started, appended, acked, dropped, clock, log, hooks, flags, alerts, rejected>>

\* The 15 s timeout of the macro's session: the batch stays in the buffer.
GiveUp(t) ==
  /\ flight[t] # None
  /\ flight' = [flight EXCEPT ![t] = None]
  /\ UNCHANGED <<budget, started, appended, acked, sent, repeated, dropped, handler, clock, log,
                 hooks, flags, alerts, rejected>>

\* The macro ends.  Its buffer was in memory only; the next one starts with none.
Exit ==
  /\ Spend
  /\ acked < appended
  /\ acked' = appended
  /\ dropped' = dropped \cup (acked + 1)..appended
  /\ flight' = [t \in Flusher |-> None]
  /\ UNCHANGED <<started, appended, sent, repeated, handler, clock, log, hooks, flags, alerts,
                 rejected>>

Awaited(h) == \E t \in Flusher : flight[t] = h
Batch(h) == handler[h].first..handler[h].last

\* `for _ in batch: popleft()`: as many events as were sent, of the buffer as it is by
\* now; popleft raises when it is empty, which the callers of _flush log.
AfterPop(h) == Sooner(appended, acked + 1 + handler[h].last - handler[h].first)

\* The handler of h has ended, and who waits for its answer does so no more.
Ended(h) ==
  /\ handler' = [handler EXCEPT ![h] = Idle]
  /\ flight' = [t \in Flusher |-> IF flight[t] = h THEN None ELSE flight[t]]
  /\ UNCHANGED <<appended, sent, repeated>>

\* It ends with a 200 or, if `refused`, a 422.
Return(h, refused) ==
  /\ Ended(h)
  /\ acked' = IF Awaited(h) THEN AfterPop(h) ELSE acked
  /\ LET popped == (acked + 1)..acked' IN
       /\ dropped' = dropped \cup (popped \ Batch(h))
       /\ rejected' = rejected \cup IF refused THEN popped \cap Batch(h) ELSE {}

-----------------------------------------------------------------------------
(* post_events *)

At(h, pc) == handler[h].pc = pc

\* The document the mode takes webhooks from; none when the macro posts itself.
SourceOf(m) ==
  CASE m = "single_channel" -> "settings"
    [] m = "per_biome_channels" -> "biome"
    [] m = "per_user_channels" -> "user"
    [] m = "direct" -> None

\* get_settings: the mode, and the shared webhooks it may need.
ReadSettings(h) ==
  /\ At(h, "settings")
  /\ LET doc == SourceOf(mode) IN
       handler' = [handler EXCEPT ![h] =
         [@ EXCEPT !.pc = "biomes", !.doc = doc,
                   !.hooks = CASE doc = "settings" -> HooksOf(doc)
                               [] doc = "user" -> handler[h].hooks
                               [] OTHER -> {}]]
  /\ UNCHANGED <<budget, started, macro, clock, log, hooks, flags, alerts, rejected>>

\* db.biomes.find and utcnow().  Without a webhook, or in the direct flow, the loop
\* queues nothing.
ReadBiomes(h) ==
  /\ At(h, "biomes") /\ known
  /\ clock' = clock + 1
  /\ LET found == IF handler[h].doc = "biome" THEN HooksOf("biome") ELSE handler[h].hooks IN
       handler' = [handler EXCEPT ![h] =
         [@ EXCEPT !.pc = IF found = {} THEN "insert" ELSE "event",
                   !.stamp = clock + 1, !.hooks = found]]
  /\ UNCHANGED <<budget, started, macro, log, hooks, flags, alerts, rejected>>

\* What matters of the handler when only its answer is to come.
Answering(h, pc) == [Idle EXCEPT !.pc = pc, !.first = handler[h].first, !.last = handler[h].last]

\* The answer will be a 422.
UnknownBiome(h) ==
  /\ At(h, "biomes") /\ ~known
  /\ handler' = [handler EXCEPT ![h] = Answering(h, "unknown")]
  /\ UNCHANGED <<budget, started, macro, clock, log, hooks, flags, alerts, rejected>>

\* The next round of the loop, or the insert after the last.
Advance(h) ==
  handler' = [handler EXCEPT ![h] =
    [@ EXCEPT !.found = 0, !.next = handler[h].next + 1,
              !.pc = IF handler[h].next = handler[h].last THEN "insert" ELSE "event"]]

\* build_payload: the event, and the server_ts of its embed.
Payload(h) == [event |-> handler[h].next, stamp |-> handler[h].stamp]

\* _put, with one of the webhooks: `_rr` goes round them.
Enqueue(h) ==
  /\ \E url \in handler[h].hooks :
       queue' = queue \cup {[hook |-> url, doc |-> handler[h].doc]}
  /\ alerts' = alerts \cup {Payload(h)}
  /\ UNCHANGED <<broken, gone, marking, tests, stale>>

\* `started` is queued at once.
DispatchStarted(h) ==
  /\ At(h, "event") /\ started[handler[h].next] = 0
  /\ Enqueue(h)
  /\ Advance(h)
  /\ UNCHANGED <<budget, started, macro, clock, log, hooks, rejected>>

\* sort=[("server_ts", -1)]; the documents of one request share their stamp.
Latest(docs) == {d \in docs : \A o \in docs : o.stamp <= d.stamp}

\* _find_duration: the latest `started` on record, whosever it is; none if it is not
\* before this request, or more than six hours ago.
FindDuration(h) ==
  /\ At(h, "event") /\ started[handler[h].next] # 0
  /\ LET previous == Latest({d \in log : started[d.event] = 0}) IN
       \E f \in {0} \cup {d.event : d \in {p \in previous : p.stamp < handler[h].stamp}} :
         handler' = [handler EXCEPT ![h] = [@ EXCEPT !.pc = "put", !.found = f]]
  /\ UNCHANGED <<budget, started, macro, clock, log, hooks, flags, alerts, rejected>>

\* `ended` is queued when the look-up has returned.
DispatchEnded(h) ==
  /\ At(h, "put")
  /\ Enqueue(h)
  /\ Advance(h)
  /\ UNCHANGED <<budget, started, macro, clock, log, hooks, rejected>>

\* `dispatched` is what enqueue_event answered: whether it found a webhook.
ToStore(h) ==
  {[event |-> e, stamp |-> handler[h].stamp, dispatched |-> handler[h].hooks # {}] :
     e \in Batch(h)}

\* insert_many
Insert(h) ==
  /\ At(h, "insert")
  /\ log' = log \cup ToStore(h)
  /\ handler' = [handler EXCEPT ![h] = Answering(h, "update")]
  /\ UNCHANGED <<budget, started, macro, clock, hooks, flags, alerts, rejected>>

InsertFails_Swallowed(h) ==
  /\ At(h, "insert")
  /\ \E part \in SUBSET ToStore(h) : log' = log \cup part
  /\ handler' = [handler EXCEPT ![h] = Answering(h, "update")]
  /\ UNCHANGED <<budget, started, macro, clock, hooks, flags, alerts, rejected>>

\* insert_many, unordered, raises: any part may be stored, and the answer is a 500.
InsertFails(h) ==
  /\ At(h, "insert")
  /\ \E part \in SUBSET ToStore(h) : log' = log \cup part
  /\ Ended(h)
  /\ UNCHANGED <<budget, started, acked, dropped, clock, hooks, flags, alerts, rejected>>

\* users.update_one and the 200; or the 422.  Either makes the macro pop.
Answer(h) ==
  /\ handler[h].pc \in {"update", "unknown"}
  /\ Return(h, At(h, "unknown"))
  /\ UNCHANGED <<budget, started, clock, log, hooks, flags, alerts>>

\* The database does not answer at some other await: 500.
HandlerFails(h) ==
  /\ handler[h].pc \notin {"idle", "insert", "unknown"}
  /\ Ended(h)
  /\ UNCHANGED <<budget, started, acked, dropped, clock, log, hooks, flags, alerts, rejected>>

-----------------------------------------------------------------------------
(* Delivery. *)

\* Discord answers, or the attempts are used up.  A pair stands for all deliveries
\* of one webhook and document that wait, so it may stay.
Deliver(d) ==
  /\ d \in queue
  /\ queue' = queue \ {d}
  /\ UNCHANGED <<budget, started, macro, handler, clock, log, hooks, broken, gone, marking,
                 tests, stale, alerts, rejected>>

Blamed_CurrentMode(d) == SourceOf(mode)

\* The document of _mark_broken: the one in the delivery's meta.
Blamed(d) == d.doc

\* 401, 404 or 410.
PostGone(d) ==
  /\ d \in queue /\ d.hook \in gone
  /\ queue' \in {queue, queue \ {d}}
  /\ marking' = marking \cup ({Blamed(d)} \ {None})
  /\ UNCHANGED <<budget, started, macro, handler, clock, log, hooks, broken, gone, tests,
                 stale, alerts, rejected>>

Flagged_Upserts(doc) == {doc}

\* What the update of _mark_broken flags: nothing when the biome was deleted.
Flagged(doc) == IF doc = "biome" /\ ~known THEN {} ELSE {doc}

\* _mark_broken succeeds or fails.  Two workers that flag one document at once are one.
MarkBroken(doc) ==
  /\ doc \in marking
  /\ marking' = marking \ {doc}
  /\ broken' \in {broken, broken \cup Flagged(doc)}
  /\ UNCHANGED <<budget, started, macro, handler, clock, log, hooks, gone, queue, tests,
                 stale, alerts, rejected>>

-----------------------------------------------------------------------------
(* Edits. *)

\* A delivery for the document's webhooks of now may still end.
Outstanding(doc) ==
  \/ doc \in marking
  \/ \E d \in queue \cup tests : d.doc = doc
  \/ \E h \in Handler :
       handler[h].doc = doc /\ handler[h].hooks # {} /\ handler[h].pc # "insert"

\* One update of a document that names webhook `new` in a slot, and most often puts
\* `webhook_broken` False.
WriteHook(slot, new, clears) ==
  LET doc == DocOf(slot) IN
  /\ hook' = [hook EXCEPT ![slot] = new]
  /\ made' = Later(made, new)
  /\ broken' = IF clears THEN broken \ {doc} ELSE broken
  /\ stale' = IF Outstanding(doc) \/ (~clears /\ doc \in broken) THEN stale \cup {doc}
              ELSE IF clears THEN stale \ {doc} ELSE stale
  /\ UNCHANGED <<gone, queue, marking, tests>>

Edit == Spend /\ UNCHANGED <<started, macro, handler, clock, log, alerts, rejected>>

\* PATCH settings and /setup mode, as far as the mode goes.
SetMode ==
  /\ Edit
  /\ mode' \in Mode
  /\ UNCHANGED <<hook, made, known, creating, flags>>

\* PATCH settings with single_channel_webhook: empty, the old one, or new.
PatchPrimary ==
  /\ Edit
  /\ \E new \in {0, hook["primary"], made + 1} : WriteHook("primary", new, TRUE)
  /\ UNCHANGED <<mode, known, creating>>

\* /setup mode single_channel.
SetupSingleChannel ==
  /\ Edit
  /\ WriteHook("primary", made + 1, TRUE)
  /\ mode' = "single_channel"
  /\ UNCHANGED <<known, creating>>

\* PATCH settings with only single_channel_webhooks.
PatchExtra ==
  /\ Edit
  /\ \E new \in {0, made + 1} : WriteHook("extra", new, FALSE)
  /\ UNCHANGED <<mode, known, creating>>

\* PUT biome: the webhook of the body, the old one included.
PutBiome ==
  /\ Edit
  /\ \E new \in {0, hook["biome"], made + 1} : WriteHook("biome", new, TRUE)
  /\ known' = TRUE
  /\ UNCHANGED <<mode, creating>>

\* DELETE biome.
DeleteBiome ==
  /\ Edit /\ known
  /\ WriteHook("biome", 0, TRUE)
  /\ known' = FALSE
  /\ UNCHANGED <<mode, creating>>

\* /setup biomechannel, which stops at a biome that is not there.
SetupBiomeChannel ==
  /\ Edit /\ known
  /\ WriteHook("biome", made + 1, TRUE)
  /\ UNCHANGED <<mode, known, creating>>

\* /key create reads the member's record.
KeyCreateRead ==
  /\ Edit
  /\ creating' = creating \cup {hook["user"]}
  /\ UNCHANGED <<mode, hook, made, known, flags>>

\* It writes the webhook it has read, or one it made with the member's channel.  Two at
\* once that read the same webhook are one.
KeyCreate(read) ==
  /\ read \in creating
  /\ creating' = creating \ {read}
  /\ \E new \in {read, made + 1} : WriteHook("user", new, TRUE)
  /\ UNCHANGED <<budget, started, macro, handler, clock, log, mode, known, alerts, rejected>>

\* /key revoke and the purge forget the webhook and leave the flag (/key regenerate
\* readmits the member as is).
KeyRevoke ==
  /\ Edit
  /\ WriteHook("user", 0, FALSE)
  /\ UNCHANGED <<mode, known, creating>>

\* send_test reads the first webhook of the target.
TestRead(slot) ==
  /\ Edit
  /\ hook[slot] # 0 /\ (slot = "extra" => hook["primary"] = 0)
  /\ tests' = tests \cup {[hook |-> hook[slot], doc |-> DocOf(slot)]}
  /\ UNCHANGED <<hooks, broken, gone, queue, marking, stale>>

\* Its _put, when the read has returned.  A pair stands for all tests that read it.
TestPut(d) ==
  /\ d \in tests
  /\ queue' = queue \cup {d}
  /\ tests' \in {tests, tests \ {d}}
  /\ UNCHANGED <<budget, started, macro, handler, clock, log, hooks, broken, gone, marking,
                 stale, alerts, rejected>>

\* External: somebody deletes a webhook in Discord.
HookDeleted(h) ==
  /\ Spend
  /\ h \in 1..made \ gone
  /\ gone' = gone \cup {h}
  /\ UNCHANGED <<started, macro, handler, clock, log, hooks, broken, queue, marking,
                 tests, stale, alerts, rejected>>

HandlerStep(h) ==
  \/ ReadSettings(h) \/ ReadBiomes(h) \/ UnknownBiome(h)
  \/ DispatchStarted(h) \/ FindDuration(h) \/ DispatchEnded(h)
  \/ Insert(h) \/ InsertFails(h) \/ Answer(h) \/ HandlerFails(h)

EditStep ==
  \/ SetMode \/ PatchPrimary \/ PatchExtra \/ SetupSingleChannel
  \/ PutBiome \/ DeleteBiome \/ SetupBiomeChannel
  \/ KeyCreateRead \/ KeyRevoke
  \/ \E read \in creating : KeyCreate(read)
  \/ \E s \in Slot : TestRead(s)
  \/ \E d \in tests : TestPut(d)

Next ==
  \/ Buffer \/ Exit
  \/ \E t \in Flusher : GiveUp(t) \/ \E h \in Handler : Post(t, h)
  \/ \E h \in Handler : HandlerStep(h)
  \/ \E d \in queue : Deliver(d) \/ PostGone(d)
  \/ \E doc \in marking : MarkBroken(doc)
  \/ EditStep
  \/ \E h \in 1..made : HookDeleted(h)

Spec == Init /\ [][Next]_vars

-----------------------------------------------------------------------------
(* Properties. *)

\* The audit log tells the truth, whatever fails half-way: an event that the macro gave
\* up for an answer to its own batch is in it, unless that was the 422; and `dispatched`
\* is set exactly on the events of a request whose alert was put on the queue.
AuditTruthful ==
  /\ \A e \in 1..acked : e \in rejected \cup dropped \/ \E d \in log : d.event = e
  /\ \A d \in log : d.dispatched <=> [event |-> d.event, stamp |-> d.stamp] \in alerts

\* Two occurrences processed by one request have one server_ts.
SameStamp(e, f) == \E c, d \in log : c.event = e /\ d.event = f /\ c.stamp = d.stamp

\* "Minutes since the matching `started` event".  The `started` found is the matching
\* one, except in one of these cases: the macro never put the matching one; it is in the
\* same batch, and not stored yet; a 422 or the buffer dropped it; the member's other
\* account saw the biome start since; or one of the two events was sent twice, or left
\* the buffer without its answer.
DurationExplained ==
  \A h \in Handler :
    LET e == handler[h].next
        f == handler[h].found
    IN  (At(h, "put") /\ f # 0 /\ ~SameStamp(f, started[e])) =>
          \/ started[e] = Unseen
          \/ handler[h].first <= started[e] \/ started[e] \in rejected \cup dropped
          \/ f \in (started[e] + 1)..(e - 1)
          \/ {e, f} \cap (repeated \cup dropped) # {}

\* A flag means that a webhook now on the document is gone.  Otherwise the document was
\* edited while a delivery to its old webhook was outstanding, or its webhooks were
\* changed by an edit that leaves the flag.
FlagExplained ==
  \A doc \in broken : HooksOf(doc) \cap gone # {} \/ doc \in stale
=============================================================================
