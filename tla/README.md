# BiomeBeacon in TLA+

BiomeBeacon watches Roblox logs for rare biomes of *Sol's RNG* and posts alerts to
Discord.  Three programs share one MongoDB:

* the **macro** (`src/macro`), a desktop program: a watcher thread tails the logs, a
  network thread sends what it sees, a window configures both;
* the **server** (`src/server`), an aiohttp service: macros post events to it, and a pool
  of workers delivers webhooks to Discord; a dashboard edits settings, biomes and users;
* the **bot** (`src/bot`), which hands out keys, makes channels and removes inactive users.

This directory states what these programs must get right, checks it with TLC on small
instances and proves part of it with TLAPS for every value of the constants.

## Inventory

| Part | State it keeps | Operations | Hard behaviour | Correct when | Module |
|---|---|---|---|---|---|
| Webhook dispatcher, `dispatch.py` | priority queue, `_seq`, `_normal_backlog`, worker tasks | `_put`, `_worker`, `_deliver`, `_mark_broken`, `stop` | worker pool, retries, hand-kept counter, cancellation | nothing accepted is lost or doubled, urgent first, lanes in order, cap exact, pool never dries up | `Dispatcher`, `AlertMailbox` |
| Rate limiter, `auth.py` | deque of hits per key | `check` | edges of a sliding window, rounding | never more than the limit in a window, no refusal without cause | `RateLimiter` |
| Macro network worker, `net/client.py` | thread queue, `_pending` buffer, `remote_config` | consumer, `_flush`, heartbeat, config refresh | two tasks across one `await`, lost answers, 422, overflow | order kept, drains, loss and duplicates only for named reasons | `NetWorker`, `OfflineBuffer`, `ConfigSync` |
| Log parser and engine, `detection/parser.py`, `engine.py` | one `InstanceState` per log | `parse_line`, `process_line`, `drop_instance` | anonymous RPCs, joins of other games, place ids that change | events are the changes of biome of the whole log | `BiomeLog`, `DetectionEngine` |
| Log watcher, `detection/watcher.py` | offsets, partial lines, scan in progress | `scan_once`, `_read_new_lines`, `set_log_dir`, `set_paused` | files that grow, shrink or fall silent during a scan, UI thread | chunked reading equals reading at once, what is sent tells the biomes in turn | `LogWatcher` |
| Settings propagation, `routes/macro.py`, `routes/admin.py`, `cogs/setup.py`, both `db.py` | settings and biome documents, `updated_at`, `config_fetched_at` | PATCH settings, PUT/DELETE biome, `/setup mode`, `/setup biomechannel`, `me_config`, `heartbeat` | read, await, write in three programs | macros end with the last settings; macro and server agree who posts | `ConfigSync` |
| Member access, `cogs/keys.py`, `cogs/inactivity.py`, `provisioning.py`, user routes | user document, Discord channel | create, revoke, regenerate, purge, PATCH/DELETE user | awaits on Discord between read and write, failures half-way | no channel leaks, no dead webhook on record, abandoned users go | `KeyLifecycle` |
| Event ingestion, `post_events`, `enqueue_event`, `_find_duration` | `events` (audit log), broken flags of settings, biomes and users | POST events, delivery, `_mark_broken`, every edit of a webhook | a handler with seven awaits that goes on after its client gave up, answers to old deliveries | the log tells what was posted, durations belong to their alert, a flag names a webhook that is gone | `Relay` |
| Macro settings, `config.py`, `ui/web.py`, config task | `MacroConfig` object, `config.json`, cached `remote_config` | save connection, theme, log directory, refresh, update link, load, exit | one thread per window call without a lock, the network loop, exits half-way | what is saved is used and is there after a restart; the macro's own link is posted | `Connection` |
| Key hashing, texts of payloads, permissions, window, dashboard page, app wiring, tools | none, or local | formatting, look-ups | none that interleaves | | not modelled |

How they interact.  Watcher → network worker: a thread-safe queue of events.  Network worker
→ server: HTTP requests whose answer may be lost after the server has acted.  Server →
dispatcher: `_put` in the same event loop.  Dispatcher → Discord: POSTs that may time out
after they took effect.  Dashboard and bot → macro: only through the settings document and
its time stamps.  UI threads → watcher: plain attribute writes without a lock; → network worker: the
shared `MacroConfig` object and calls handed to its event loop.  Bot and dashboard → dispatcher:
only through the webhooks and flags of three kinds of document.  Bot and
dashboard → user document: independent `update_one` calls after awaits.

## Modules

| Module | Models | Run or used by |
|---|---|---|
| `Dispatcher` | `dispatch.py`; every stretch between two awaits is one action | `MCDispatcher`, `DispatcherProofs` |
| `AlertMailbox` | abstract: two first-in first-out lanes, urgent first, capped normal lane | refined by `Dispatcher`; `DispatcherProofs` |
| `RateLimiter` | `RateLimiter.check` in ticks | `MCRateLimiter`, `RateLimiterProofs` |
| `NetWorker` | consumer and heartbeat tasks over one buffer, the direct flow, STOP | `MCNetWorker`, `NetWorkerProofs` |
| `OfflineBuffer` | abstract: the newest events are kept and leave oldest first, each with an answer | refined by `NetWorker`; `NetWorkerProofs` |
| `BiomeLog` | `parse_line` and `process_line` as operators, no state | `DetectionEngine`, `LogWatcher` |
| `DetectionEngine` | the engine object fed line by line | `MCDetectionEngine`, `DetectionProofs` |
| `LogWatcher` | the watcher thread around `BiomeLog` | `MCLogWatcher`, `DetectionProofs` |
| `ConfigSync` | editors, config task, heartbeat task, server handlers | `MCConfigSync`, `ConfigSyncProofs` |
| `Connection` | the window's threads, `config.json`, config task, private server link | `MCConnection`, `ConnectionProofs` |
| `Relay` | `post_events`, routing, audit log, broken flags, edits of webhooks | `MCRelay`, `RelayProofs` |
| `KeyLifecycle` | bot handlers, purge loop, dashboard and macro on one member | `MCKeyLifecycle`, `KeyLifecycleProofs` |

Code to model, module by module:

* **Dispatcher.** A delivery is a number, a lane, a URL and the document its URL came from.
  `queue` is the `PriorityQueue` as a set (the tiebreaker makes items distinct), `Precedes`
  the tuple order.  `worker` holds each task's await: `get`, a POST with its attempt
  number, or `_mark_broken`.  A 429 and a transport error both end in `PostAgain`;
  `WorkerCrash` is any other exception, caught by `_worker`.  `Stop` cancels everything.
  Which webhook an event goes to is left open: any URL, owner and lane.
* **RateLimiter.** One tick is 10 ms.  The deque is the tail of a history of allowed
  requests, which lets the window property speak of all requests ever let through.
* **NetWorker.** Events are numbers in order of detection.  A flush is two actions,
  `BeginFlush` (batch read) and one of accepted, rejected, failed (pop).  A failed
  flush may have been processed by the server.  History variables keep what became of each
  event, what was drained together with STOP, and whether two flushes overlapped.
* **BiomeLog, DetectionEngine.** A raw line is a record of what the parser looks at.  The
  engine's history keeps each line with the place ids of its moment; `StreamMatches`
  defines the right events from that history alone, without the engine's state.
* **LogWatcher.** A line reaches the disk in two halves that mean nothing alone, so a poll
  can fall inside it.  `scan_once` is `ScanStart`, then for each file `SeedCheck`,
  `ReadChunk`, `FeedEngine`, which ends the visit of the file (`EndVisit`); the UI thread's
  `set_log_dir` is two steps and may fall between any of them.  `FeedFails` is an exception of
  `process_line`, which `run` swallows with the rest of the scan.  `engine_instances` is the
  `instances` of the engine it owns, `queued` the events it puts on `events_queue`, and `Replay`
  the loop that gives every whole line of a chunk to `process_line`.
* **ConfigSync.** The settings are a count of updates and the two fields that matter, mode and
  flow; an update of other fields (PATCH, `/setup roles`, `/setup inactivity`, the bump after a
  biome) counts too, so converging means converging on every field.  Each await of a handler is
  a gap.  `config_fetched_at` is stamped last, as `me_config` does.
* **KeyLifecycle.** Each handler is a frame with its local copies of the record; channels are
  numbered as created, a webhook is named by its channel.  `HandlerFails` is an exception,
  a database error or a restart between two steps.  The purge loop is a nextcord `tasks.loop`: it
  goes on after an error of the network (`HandlerFails`) and ends at any other exception
  (`LoopEnds`), until `OnReady` starts it again; `running` says whether it lives.  `mishaps` counts the handlers that overlapped
  another, failed or had their document deleted; `LeaksAccounted` allows one lost channel each.
  One member is enough for the purge's stale list: the time the others on it take is the gap
  between this member's `PurgeRead` and its removal.
* **Relay.** One member, one rare biome, one buffer of numbered events: `acked + 1 .. appended`.  Both
  tasks of the macro flush it (`Flusher`): `Post` sends its front, whatever the other has in flight,
  and an answer pops as many events as were sent, of the buffer as it is by then (`AfterPop`).
  `Buffer` evicts, `Exit` loses the rest; `dropped` holds what left the buffer without an answer to
  its own batch.  How events get into the buffer is `NetWorker`'s subject.  A handler is a frame:
  `settings`, `biomes`, `event` and `put` (before and after the look-up of a duration),
  `insert`, `update`.  Its snapshots (webhooks of the user at the bearer check, of the
  settings, of the biome) are the `hooks` of the frame.  `send_test` and `/key create` are two
  steps each, as they await the database between read and write (`tests`, `creating`).  In a
  stream an `ended` names its `started`, or `Unseen` when the watcher's seeding kept that one to
  itself.  The dispatcher is a set of (webhook,
  document) pairs here: its order is `Dispatcher`'s subject.  Each edit that writes a webhook is
  an action; `stale` names the documents whose flag may be about an older webhook.
* **Connection.** URL and key are assigned one after the other, read one after the other, and
  each is known by the number of the connection it belongs to.  `save` is `Dump`, `OpenFile`
  (which empties the file) and `WriteFile`; `SaveFails` is an `OSError` in any of them.  The config task is `ReadUrl`, `ReadKey`, the server's
  look-up, the answer, the wait; `Restart` may cut all of them.

## Runs

| Run | Question | Bounds and why they are enough | Shows |
|---|---|---|---|
| `queue` | does the queue keep its books and its order? | 2 workers, 1 hook, cap 2, 4 deliveries: both lanes mixed, cap reached, both workers busy, third attempt reached | all hold, and the dispatcher implements the mailbox |
| `pipeline` | does the buffer keep its promise and drain? | 4 events (one poisoned), buffer 3, batches of 2: overflow, overlap, 422, lost answer, STOP all occur | all hold, and the pipeline implements `OfflineBuffer` |
| `overlap` | does a server blip lose an alert? | 3 events, no poison, buffer large enough | yes, when both tasks flush at once |
| `window` | is the window respected at its edges? | limit 2, window 4 ticks, 9 ticks: two full windows and their overlap | all hold |
| `stream` | are the events those of the log? | every sequence of 4 lines of 12 kinds, place ids changing: enter, leave, re-enter the game with an account change | all hold |
| `tail` | does chunked reading lose, double or forget lines? | 2 files in 2 directories, 4 half lines, 1 truncation or exception of `process_line`, 1 UI call (a pause, a stop or a change of directory): a poll of an empty log or inside a line, a re-read, a quiet log, a scan under way when the directory changes; two whole lines are a seeding and a change of biome, or two events in one poll | holds outside the three tainting cases below, and all is read in the end |
| `sync` | do settings arrive, and do both sides agree? | 2 editors, 2 edits of any field, 2 clock values: equal and different stamps | all hold |
| `valid` | can the settings become invalid? | as above, without fairness | yes, by two valid edits |
| `access` | how many channels are lost, do abandoned users go? | 2 handlers and the loop, which may end and be started again at any time, 4 commands, 4 days with a limit of 1; `LeaksAccounted` was also run with 5 and 6 commands | all hold |
| `relay` | do log, alerts and flags agree with what happened? | 2 flushing tasks, 2 requests at once, 3 events (two occurrences in a row or overlapping on two accounts, or one after an `ended` whose `started` was never put) in a buffer of 2, 3 POSTs, exits, edits, tests or deletions together: overlapping flushes that pop unsent events, an eviction, a resend during a slow first request, a partial insert, an edit with a delivery or a test outstanding | all hold |
| `connection` | is what the window saved used, and kept? | 2 saving calls on 2 threads, 2 connections, 1 link, 1 restart or failed save: torn pairs, a request in every phase of the config task, overlapping saves, exit or error inside a save | all hold |
| `webhook` | does a created key always come with a webhook? | 1 handler, 3 commands | no, after a revoke that kept the channel |

The three violation runs are findings, with the lines that disagree, in `PROJECT.json`:

1. `NeverLosesAlert`: `_flush` pops as many items as it sent, from a buffer that another
   flush has changed since.
2. `RelayValid`: `relay=false` and the mode are checked on settings read earlier, and two
   editors write different fields.
3. `CreateGivesWebhook`: `/key revoke` without deleting the channel drops the webhook but
   keeps the channel, and `/key create` then provisions nothing.

Other disagreements met while modelling, which the passing properties are stated around:

* `watcher.py:103` calls the re-read of a truncated file silent; its events are put on the
  queue, as `seeding` is false.  `ReadsEachLineOnce` exempts truncated files.
* `set_log_dir` may clear the offsets between `watcher.py:92` and `:100`: history is then
  replayed as new.  `ReadsEachLineOnce` exempts files hit by it during a scan.
* An exception of `process_line` (JSON whose parts have other types, `parser.py:56-58`) is swallowed
  with the whole scan (`watcher.py:69-70`) after the offset has moved: the rest of the chunk and the
  events already made of it are lost, and the files after it wait for the next scan.
  `ReadsEachLineOnce` and `ToldInTurn` exempt that file; `CatchesUp` shows that all are read in the end
  once such lines stop.
* `inactivity.py:62-72` has no error handler, so a database error ends the purge loop for good;
  `on_ready` comes again only after the bot has lost its session or was restarted.  Until then
  nobody is purged, against "auto-remove users" of `SELF_HOSTING.md:70`.  `AbandonedIsPurged` is
  stated for a loop that lives, the one of after an `on_ready` included.
* `auth.py:55` rounds `retry_after` down as often as up and the expiry is strict, so a client
  that obeys it exactly may be refused.  `RetryAfterAccurate` allows half a tenth of a second.
* A change that takes effect while a fetch is served, or under a stamp not later than the
  fetch's, is not reported by the heartbeat, nor is a change whose reply was lost.
  `StaleIsReported` names these cases with `missed`; `ConfigConverges` shows that the periodic
  refresh repairs them.
* While macro and server hold different settings an alert may be posted by both or by
  neither.  `OnePoster` is stated for when they hold the same.
* `dispatch.py:8-9` promises no head-of-line blocking, but every worker may take a delivery for
  one slow webhook and be held through three timeouts (`dispatch.py:231-267`); `UrgentSettled`
  only promises an end.
* `dispatch.py:173` speaks of "the matching `started` event", and the code takes the member's
  latest one on record by `server_ts`.  `DurationExplained` lists when it is another one:
  one that was never put (the watcher's seeding is silent), `started` and `ended` in one batch, a
  matching `started` that a 422 dropped or the buffer lost (evicted, popped unsent by the other task's
  answer), a second account, a resend.
* A webhook that is gone flags the whole document: one dead extra webhook marks `single_channel`
  broken while the others work.  A PATCH of the extra webhooks alone does not clear the flag
  (`admin.py:151`), `/key revoke` and the purge leave it on the member, and a late 404 flags a
  webhook that was replaced, as does that of a webhook test which read the old one before the edit
  (`dispatch.py:117-150`).  `FlagExplained` names these with `stale`.
* `dispatched` of the log and of the answer means that a webhook was found: a common delivery
  that the soft cap drops counts too (`dispatch.py:112-113`).
* A failed or partial insert answers 500 after the alerts were queued: the batch is posted again.
  `AuditTruthful` therefore speaks of each request's documents, not of each event's alerts.
* An event that left the buffer by overlap, eviction or exit is in no log (`NeverLosesAlert`, and
  `dropped` in `Relay`).  `AuditTruthful` therefore speaks of the events that the macro gave up for an
  answer to their own batch.
* `keys.py:316` says a link "will be used in your next biome alerts"; in the direct flow the
  macro uses it only after its next fetch, as `updated_at` is not bumped.  `OwnLinkCached` is
  stated for links the macro wrote itself.
* `update_link` returns true although a link submitted before the loop is up is dropped
  (`client.py:79-81`); a connection that does not answer leaves the old `remote_config` in force.
* Two window calls that save at once may leave the older settings or a torn `config.json`, which
  the next start replaces with defaults.  `FileSettles` exempts overlapping saves.
* Nobody catches an `OSError` of `config.save()`: the new connection is in use and not in
  `config.json`, and `save_connection` skips its `request_refresh` (`web.py:68-69`), so the config
  task hears of it at the ten-minute refresh.  `FileSettles` exempts such a save (`spoilt`), and
  `LastFetchCurrent` holds again from the next fetch on (`unheard`).
* `init_db` seeds a biome again that was deleted on the dashboard, at the next start, without
  bumping `updated_at`.

`CHECK_DEADLOCK FALSE` stands where the system may stop: the dispatcher, the network worker
and the watcher can be stopped, and the budgets of `KeyLifecycle`, `Relay` and `Connection`
run out.  The violation runs need no deadlock check.

## Fairness

* `Dispatcher`: weak fairness per worker.  The event loop resumes a ready task, and the 15 s
  total timeout ends every POST.  Nothing is assumed of callers or Discord.
* `NetWorker`: weak fairness of the tasks' steps (all awaits end), and strong fairness of being
  answered, as a server that never recovers drains nothing.  `BufferDrains` assumes that
  the connection stays configured.
* `LogWatcher`: weak fairness of the thread's own steps (begin and end of a scan, the seeding
  test, the end of a visit, by an exception or not); exceptions are finitely many by their bound;
  strong fairness of `ReadChunk` for each file, as an `OSError` is
  retried in the next scan and must not come for ever.  None for clients or the UI.
* `ConfigSync`: the config and heartbeat tasks never end (`run_forever`), so weak fairness of
  their steps and of started server handlers; strong fairness of reaching the server and of
  its answer.  None for editors.
* `KeyLifecycle`: only for the purge loop, and only while it is `running`: weak for the start of a purge
  (it comes round every six hours) and for its write, strong for the deletion of the channel, which an
  error of the network may cut short but not for ever.  That `on_ready` comes is not assumed, nor
  that the loop survives a database error.
* `Relay`, `Connection`: none; their properties are invariants.

## Proofs

All theorems hold for every value of the constants that satisfies the named assumptions.  Every
type invariant and every safety invariant and action property of the passing runs is a
theorem, and so are both refinements.  The type invariants are theorems of their own,
`TypeCorrect`, and the other proofs start from them.

* `DispatcherProofs`.  The inductive invariant is `TypeOK` with `BacklogSound`,
  `Conservation` and `LaneOrder`.  They need each other: the counter stays in range only because
  it counts the queue, a settled number can be told from a waiting one only by
  `Conservation`, and `LaneOrder` rests on both.  Assumptions: the cap is positive, and
  workers, hooks and owners are any sets.  `UrgentServedFirst` is an action property that follows
  from the order of items alone.  `DispatcherIsMailbox` is the refinement: every dispatcher step
  is a mailbox step or a stutter, by cases on the actions, from the same invariant.
* `RateLimiterProofs`.  The invariant adds that allowed times are ordered and not in
  the future, that hits before `head` have expired, and that `RATE_LIMIT` hits apart are a window
  apart; `LimitHolds` and `RefusalsJustified` follow.  `RetryAfterIsAccurate` needs
  `PromiseSound` besides: the time a refused client was told is, to half a tenth, when the hit at
  `head` expires, as long as the deque is full and the promise is kept on record.
* `NetWorkerProofs`.  `EventsInPlace` puts every event in one place: detected events after `g` are
  in the thread queue (with one STOP among them at most), those after `h` in the consumer's hands
  or dropped, and the buffer ends with `h`.  While no flushes overlapped, `Alone` says the batch on
  the wire is the old end of the buffer, that all before it is settled unless the deque overflowed,
  and that none of it is sent again unless an answer was lost.  Here `TypeOK` is not inductive by
  itself: `dropped` holds events only because the queue holds one STOP at most.
  `NetWorkerIsBuffer` is the refinement: `Moves` says what a step makes of the buffer that ends
  with `h` (it takes events, an answer lets some go, or it stays), and each of the three is a step
  of `OfflineBuffer` or a stutter.  What lies on record as arrived is a count of a set, which the
  invariant shows to be `1..h`.  `BufferIsUnbroken` adds that the deque itself is in order.
* `DetectionProofs`.  `StreamAlternates` is inductive with the types: an admitted RPC appends
  nothing, one `started`, or `ended` and `started`.  `StreamIsTheLog` needs to know what the state
  remembers of the whole log: `in_target_game` is what the last identifying line says, `user` the
  last account named, `biome` that of the last counted line (`Remembers`).  Each
  of the three moves with one more line (`GateMoves`, `UserMoves`, `BiomeMoves`), the set of
  changes grows by that line or not at all (`ChangesMove`), and the story told grows with it
  (`ToldMore`).  For any alphabet of lines and any place lists.
  The watcher's part rests on two facts about `Replay`.  `ReplayConcat`: to replay one part of a
  log, keep its `Remainder` and replay that with the rest is to replay all at once.  `ReplaySound`:
  the events of a replay alternate and close what they opened.  `WatcherIInv` says of every log
  not tainted how much of it was read and fed (`UpTo`); between the read and the feed of a visit the
  offset is ahead, already at the end of the chunk, so the invariant needs the chunk's start
  besides (`Between`).  `Exclusive` says that a scan which meets `set_log_dir` taints every
  file, and `FeedFails` only its own, which lets all the other steps assume that offsets, buffers and engine agree.  `LinesReadOnce`
  follows, and with `ReplaySound` `WatcherTellsInTurn`: what is queued is the rest of a sound
  story, told from the biome that the silent first read learned (`RestInTurn`).
* `ConfigSyncProofs`.  `EditsSound`: an update of the settings is the end of an edit of its own and
  was stamped before, which bounds the counts and keeps stamps behind the clock.  `ConfigSound`: a
  config, cached or on its way, that carries the number of the current settings carries their flow;
  `OnePosts` follows.  `BeatSound`: while no race was `missed`, a change since the last stamp
  shows in `updated_at`, so a heartbeat that answers false has compared settings no newer.
  Assumption: time has at least one tick (`MaxTime`).
* `KeyLifecycleProofs`.  `CountSound`: every channel is the work of a command of its own.
  `WebhookSound`: with no mishap so far one handler is `Begun` at a time, and the webhook it is about to
  write is that of the channel it writes.  `LeaksSound` counts: leaked channels and running handlers
  together never exceed the mishaps, or exceed them by one while no running handler would leave a
  channel behind if it wrote now (`Fresh`).
  Assumptions: at least one command and one day.
* `RelayProofs`.  One invariant, as its parts need each other: the local variables of each request
  and its batch (`FrameSound`, `BatchSound`), the budgets (`BudgetSound`), what may still put up a flag
  (`DocSound`), whose stamp is on which alert (`StampSound`), what an answer lets the macro forget
  (`PopSound`), and that an event which meets itself or a later one is `Disturbed` (sent twice, or
  dropped), all others being stamped in order (`RepeatSound`, `OrderSound`).  The last two give
  `DurationIsExplained`: with two tasks in flight, an event is stamped out of order only when it
  was sent again or popped by the other's answer.
  That proof found a case which the bounds of the run are too small for (`Budget` 3, it
  needs 5): the matching `started` was in a batch refused with 422, and an older one is found.
  `DurationExplained` names it now.  Assumptions: the buffer and the batches hold at least one event, an `ended` follows its `started` where
  there is one, and `None` is no request.
* `ConnectionProofs`.  `FetchSound`: with no save under way and none `unheard`, a fetch is certain or the one in
  progress has read what the window shows.  `LinksSound`: an answer is as new as any link
  acknowledged before the server was asked, or the event for another fetch is set.  `SavesSound`:
  of saves that neither overlap nor fail, one writes at a time into a file it has emptied, and file or save
  hold the object unless a call that changed it has yet to save.

Maxima and least elements (`Max` of a set of positions, the point where pruning stops) come
from the well-foundedness of the naturals.  So does the one induction, over the halves that
`Replay` takes: `Reaches` states it for a set of numbers, by its least counterexample, and
`ReplayExists` uses it to show that the recursive function exists.  The type sets that the proofs name (`Frame`, `Fetch`,
`Update`, `Stream`) stand in the modules they are about.

Model-checked only: all liveness (`UrgentSettled`, `BufferDrains`, `ConsumerKeepsUp`,
`ConfigConverges`, `RefetchSettles`, `AbandonedIsPurged`, `CatchesUp`), which is out of the
prover's reach.  Proved and not in a run: `StreamAlternates` (it follows from `StreamMatches`,
and `ToldInTurn` checks it where the events leave the watcher) and `BufferUnbroken` (`BufferSpec`
checks the buffer step by step).

## Not modelled

Payload texts and ping permissions; direct messages; channel permissions and names (with
`/setup syncchannels`); user-name look-ups; the version gate; the window and its page; key
generation and hashing; the dashboard's token; start-up wiring.  They keep no state that
interleaves with the modelled parts, or their state is not read by them.  Simplifications worth knowing: the watcher's place ids stay
empty; `stat` and `read` are one step; the `OSError` of the `stat` in `scan_once`, which makes a log inactive
for a scan, appears only as `GoQuiet`, which lasts to the next write; the engine reads its place ids
in one step, though the network thread may swap the list between the two reads of `engine.py:52`;
lines of JSON whose parts have other types are no `RawLine`, and raise in `LogWatcher` only
(`FeedFails`); halves are cut inside the marked text; log names are
unique over directories (they hold a time stamp); a user with a macro in direct mode has
a webhook; `inactivity_enabled` stays on; settings fields other than mode and flow are one
count of updates; `Relay` has one rare biome (common ones are neither stored nor looked up) and
takes a revoked member's request as one that was let in before; the checks of `_configured` and
the reading of the URL are one step of `Connection`, and theme, log directory and
`start_minimized` are one field.

## Plan

Done: every component whose state interleaves with another's is modelled, and the safety of all of
them proved.  Next: an abstract specification of a member's access (granted, revoked, gone) for
`KeyLifecycle` to refine.
