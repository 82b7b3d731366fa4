------------------------------ MODULE NetWorker ------------------------------
(***************************************************************************)
(* macro/biomebeacon/net/client.py: the event pipeline of the macro.  One  *)
(* asyncio loop runs the consumer task (thread queue -> offline buffer ->  *)
(* flush, posting to Discord itself in direct mode) and the heartbeat task *)
(* (flush again, as the retry path).  Both call _flush, which awaits the   *)
(* server between reading the buffer and popping from it.                  *)
(*                                                                         *)
(* Events are numbered in order of detection.  What runs between two       *)
(* awaits is one action.  The history variables record what happened to    *)
(* events.                                                                 *)
(***************************************************************************)
EXTENDS Integers, Sequences, SequencesExt

CONSTANTS
  PENDING_MAX,   \* maxlen of the _pending deque
  FLUSH_BATCH,   \* events per POST
  DRAIN_BATCH,   \* events taken from the thread queue at once
  Poison,        \* events of a biome the server does not know: 422
  MaxEvents      \* bound on detected events

ASSUME BufferAssumption ==
  /\ PENDING_MAX \in Nat \ {0} /\ FLUSH_BATCH \in Nat \ {0} /\ DRAIN_BATCH \in Nat \ {0}
  /\ MaxEvents \in Nat
  /\ Poison \subseteq 1..MaxEvents

Event == 1..MaxEvents
STOP == 0
Task == {"consumer", "heartbeat"}

VARIABLES
  events_queue,  \* thread queue between the watcher and this worker
  pending,       \* _pending, the offline buffer
  todo,          \* consumer: drained events not handled yet
  dispatching,   \* consumer: awaiting post_webhook for the last handled event
  flight,        \* [Task -> batch of its POST in flight, <<>> if none]
  remote_config, \* "none" before the first fetch, else the mode it names
  configured,    \* server_url and api_key are both set
  phase,         \* "run", "stopping" (STOP was read), "done" (tasks cancelled)
  detected,      \* number of events detected so far
  stored,        \* history: events the server has processed
  rejected,      \* history: events dropped because of a 422
  evicted,       \* history: events pushed out of the full deque
  dropped,       \* history: events drained together with STOP
  resent,        \* history: events the server has processed more than once
  overlapped,    \* history: two flushes were in flight at the same time
  replyLost      \* history: the answer to a processed POST was lost

history == <<stored, rejected, evicted, dropped, resent, overlapped, replyLost>>
vars == <<events_queue, pending, todo, dispatching, flight, remote_config, configured,
          phase, detected, history>>

TypeOK ==
  /\ events_queue \in Seq(Event \cup {STOP})
  /\ pending \in Seq(Event) /\ Len(pending) <= PENDING_MAX
  /\ todo \in Seq(Event) /\ Len(todo) < DRAIN_BATCH
  /\ dispatching \in BOOLEAN
  /\ flight \in [Task -> Seq(Event)] /\ \A t \in Task : Len(flight[t]) <= FLUSH_BATCH
  /\ remote_config \in {"none", "relay", "direct"}
  /\ configured \in BOOLEAN
  /\ phase \in {"run", "stopping", "done"}
  /\ detected \in 0..MaxEvents
  /\ stored \subseteq Event /\ rejected \subseteq Event
  /\ evicted \subseteq Event /\ dropped \subseteq Event /\ resent \subseteq Event
  /\ overlapped \in BOOLEAN /\ replyLost \in BOOLEAN

Init ==
  /\ events_queue = <<>> /\ pending = <<>> /\ todo = <<>>
  /\ dispatching = FALSE
  /\ flight = [t \in Task |-> <<>>]
  /\ remote_config = "none"
  /\ configured \in BOOLEAN
  /\ phase = "run"
  /\ detected = 0
  /\ stored = {} /\ rejected = {} /\ evicted = {} /\ dropped = {} /\ resent = {}
  /\ overlapped = FALSE /\ replyLost = FALSE

-----------------------------------------------------------------------------
(* Outside the loop: the watcher thread, the UI thread, the config task. *)

\* The watcher puts an event on the thread queue.
Detect ==
  /\ detected < MaxEvents
  /\ detected' = detected + 1
  /\ events_queue' = Append(events_queue, detected + 1)
  /\ UNCHANGED <<pending, todo, dispatching, flight, remote_config, configured, phase, history>>

\* stop(): the window was closed.
StopRequested ==
  /\ ~Contains(events_queue, STOP) /\ phase = "run"
  /\ events_queue' = Append(events_queue, STOP)
  /\ UNCHANGED <<pending, todo, dispatching, flight, remote_config, configured, phase,
                 detected, history>>

\* save_connection: any strings, empty ones too.
SaveConnection ==
  /\ configured' = ~configured
  /\ UNCHANGED <<events_queue, pending, todo, dispatching, flight, remote_config, phase,
                 detected, history>>

\* _fetch_config of the config task, with the mode the server names.
ConfigFetched ==
  /\ phase = "run" /\ configured
  /\ remote_config' \in {"relay", "direct"}
  /\ UNCHANGED <<events_queue, pending, todo, dispatching, flight, configured, phase,
                 detected, history>>

-----------------------------------------------------------------------------
(* The buffer and _flush. *)

Buffered_Unbounded(s) == pending \o s

\* deque.append with maxlen, for several events.
Buffered(s) == LET all == pending \o s IN
  SubSeq(all, 1 + (IF Len(all) > PENDING_MAX THEN Len(all) - PENDING_MAX ELSE 0), Len(all))
PushedOut(s) == ToSet(pending \o s) \ ToSet(Buffered(s))

\* list(_pending)[:20], or nothing to send.
FlushBatch(buffer) ==
  IF configured THEN SubSeq(buffer, 1, IF Len(buffer) < FLUSH_BATCH THEN Len(buffer)
                                                                     ELSE FLUSH_BATCH)
                ELSE <<>>

\* Task t enters _flush with this buffer and awaits the server, unless there is
\* nothing to send.
BeginFlush(t, buffer) ==
  /\ flight' = [flight EXCEPT ![t] = FlushBatch(buffer)]
  /\ overlapped' = (overlapped \/ \A u \in Task : flight'[u] # <<>>)

AfterPop_OneTooMany(n) == SubSeq(pending, n + 2, Len(pending))
AfterPop_OneTooFew(n) == SubSeq(pending, n, Len(pending))
AfterPop_FromTheRight(n) == SubSeq(pending, 1, Len(pending) - n)

\* `for _ in batch: popleft()`.  On a shorter deque popleft raises IndexError
\* once it is empty; both callers of _flush catch and log it.
AfterPop(n) == SubSeq(pending, n + 1, Len(pending))

Processed(t) ==
  /\ ToSet(flight[t]) \cap Poison = {}
  /\ stored' = stored \cup ToSet(flight[t])
  /\ resent' = resent \cup (stored \cap ToSet(flight[t]))

EndFlight(t) == flight' = [flight EXCEPT ![t] = <<>>]

\* HTTP 200.
FlushAccepted(t) ==
  /\ phase # "done" /\ flight[t] # <<>>
  /\ Processed(t)
  /\ pending' = AfterPop(Len(flight[t]))
  /\ EndFlight(t)
  /\ UNCHANGED <<events_queue, todo, dispatching, remote_config, configured, phase, detected,
                 rejected, evicted, dropped, overlapped, replyLost>>

FlushRejected_Keeps(t) ==
  /\ phase # "done" /\ flight[t] # <<>> /\ ToSet(flight[t]) \cap Poison # {}
  /\ EndFlight(t)
  /\ UNCHANGED <<events_queue, pending, todo, dispatching, remote_config, configured, phase,
                 detected, history>>

\* HTTP 422: one unknown biome, and the whole batch goes.
FlushRejected(t) ==
  /\ phase # "done" /\ flight[t] # <<>> /\ ToSet(flight[t]) \cap Poison # {}
  /\ rejected' = rejected \cup ToSet(flight[t])
  /\ pending' = AfterPop(Len(flight[t]))
  /\ EndFlight(t)
  /\ UNCHANGED <<events_queue, todo, dispatching, remote_config, configured, phase, detected,
                 stored, evicted, dropped, resent, overlapped, replyLost>>

\* 401, 429, any other status, a ClientError or the total timeout: kept.
FlushFailed(t) ==
  /\ phase # "done" /\ flight[t] # <<>>
  /\ EndFlight(t)
  /\ \/ UNCHANGED <<stored, resent, replyLost>>
     \/ Processed(t) /\ replyLost' = TRUE
  /\ UNCHANGED <<events_queue, pending, todo, dispatching, remote_config, configured, phase,
                 detected, rejected, evicted, dropped, overlapped>>

\* _heartbeat_loop: the sleep is over and the loop flushes.
HeartbeatFlush ==
  /\ phase # "done" /\ flight["heartbeat"] = <<>>
  /\ FlushBatch(pending) # <<>>
  /\ BeginFlush("heartbeat", pending)
  /\ UNCHANGED <<events_queue, pending, todo, dispatching, remote_config, configured, phase,
                 detected, stored, rejected, evicted, dropped, resent, replyLost>>

-----------------------------------------------------------------------------
(* The consumer task. *)

\* _handle_event for the events of `batch`, up to the next await: either the
\* first one that direct mode posts to Discord, or the flush after the last.
Handle(batch) ==
  \E k \in 1..Len(batch) :
    LET head == SubSeq(batch, 1, k) IN
    /\ pending' = Buffered(head)
    /\ evicted' = evicted \cup PushedOut(head)
    /\ \/ /\ remote_config = "direct"
          /\ dispatching' = TRUE
          /\ todo' = SubSeq(batch, k + 1, Len(batch))
          /\ UNCHANGED <<flight, overlapped>>
       \/ /\ k = Len(batch)
          /\ dispatching' = FALSE
          /\ todo' = <<>>
          /\ BeginFlush("consumer", pending')

ConsumerIdle == phase = "run" /\ ~dispatching /\ flight["consumer"] = <<>>

\* What get() and the get_nowait loop take: up to DRAIN_BATCH items, or fewer.
Drained ==
  SubSeq(events_queue, 1, IF Len(events_queue) < DRAIN_BATCH THEN Len(events_queue)
                                                              ELSE DRAIN_BATCH)

\* A batch without STOP is handled; STOP ends the task and drops what was
\* drained with it.
ConsumerGet ==
  /\ ConsumerIdle /\ events_queue # <<>>
  /\ IF Contains(Drained, STOP)
     THEN /\ phase' = "stopping"
          /\ \E k \in 1..Len(Drained) :
               /\ Drained[k] = STOP
               /\ events_queue' = SubSeq(events_queue, k + 1, Len(events_queue))
               /\ dropped' = ToSet(SubSeq(Drained, 1, k - 1))
          /\ UNCHANGED <<pending, todo, dispatching, flight, evicted, overlapped>>
     ELSE /\ events_queue' = SubSeq(events_queue, Len(Drained) + 1, Len(events_queue))
          /\ Handle(Drained)
          /\ UNCHANGED <<phase, dropped>>
  /\ UNCHANGED <<remote_config, configured, detected, stored, rejected, resent, replyLost>>

DispatchDone_TaskDies ==
  /\ phase = "run" /\ dispatching
  /\ phase' = "run" /\ dispatching' = TRUE
  /\ UNCHANGED <<events_queue, pending, todo, flight, remote_config, configured, detected, history>>

\* post_webhook has returned (it catches transport errors and gives up after
\* three 429 answers), or raised something the per-item guard logs.
DispatchDone ==
  /\ phase = "run" /\ dispatching
  /\ IF todo = <<>>
     THEN /\ dispatching' = FALSE
          /\ BeginFlush("consumer", pending)
          /\ UNCHANGED <<pending, todo, evicted>>
     ELSE Handle(todo)
  /\ UNCHANGED <<events_queue, remote_config, configured, phase, detected,
                 stored, rejected, dropped, resent, replyLost>>

\* _main: the tasks are cancelled at their awaits.  The buffer is in memory only.
Cancelled ==
  /\ phase = "stopping"
  /\ phase' = "done"
  /\ flight' = [t \in Task |-> <<>>]
  /\ UNCHANGED <<events_queue, pending, todo, dispatching, remote_config, configured,
                 detected, history>>

Next ==
  \/ Detect \/ StopRequested \/ SaveConnection \/ ConfigFetched
  \/ ConsumerGet \/ DispatchDone \/ HeartbeatFlush \/ Cancelled
  \/ \E t \in Task : FlushAccepted(t) \/ FlushRejected(t) \/ FlushFailed(t)

\* The event loop resumes every task whose await is over; each await ends (15 s
\* total timeout, finite sleeps).
LoopFairness ==
  /\ WF_vars(ConsumerGet) /\ WF_vars(DispatchDone) /\ WF_vars(HeartbeatFlush)
  /\ \A t \in Task :
       WF_vars(FlushAccepted(t) \/ FlushRejected(t) \/ FlushFailed(t))

\* A blip ends: a task that keeps sending is not refused for ever.
ServerRecovers ==
  \A t \in Task : SF_vars(FlushAccepted(t) \/ FlushRejected(t))

Spec == Init /\ [][Next]_vars
FairSpec == Spec /\ LoopFairness /\ ServerRecovers

-----------------------------------------------------------------------------
(* Properties. *)

Waiting == {e \in Event : Contains(events_queue, e)}
Handled == {e \in Event : e <= detected} \ (Waiting \cup ToSet(todo))
InFlight == UNION {ToSet(flight[t]) : t \in Task}
Lost == Handled \ (ToSet(pending) \cup InFlight \cup stored \cup rejected \cup evicted)

\* Events leave the buffer only at its old end, so whatever two flushes do the
\* buffer is always an unbroken run of consecutive events.
BufferUnbroken ==
  \A k \in 1..(Len(pending) - 1) : pending[k + 1] = pending[k] + 1

\* Unless two flushes overlapped or the deque overflowed, no handled event vanishes:
\* it is in the buffer, on the wire, processed or refused with a 422.  The only others
\* gone, also when the tasks end, are those drained together with STOP.
LossExplained == (~overlapped /\ evicted = {}) => Lost = dropped

\* The server processes an event twice only after an answer was lost or two
\* flushes overlapped: each acknowledged batch is popped in full.
ResendExplained == resent # {} => overlapped \/ replyLost

\* The offline buffer drains: while the connection stays configured, an event in
\* the buffer is finally taken out of it, a poisoned batch included.
BufferDrains ==
  <>[]configured =>
    \A e \in Event : Contains(pending, e) ~> (~Contains(pending, e) \/ phase # "run")

\* No failure of a webhook or of a flush stops the consumer: every detected event
\* is finally taken from the thread queue.
ConsumerKeepsUp ==
  \A e \in Event : Contains(events_queue, e) ~> (~Contains(events_queue, e) \/ phase # "run")

\* "An offline buffer so a server blip never loses a GLITCHED alert": a handled
\* event is in the buffer, on the wire, processed by the server, or dropped by a
\* 422 or by the full deque.
NeverLosesAlert == phase = "run" => Lost = {}

-----------------------------------------------------------------------------
(* Refinement: the pipeline is a bounded buffer that gives nothing up without an answer. *)

Offline ==
  INSTANCE OfflineBuffer WITH
    Cap <- PENDING_MAX,
    Batch <- DRAIN_BATCH,
    arrived <- Cardinality(Handled \ dropped),
    kept <- ToSet(pending),
    settled <- stored \cup rejected,
    muddled <- overlapped \/ evicted # {}

\* Whatever the two callers of _flush, the consumer and STOP do, step by step the offline
\* buffer takes events once and in order and lets them go oldest first, and, until two
\* flushes overlap or the deque overflows, only those the server has answered for.
BufferSpec == Offline!Spec
=============================================================================
