----------------------------- MODULE Dispatcher -----------------------------
(***************************************************************************)
(* server/biomebeacon_server/dispatch.py: the webhook dispatcher.  Callers *)
(* put deliveries on one asyncio.PriorityQueue, a pool of worker tasks     *)
(* takes them and POSTs each to its Discord webhook, at most three times.  *)
(*                                                                         *)
(* A payload is opaque.  `ledger` is a history variable: for each sequence *)
(* number it keeps the lane the delivery was accepted on and whether some  *)
(* worker has finished with it.  Everything between two awaits of the code *)
(* is one action.  Time is not modelled: a sleep before a retry is the gap *)
(* between two steps of the same worker.                                   *)
(***************************************************************************)
EXTENDS Integers, FiniteSets

CONSTANTS
  Worker,              \* the tasks created by start(), WORKER_COUNT of them
  Hook,                \* webhook URLs
  Owner,               \* documents a webhook belongs to (settings, biomes, users)
  NORMAL_BACKLOG_CAP,  \* queued non-urgent deliveries before dropping
  MaxPuts              \* bound on _seq, to keep the model finite

ASSUME CapAssumption == NORMAL_BACKLOG_CAP \in Nat \ {0}
ASSUME MaxPutsAssumption == MaxPuts \in Nat

PRIORITY_URGENT == 0
PRIORITY_NORMAL == 1
MAX_ATTEMPTS == 3

VARIABLES
  queue,           \* _queue, as a set: `seq` makes its items distinct
  seq,             \* _seq, the next tiebreaker
  normal_backlog,  \* _normal_backlog
  worker,          \* where each _worker task is, and with which item
  running,         \* between start() and stop()
  broken,          \* owners whose document says webhook_broken
  gone,            \* external: hooks deleted in Discord
  ledger           \* history: what became of each accepted delivery

queueVars == <<queue, seq, normal_backlog>>
vars == <<queue, seq, normal_backlog, worker, running, broken, gone, ledger>>

Fate == {"pending", "settled", "cancelled"}
Item == [seq : Nat, urgent : BOOLEAN, url : Hook, owner : Owner]
Idle == [pc |-> "get"]
Busy == [pc : {"post", "mark"}, item : Item, attempt : 1..MAX_ATTEMPTS]
Entry == [urgent : BOOLEAN, fate : Fate]

\* Type correctness.  The bound on `attempt` is the retry budget of _deliver: a
\* worker POSTs an item at most MAX_ATTEMPTS times, so Discord shows at most
\* that many copies of it.
TypeOK ==
  /\ queue \in SUBSET Item
  /\ seq \in 0..MaxPuts
  /\ normal_backlog \in 0..NORMAL_BACKLOG_CAP
  /\ worker \in [Worker -> {Idle} \cup Busy]
  /\ running \in BOOLEAN
  /\ broken \in SUBSET Owner
  /\ gone \in SUBSET Hook
  /\ ledger \in [0..(seq - 1) -> Entry]

Init ==
  /\ queue = {}
  /\ seq = 0
  /\ normal_backlog = 0
  /\ worker = [w \in Worker |-> Idle]
  /\ running = TRUE
  /\ broken = {}
  /\ gone = {}
  /\ ledger = [n \in {} |-> 0]

-----------------------------------------------------------------------------
(* Enqueueing. *)

NormalRoom_OffByOne == normal_backlog <= NORMAL_BACKLOG_CAP

NormalRoom == normal_backlog < NORMAL_BACKLOG_CAP

\* _put, accepted: urgent always, common deliveries under the soft cap.
Accept(url, owner, urgent) ==
  /\ urgent \/ NormalRoom
  /\ seq < MaxPuts
  /\ queue' = queue \cup {[seq |-> seq, urgent |-> urgent, url |-> url, owner |-> owner]}
  /\ seq' = seq + 1
  /\ normal_backlog' = IF urgent THEN normal_backlog ELSE normal_backlog + 1
  /\ ledger' = [n \in 0..seq |->
                  IF n = seq THEN [urgent |-> urgent, fate |-> "pending"]
                             ELSE ledger[n]]

\* _put, dropped with a log line: the caller cannot tell it from acceptance.
Drop(urgent) ==
  /\ ~urgent /\ ~NormalRoom
  /\ UNCHANGED <<queueVars, ledger>>

Put(url, owner, urgent) ==
  /\ running
  /\ Accept(url, owner, urgent) \/ Drop(urgent)
  /\ UNCHANGED <<worker, running, broken, gone>>

-----------------------------------------------------------------------------
(* The worker pool. *)

Priority(i) == IF i.urgent THEN PRIORITY_URGENT ELSE PRIORITY_NORMAL

\* Mutants of the item order: the tuple without its priority, and newest first.
Precedes_SeqOnly(i, j) == i.seq <= j.seq
Precedes_NewestFirst(i, j) ==
  \/ Priority(i) < Priority(j)
  \/ Priority(i) = Priority(j) /\ i.seq >= j.seq

\* The order of PriorityQueue on (priority, seq, ...) tuples.
Precedes(i, j) ==
  \/ Priority(i) < Priority(j)
  \/ Priority(i) = Priority(j) /\ i.seq <= j.seq

BacklogAfterGet_Forgotten(i) == normal_backlog
Without_Peek(i) == queue

\* _normal_backlog after a worker took i.
BacklogAfterGet(i) == IF i.urgent THEN normal_backlog ELSE normal_backlog - 1

\* get() removes what it returns.
Without(i) == queue \ {i}

\* _worker: get() resumes with the smallest item and the counter follows it
\* before any other task runs.
WorkerGet(w) ==
  /\ running /\ worker[w] = Idle
  /\ \E i \in queue :
       /\ \A j \in queue : Precedes(i, j)
       /\ queue' = Without(i)
       /\ normal_backlog' = BacklogAfterGet(i)
       /\ worker' = [worker EXCEPT ![w] = [pc |-> "post", item |-> i, attempt |-> 1]]
  /\ UNCHANGED <<seq, running, broken, gone, ledger>>

\* Where delivery number n is.
Occupied(w) == worker[w] # Idle
Queued(n) == \E i \in queue : i.seq = n
InHand(n) == \E w \in Worker : Occupied(w) /\ worker[w].item.seq = n

Posting(w) == running /\ worker[w].pc = "post"
Url(w) == worker[w].item.url

\* The delivery of w ends, well or not: task_done, back to get().
Settle(w) ==
  /\ worker' = [worker EXCEPT ![w] = Idle]
  /\ ledger' = [ledger EXCEPT ![worker[w].item.seq] =
                  [urgent |-> @.urgent, fate |-> "settled"]]

Retry_Unbounded(w) ==
  /\ worker' = [worker EXCEPT ![w].attempt = @ + 1]
  /\ UNCHANGED ledger

\* The end of one round of `for _attempt in range(3)`.
Retry(w) ==
  IF worker[w].attempt < MAX_ATTEMPTS
  THEN /\ worker' = [worker EXCEPT ![w] = [worker[w] EXCEPT !.attempt = @ + 1]]
       /\ UNCHANGED ledger
  ELSE Settle(w)

\* HTTP 200 or 204.
PostDelivered(w) ==
  /\ Posting(w) /\ Url(w) \notin gone
  /\ Settle(w)
  /\ UNCHANGED <<queueVars, running, broken, gone>>

\* HTTP 429 (sleep for retry_after), a ClientError or the 15 s total timeout
\* (sleep for 1 s): try again.  Discord may have shown the message already.
PostAgain(w) ==
  /\ Posting(w)
  /\ Retry(w)
  /\ UNCHANGED <<queueVars, running, broken, gone>>

\* Any other status is given up at once.
PostRefused(w) ==
  /\ Posting(w)
  /\ Settle(w)
  /\ UNCHANGED <<queueVars, running, broken, gone>>

\* HTTP 401, 404 or 410: the await of _mark_broken follows.
PostGone(w) ==
  /\ Posting(w) /\ Url(w) \in gone
  /\ worker' = [worker EXCEPT ![w] = [worker[w] EXCEPT !.pc = "mark"]]
  /\ UNCHANGED <<queueVars, running, broken, gone, ledger>>

\* _mark_broken writes the flag on the document named by meta.
MarkBroken(w) ==
  /\ running /\ worker[w].pc = "mark"
  /\ broken' = broken \cup {worker[w].item.owner}
  /\ Settle(w)
  /\ UNCHANGED <<queueVars, running, gone>>

WorkerCrash_Dies(w) ==
  /\ Posting(w) \/ (running /\ worker[w].pc = "mark")
  /\ worker' = [worker EXCEPT ![w] = [@ EXCEPT !.pc = "dead"]]
  /\ UNCHANGED <<queueVars, running, broken, gone, ledger>>

\* Any other exception of _deliver (a 429 body that is not JSON, a database
\* error while marking): logged, and the worker goes on with the next item.
WorkerCrash(w) ==
  /\ Posting(w) \/ (running /\ worker[w].pc = "mark")
  /\ Settle(w)
  /\ UNCHANGED <<queueVars, running, broken, gone>>

WorkerStep(w) ==
  \/ WorkerGet(w) \/ PostDelivered(w) \/ PostAgain(w)
  \/ PostRefused(w) \/ PostGone(w) \/ MarkBroken(w) \/ WorkerCrash(w)

\* stop(): every worker is cancelled at its await, and the delivery in its
\* hands is abandoned; what is queued stays in the dead queue.
Stop ==
  /\ running
  /\ running' = FALSE
  /\ worker' = [w \in Worker |-> Idle]
  /\ ledger' = [n \in DOMAIN ledger |->
                  IF InHand(n) THEN [urgent |-> ledger[n].urgent, fate |-> "cancelled"]
                               ELSE ledger[n]]
  /\ UNCHANGED <<queueVars, broken, gone>>

\* External: somebody deletes a webhook in Discord.
HookDeleted(h) ==
  /\ h \notin gone
  /\ gone' = gone \cup {h}
  /\ UNCHANGED <<queueVars, worker, running, broken, ledger>>

\* The callers of enqueue_event and send_test, with any target and lane.
AnyPut == \E url \in Hook, owner \in Owner, urgent \in BOOLEAN : Put(url, owner, urgent)

Next ==
  \/ AnyPut
  \/ \E w \in Worker : WorkerStep(w)
  \/ Stop
  \/ \E h \in Hook : HookDeleted(h)

\* A worker task is resumed by the event loop, and the session's 15 s total
\* timeout ends every POST, so a worker that can take a step takes one.
Fairness == \A w \in Worker : WF_vars(WorkerStep(w))

Spec == Init /\ [][Next]_vars
FairSpec == Spec /\ Fairness

-----------------------------------------------------------------------------
(* Properties. *)

Normals == {i \in queue : ~i.urgent}
Pending(n) == n \in DOMAIN ledger /\ ledger[n].fate = "pending"

\* The backlog counter, kept by hand in _put and in _worker, is always the
\* number of common deliveries in the queue, so the soft cap bounds the queue's
\* common part and never refuses a delivery while there is room.
BacklogSound == normal_backlog = Cardinality(Normals)

\* A delivery that was accepted is in exactly one place: in the queue once, in
\* the hands of one worker, or settled.  No urgent alert is ever dropped, and
\* no two workers deliver the same alert.
Conservation ==
  /\ \A i, j \in queue : i.seq = j.seq => i = j
  /\ \A v, w \in Worker :
       (Occupied(v) /\ Occupied(w) /\ worker[v].item.seq = worker[w].item.seq) => v = w
  /\ \A n \in 0..MaxPuts : Pending(n) <=> Queued(n) \/ InHand(n)
  /\ \A n \in 0..MaxPuts : ~(Queued(n) /\ InHand(n))

\* Deliveries of one lane are started in the order they were accepted: nothing
\* accepted later has been started while something earlier still waits.
LaneOrder ==
  \A i \in queue : \A n \in DOMAIN ledger :
    (n > i.seq /\ ledger[n].urgent = i.urgent) => Queued(n)

\* "Rare biomes must be delivered first": while an urgent alert waits, no step
\* starts a common one, whatever was accepted before it.
UrgentFirst ==
  [][\A u, i \in queue :
       (u.urgent /\ u \in queue' /\ i \notin queue') => i.urgent]_vars

\* Every urgent alert is finally settled by some worker, unless the server
\* stops first: no refusal, timeout or exception can make the pool run dry.
UrgentSettled ==
  \A n \in 0..(MaxPuts - 1) :
    (Pending(n) /\ ledger[n].urgent) ~> (~running \/ ~Pending(n))

-----------------------------------------------------------------------------
(* Refinement: the dispatcher is a mailbox with two first-in first-out lanes. *)

SeqsOf(items) == {i.seq : i \in items}
Mailbox ==
  INSTANCE AlertMailbox WITH
    Cap <- NORMAL_BACKLOG_CAP,
    urgentLane <- SeqsOf(queue \ Normals),
    normalLane <- SeqsOf(Normals),
    inHand <- {worker[w].item.seq : w \in {v \in Worker : worker[v] # Idle}},
    next <- seq,
    open <- running
MailboxSpec == Mailbox!Spec
=============================================================================
