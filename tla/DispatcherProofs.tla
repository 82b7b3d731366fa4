-------------------------- MODULE DispatcherProofs --------------------------
(***************************************************************************)
(* Proofs about Dispatcher, for any number of workers, hooks and owners    *)
(* and any cap.  IInv is inductive; each theorem reads one fact off it.    *)
(***************************************************************************)
EXTENDS Dispatcher, FiniteSetTheorems, FunctionTheorems, TLAPS

\* What the invariants need besides themselves: the queue is finite, numbers are
\* fresh, and the ledger remembers the lane of what is queued.
Numbering ==
  /\ IsFiniteSet(queue)
  /\ \A i \in queue : i.seq < seq
  /\ \A w \in Worker : Occupied(w) => worker[w].item.seq < seq
  /\ \A i \in queue : ledger[i.seq].urgent = i.urgent

IInv == TypeOK /\ BacklogSound /\ Conservation /\ LaneOrder /\ Numbering

LEMMA InitInductive == Init => IInv
<1> SUFFICES ASSUME Init PROVE IInv
  OBVIOUS
<1>1. TypeOK
  BY CapAssumption, MaxPutsAssumption DEF Init, TypeOK, Idle
<1>2. BacklogSound
  BY FS_EmptySet DEF Init, BacklogSound, Normals
<1>3. Conservation /\ LaneOrder
  BY DEF Init, Conservation, LaneOrder, Pending, Queued, InHand, Occupied
<1>4. Numbering
  BY FS_EmptySet DEF Init, Numbering, Occupied
<1> QED
  BY <1>1, <1>2, <1>3, <1>4 DEF IInv

\* A worker in the middle of a delivery, in terms of the types.
LEMMA OccupiedTyped ==
  ASSUME TypeOK, NEW w \in Worker, Occupied(w)
  PROVE  worker[w] \in Busy /\ worker[w].item \in Item
BY DEF TypeOK, Occupied, Busy

LEMMA PcOccupied ==
  ASSUME NEW w \in Worker, worker[w].pc \in {"post", "mark"}
  PROVE  Occupied(w)
BY DEF Occupied, Idle

\* A step that leaves the queue, the workers and the ledger alone.
LEMMA QuietStep ==
  ASSUME IInv, running' \in BOOLEAN, broken' \in SUBSET Owner, gone' \in SUBSET Hook,
         UNCHANGED <<queueVars, worker, ledger>>
  PROVE  IInv'
BY DEF IInv, TypeOK, BacklogSound, Conservation, LaneOrder, Numbering, queueVars,
       Normals, Pending, Queued, InHand, Occupied

\* Finishing a delivery: it was in one worker's hands and is then nowhere.
LEMMA SettleStep ==
  ASSUME IInv, NEW w \in Worker, Occupied(w), Settle(w),
         running' = running, broken' \in SUBSET Owner, gone' = gone, UNCHANGED queueVars
  PROVE  IInv'
<1> DEFINE n == worker[w].item.seq
<1>0. worker[w] \in Busy /\ worker[w].item \in Item
  BY OccupiedTyped DEF IInv
<1>1. n \in 0..(seq - 1) /\ n \in 0..MaxPuts /\ n \in Nat
  BY <1>0, MaxPutsAssumption DEF IInv, TypeOK, Numbering, Item
<1>2. TypeOK'
  BY <1>1 DEF IInv, TypeOK, Settle, queueVars, Entry, Fate
<1>3. /\ DOMAIN ledger' = DOMAIN ledger
      /\ \A m \in DOMAIN ledger : ledger'[m].urgent = ledger[m].urgent
      /\ \A m \in DOMAIN ledger : m # n => ledger'[m] = ledger[m]
      /\ ledger'[n].fate = "settled"
  BY <1>1 DEF IInv, TypeOK, Settle, Entry
<1>4. /\ ~Occupied(w)'
      /\ \A v \in Worker : v # w => worker'[v] = worker[v]
  BY DEF Settle, Occupied, IInv, TypeOK
<1>5. BacklogSound' /\ LaneOrder' /\ Numbering'
  <2>1. BacklogSound'
    BY DEF IInv, BacklogSound, Normals, queueVars
  <2>2. LaneOrder'
    BY <1>3 DEF IInv, LaneOrder, queueVars, Queued
  <2>3. \A i \in queue : i.seq \in DOMAIN ledger
    BY DEF IInv, TypeOK, Numbering, Item
  <2>4. Numbering'
    BY <1>3, <1>4, <2>3 DEF IInv, Numbering, queueVars, Occupied
  <2> QED
    BY <2>1, <2>2, <2>4
<1>6. Conservation'
  <2>1. \A m : Queued(m)' <=> Queued(m)
    BY DEF Queued, queueVars
  <2>2. \A m \in 0..MaxPuts : InHand(m)' <=> InHand(m) /\ m # n
    BY <1>4 DEF InHand, Occupied, IInv, Conservation
  <2>3. \A m \in 0..MaxPuts : Pending(m)' <=> Pending(m) /\ m # n
    BY <1>1, <1>3 DEF Pending, IInv, TypeOK
  <2>4. InHand(n) /\ ~Queued(n)
    BY <1>1 DEF InHand, IInv, Conservation
  <2>5. \A v, x \in Worker :
          (Occupied(v)' /\ Occupied(x)' /\ worker'[v].item.seq = worker'[x].item.seq) => v = x
    BY <1>4 DEF Occupied, IInv, Conservation
  <2> QED
    BY <2>1, <2>2, <2>3, <2>4, <2>5 DEF IInv, Conservation, queueVars
<1> QED
  BY <1>2, <1>5, <1>6 DEF IInv

\* Another attempt, or the wait for the broken flag: same item, same worker.
LEMMA SameItemStep ==
  ASSUME IInv, NEW w \in Worker, Occupied(w), NEW b \in Busy, b.item = worker[w].item,
         worker' = [worker EXCEPT ![w] = b],
         UNCHANGED <<queueVars, running, broken, gone, ledger>>
  PROVE  IInv'
<1>1. TypeOK'
  BY DEF IInv, TypeOK, queueVars
<1>2. \A v \in Worker : /\ Occupied(v)' <=> Occupied(v)
                        /\ Occupied(v) => worker'[v].item = worker[v].item
  BY DEF Occupied, IInv, TypeOK, Busy, Idle
<1>3. \A m : Queued(m)' <=> Queued(m)
  BY DEF Queued, queueVars
<1>4. \A m : InHand(m)' <=> InHand(m)
  BY <1>2 DEF InHand
<1>5. \A m : Pending(m)' <=> Pending(m)
  BY DEF Pending
<1>6. Conservation'
  BY <1>2, <1>3, <1>4, <1>5 DEF IInv, Conservation, queueVars
<1>7. BacklogSound' /\ LaneOrder' /\ Numbering'
  BY <1>2, <1>3 DEF IInv, BacklogSound, LaneOrder, Numbering, Normals, queueVars
<1> QED
  BY <1>1, <1>6, <1>7 DEF IInv

\* Acceptance: the new item has a number nobody has seen.
LEMMA AcceptStep ==
  ASSUME IInv, NEW url \in Hook, NEW owner \in Owner, NEW urgent \in BOOLEAN,
         Accept(url, owner, urgent), UNCHANGED <<worker, running, broken, gone>>
  PROVE  IInv'
<1> DEFINE new == [seq |-> seq, urgent |-> urgent, url |-> url, owner |-> owner]
<1>0. /\ new \in Item /\ new \notin queue /\ new.seq = seq /\ new.urgent = urgent
      /\ seq \in 0..MaxPuts /\ seq \in Nat
  BY MaxPutsAssumption DEF IInv, TypeOK, Numbering, Item
<1>1. /\ queue' = queue \cup {new}
      /\ seq' = seq + 1 /\ seq < MaxPuts
      /\ ledger' = [n \in 0..seq |->
                      IF n = seq THEN [urgent |-> urgent, fate |-> "pending"] ELSE ledger[n]]
  BY DEF Accept
<1>2. /\ DOMAIN ledger = 0..(seq - 1) /\ DOMAIN ledger' = 0..seq
      /\ ledger'[seq] = [urgent |-> urgent, fate |-> "pending"]
      /\ \A n \in 0..(seq - 1) : ledger'[n] = ledger[n]
  BY <1>0, <1>1 DEF IInv, TypeOK
<1>3. TypeOK'
  <2>1. queue' \in SUBSET Item /\ seq' \in 0..MaxPuts
    BY <1>0, <1>1, MaxPutsAssumption DEF IInv, TypeOK
  <2>2. normal_backlog' \in 0..NORMAL_BACKLOG_CAP
    BY CapAssumption DEF IInv, TypeOK, Accept, NormalRoom
  <2>3. ledger' \in [0..(seq' - 1) -> Entry]
    BY <1>0, <1>1 DEF IInv, TypeOK, Entry, Fate
  <2> QED
    BY <2>1, <2>2, <2>3 DEF IInv, TypeOK
<1>4. BacklogSound'
  <2>1. CASE urgent
    <3>1. Normals' = Normals
      BY <2>1, <1>0, <1>1 DEF Normals
    <3>2. normal_backlog' = normal_backlog
      BY <2>1 DEF Accept
    <3> QED
      BY <3>1, <3>2 DEF IInv, BacklogSound
  <2>2. CASE ~urgent
    <3>1. Normals' = Normals \cup {new} /\ new \notin Normals
      BY <2>2, <1>0, <1>1 DEF Normals
    <3>2. IsFiniteSet(Normals)
      BY FS_Subset DEF Normals, IInv, Numbering
    <3>3. Cardinality(Normals') = Cardinality(Normals) + 1
      BY <3>1, <3>2, FS_AddElement
    <3> QED
      BY <2>2, <3>3 DEF IInv, BacklogSound, Accept
  <2> QED
    BY <2>1, <2>2
<1>5. \A n \in 0..MaxPuts : /\ Queued(n)' <=> Queued(n) \/ n = seq
                            /\ InHand(n)' <=> InHand(n)
                            /\ Pending(n)' <=> Pending(n) \/ n = seq
  <2> SUFFICES ASSUME NEW n \in 0..MaxPuts
               PROVE  /\ Queued(n)' <=> Queued(n) \/ n = seq
                      /\ InHand(n)' <=> InHand(n)
                      /\ Pending(n)' <=> Pending(n) \/ n = seq
    OBVIOUS
  <2>1. Queued(n)' <=> Queued(n) \/ n = seq
    BY <1>0, <1>1 DEF Queued
  <2>2. InHand(n)' <=> InHand(n)
    BY DEF InHand, Occupied
  <2>3. Pending(n)' <=> Pending(n) \/ n = seq
    BY <1>0, <1>2 DEF Pending
  <2> QED
    BY <2>1, <2>2, <2>3
<1>6. ~Queued(seq) /\ ~InHand(seq)
  BY <1>0, OccupiedTyped DEF IInv, TypeOK, Numbering, Queued, InHand, Item
<1>7. Conservation'
  <2>1. \A i, j \in queue' : i.seq = j.seq => i = j
    BY <1>0, <1>1, <1>6 DEF IInv, Conservation, Queued
  <2>2. \A v, w \in Worker :
       (Occupied(v)' /\ Occupied(w)' /\ worker'[v].item.seq = worker'[w].item.seq) => v = w
    BY DEF IInv, Conservation, Occupied
  <2> QED
    BY <2>1, <2>2, <1>5, <1>6, <1>0 DEF IInv, Conservation
<1>8. LaneOrder'
  <2> SUFFICES ASSUME NEW i \in queue', NEW n \in DOMAIN ledger',
                      n > i.seq, ledger'[n].urgent = i.urgent
               PROVE  Queued(n)'
    BY DEF LaneOrder
  <2>1. CASE n = seq
    BY <2>1, <1>0, <1>1 DEF Queued
  <2>2. CASE n # seq
    <3>1. n \in 0..(seq - 1) /\ n \in DOMAIN ledger /\ ledger'[n] = ledger[n]
      BY <2>2, <1>0, <1>2
    <3>2. i \in queue
      BY <3>1, <1>0, <1>1
    <3>3. Queued(n)
      BY <3>1, <3>2 DEF IInv, LaneOrder
    <3> QED
      BY <3>3, <1>1 DEF Queued
  <2> QED
    BY <2>1, <2>2
<1>9. Numbering'
  <2>1. IsFiniteSet(queue')
    BY <1>1, FS_AddElement DEF IInv, Numbering
  <2>2. \A i \in queue' : i.seq < seq'
    BY <1>0, <1>1 DEF IInv, TypeOK, Numbering, Item
  <2>3. \A w \in Worker : Occupied(w)' => worker'[w].item.seq < seq'
    <3> SUFFICES ASSUME NEW w \in Worker, Occupied(w)
                 PROVE  worker[w].item.seq < seq + 1
      BY <1>1 DEF Occupied
    <3>1. worker[w].item.seq \in Nat /\ worker[w].item.seq < seq
      BY OccupiedTyped DEF IInv, Numbering, Item
    <3> QED
      BY <3>1, <1>0
  <2>4. \A i \in queue' : ledger'[i.seq].urgent = i.urgent
    <3> SUFFICES ASSUME NEW i \in queue' PROVE ledger'[i.seq].urgent = i.urgent
      OBVIOUS
    <3>1. CASE i = new
      BY <3>1, <1>0, <1>2
    <3>2. CASE i # new
      <4>1. i \in queue /\ i.seq \in 0..(seq - 1)
        BY <3>2, <1>0, <1>1 DEF IInv, TypeOK, Numbering, Item
      <4> QED
        BY <4>1, <1>2 DEF IInv, Numbering
    <3> QED
      BY <3>1, <3>2
  <2> QED
    BY <2>1, <2>2, <2>3, <2>4 DEF Numbering
<1> QED
  BY <1>3, <1>4, <1>7, <1>8, <1>9 DEF IInv

\* get(): the smallest item moves from the queue into one worker's hands.
LEMMA GetStep ==
  ASSUME IInv, NEW w \in Worker, WorkerGet(w)
  PROVE  IInv'
<1>0. PICK i \in queue :
        /\ \A j \in queue : Precedes(i, j)
        /\ queue' = queue \ {i}
        /\ normal_backlog' = BacklogAfterGet(i)
        /\ worker' = [worker EXCEPT ![w] = [pc |-> "post", item |-> i, attempt |-> 1]]
  BY DEF WorkerGet, Without
<1> DEFINE b == [pc |-> "post", item |-> i, attempt |-> 1]
<1>1. /\ worker[w] = Idle /\ ~Occupied(w)
      /\ UNCHANGED <<seq, running, broken, gone, ledger>>
  BY DEF WorkerGet, Occupied
<1>2. i \in Item /\ i.seq \in Nat /\ i.seq < seq /\ i.urgent \in BOOLEAN
      /\ i.seq \in 0..MaxPuts /\ seq \in Nat
  BY MaxPutsAssumption DEF IInv, TypeOK, Numbering, Item
<1>3. /\ Occupied(w)' /\ worker'[w].item = i
      /\ \A v \in Worker : v # w => worker'[v] = worker[v]
  BY <1>0 DEF IInv, TypeOK, Occupied, Idle
<1>4. BacklogSound' /\ normal_backlog' \in 0..NORMAL_BACKLOG_CAP
  <2>1. IsFiniteSet(Normals)
    BY FS_Subset DEF Normals, IInv, Numbering
  <2>2. CASE i.urgent
    <3>1. Normals' = Normals
      BY <2>2, <1>0 DEF Normals
    <3> QED
      BY <2>2, <3>1, <1>0 DEF IInv, TypeOK, BacklogSound, BacklogAfterGet
  <2>3. CASE ~i.urgent
    <3>1. Normals' = Normals \ {i} /\ i \in Normals
      BY <2>3, <1>0 DEF Normals
    <3>2. Cardinality(Normals') = Cardinality(Normals) - 1
      BY <3>1, <2>1, FS_RemoveElement
    <3>3. Cardinality(Normals') \in Nat
      BY <3>1, <2>1, FS_RemoveElement, FS_CardinalityType
    <3> QED
      BY <2>3, <3>2, <3>3, <1>0, CapAssumption
      DEF IInv, TypeOK, BacklogSound, BacklogAfterGet
  <2> QED
    BY <2>2, <2>3
<1>5. TypeOK'
  <2>1. b \in Busy
    BY <1>2 DEF Busy, MAX_ATTEMPTS
  <2>2. worker' \in [Worker -> {Idle} \cup Busy]
    BY <2>1, <1>0 DEF IInv, TypeOK
  <2> QED
    BY <2>2, <1>0, <1>1, <1>4 DEF IInv, TypeOK
<1>6. \A n \in 0..MaxPuts : /\ Queued(n)' <=> Queued(n) /\ n # i.seq
                            /\ InHand(n)' <=> InHand(n) \/ n = i.seq
                            /\ Pending(n)' <=> Pending(n)
  <2> SUFFICES ASSUME NEW n \in 0..MaxPuts
               PROVE  /\ Queued(n)' <=> Queued(n) /\ n # i.seq
                      /\ InHand(n)' <=> InHand(n) \/ n = i.seq
                      /\ Pending(n)' <=> Pending(n)
    OBVIOUS
  <2>1. Queued(n)' <=> Queued(n) /\ n # i.seq
    BY <1>0 DEF Queued, IInv, Conservation
  <2>2. InHand(n)' <=> InHand(n) \/ n = i.seq
    BY <1>1, <1>3 DEF InHand, Occupied
  <2>3. Pending(n)' <=> Pending(n)
    BY <1>1 DEF Pending
  <2> QED
    BY <2>1, <2>2, <2>3
<1>7. Queued(i.seq) /\ ~InHand(i.seq)
  BY <1>2 DEF Queued, IInv, Conservation
<1>8. Conservation'
  <2>1. \A j, k \in queue' : j.seq = k.seq => j = k
    BY <1>0 DEF IInv, Conservation
  <2>2. \A v \in Worker : (v # w /\ Occupied(v)') => worker'[v].item.seq # i.seq
    BY <1>3, <1>7 DEF InHand, Occupied
  <2>3. \A v, x \in Worker :
       (Occupied(v)' /\ Occupied(x)' /\ worker'[v].item.seq = worker'[x].item.seq) => v = x
    BY <1>3, <2>2 DEF IInv, Conservation, Occupied
  <2> QED
    BY <2>1, <2>3, <1>2, <1>6, <1>7 DEF IInv, Conservation
<1>9. LaneOrder'
  <2> SUFFICES ASSUME NEW j \in queue', NEW n \in DOMAIN ledger,
                      n > j.seq, ledger[n].urgent = j.urgent
               PROVE  Queued(n)'
    BY <1>1 DEF LaneOrder
  <2>1. j \in queue /\ j \in Item /\ n \in 0..MaxPuts /\ n \in Nat
    BY <1>0, <1>2, MaxPutsAssumption DEF IInv, TypeOK
  <2>2. Queued(n)
    BY <2>1 DEF IInv, LaneOrder
  <2>3. n # i.seq
    <3>1. SUFFICES ASSUME n = i.seq PROVE FALSE
      OBVIOUS
    <3>2. i.urgent = j.urgent
      BY <3>1 DEF IInv, Numbering
    <3>3. i.seq <= j.seq
      BY <3>2, <2>1, <1>0 DEF Precedes, Priority, PRIORITY_URGENT, PRIORITY_NORMAL
    <3> QED
      BY <3>1, <3>3, <2>1, <1>2 DEF Item
  <2> QED
    BY <2>1, <2>2, <2>3, <1>6
<1>10. Numbering'
  <2>1. IsFiniteSet(queue')
    BY <1>0, FS_RemoveElement DEF IInv, Numbering
  <2> QED
    BY <2>1, <1>0, <1>1, <1>2, <1>3 DEF IInv, Numbering, Occupied
<1> QED
  BY <1>4, <1>5, <1>8, <1>9, <1>10 DEF IInv

\* stop(): everything in hand is abandoned at once.
LEMMA StopStep ==
  ASSUME IInv, Stop
  PROVE  IInv'
<1>1. /\ \A w \in Worker : ~Occupied(w)'
      /\ UNCHANGED <<queueVars, broken, gone>> /\ running' = FALSE
  BY DEF Stop, Occupied
<1>2. /\ DOMAIN ledger' = DOMAIN ledger
      /\ \A n \in DOMAIN ledger :
           ledger'[n] = IF InHand(n) THEN [urgent |-> ledger[n].urgent, fate |-> "cancelled"]
                                     ELSE ledger[n]
  BY DEF Stop
<1>3. \A n \in DOMAIN ledger : ledger'[n].urgent = ledger[n].urgent
  BY <1>2
<1>4. TypeOK'
  <2>1. \A n \in DOMAIN ledger : ledger'[n] \in Entry
    <3> SUFFICES ASSUME NEW n \in DOMAIN ledger PROVE ledger'[n] \in Entry
      OBVIOUS
    <3>1. ledger[n] \in Entry /\ ledger[n].urgent \in BOOLEAN
      BY DEF IInv, TypeOK, Entry
    <3>2. CASE InHand(n)
      BY <3>1, <3>2, <1>2 DEF Entry, Fate
    <3>3. CASE ~InHand(n)
      BY <3>1, <3>3, <1>2
    <3> QED
      BY <3>2, <3>3
  <2>2. ledger' \in [0..(seq' - 1) -> Entry]
    BY <2>1, <1>1 DEF Stop, IInv, TypeOK, queueVars
  <2>3. worker' \in [Worker -> {Idle} \cup Busy]
    BY DEF Stop
  <2> QED
    BY <2>2, <2>3, <1>1 DEF IInv, TypeOK, queueVars
<1>5. \A n : (Queued(n)' <=> Queued(n)) /\ ~InHand(n)'
  BY <1>1 DEF Queued, InHand, queueVars
<1>6. \A n \in 0..MaxPuts : Pending(n)' <=> Pending(n) /\ ~InHand(n)
  BY <1>2 DEF Pending
<1>7. Conservation'
  BY <1>1, <1>5, <1>6 DEF IInv, Conservation, queueVars
<1>8. BacklogSound'
  BY <1>1 DEF IInv, BacklogSound, Normals, queueVars
<1>9. LaneOrder'
  BY <1>1, <1>2, <1>3, <1>5 DEF IInv, LaneOrder, queueVars
<1>10. Numbering'
  <2>1. \A i \in queue : i.seq \in DOMAIN ledger
    BY DEF IInv, TypeOK, Numbering, Item
  <2> QED
    BY <2>1, <1>1, <1>3 DEF IInv, Numbering, queueVars
<1> QED
  BY <1>4, <1>7, <1>8, <1>9, <1>10 DEF IInv

LEMMA WorkerInductive ==
  ASSUME IInv, NEW w \in Worker, WorkerStep(w)
  PROVE  IInv'
<1>1. CASE WorkerGet(w)
  BY <1>1, GetStep
<1>2. CASE PostDelivered(w)
  BY <1>2, SettleStep, PcOccupied DEF PostDelivered, Posting, IInv, TypeOK
<1>3. CASE PostAgain(w)
  <2>1. Occupied(w) /\ UNCHANGED <<queueVars, running, broken, gone>>
    BY <1>3, PcOccupied DEF PostAgain, Posting
  <2>2. CASE worker[w].attempt < MAX_ATTEMPTS
    <3> DEFINE b == [worker[w] EXCEPT !.attempt = @ + 1]
    <3>1. b \in Busy /\ b.item = worker[w].item
      BY <2>1, <2>2, OccupiedTyped DEF Busy, MAX_ATTEMPTS, IInv
    <3>2. worker' = [worker EXCEPT ![w] = b] /\ UNCHANGED ledger
      BY <1>3, <2>2 DEF PostAgain, Retry
    <3> QED
      BY <2>1, <3>1, <3>2, SameItemStep
  <2>3. CASE ~(worker[w].attempt < MAX_ATTEMPTS)
    BY <1>3, <2>1, <2>3, SettleStep DEF PostAgain, Retry, IInv, TypeOK
  <2> QED
    BY <2>2, <2>3
<1>4. CASE PostRefused(w)
  BY <1>4, SettleStep, PcOccupied DEF PostRefused, Posting, IInv, TypeOK
<1>5. CASE PostGone(w)
  <2> DEFINE b == [worker[w] EXCEPT !.pc = "mark"]
  <2>1. Occupied(w)
    BY <1>5, PcOccupied DEF PostGone, Posting
  <2>2. b \in Busy /\ b.item = worker[w].item
    BY <2>1, OccupiedTyped DEF Busy, IInv
  <2>3. /\ worker' = [worker EXCEPT ![w] = b]
        /\ UNCHANGED <<queueVars, running, broken, gone, ledger>>
    BY <1>5 DEF PostGone
  <2> QED
    BY <2>1, <2>2, <2>3, SameItemStep
<1>6. CASE MarkBroken(w)
  <2>1. Occupied(w) /\ worker[w].item.owner \in Owner
    BY <1>6, PcOccupied, OccupiedTyped DEF MarkBroken, IInv, Item
  <2> QED
    BY <1>6, <2>1, SettleStep DEF MarkBroken, IInv, TypeOK
<1>7. CASE WorkerCrash(w)
  BY <1>7, SettleStep, PcOccupied DEF WorkerCrash, Posting, IInv, TypeOK
<1> QED
  BY <1>1, <1>2, <1>3, <1>4, <1>5, <1>6, <1>7 DEF WorkerStep

LEMMA NextInductive == IInv /\ [Next]_vars => IInv'
<1> SUFFICES ASSUME IInv, [Next]_vars PROVE IInv'
  OBVIOUS
<1>1. CASE AnyPut
  <2>1. PICK url \in Hook, owner \in Owner, urgent \in BOOLEAN : Put(url, owner, urgent)
    BY <1>1 DEF AnyPut
  <2>2. CASE Accept(url, owner, urgent)
    BY <2>1, <2>2, AcceptStep DEF Put
  <2>3. CASE Drop(urgent)
    BY <2>1, <2>3, QuietStep DEF Put, Drop, IInv, TypeOK
  <2> QED
    BY <2>1, <2>2, <2>3 DEF Put
<1>2. ASSUME NEW w \in Worker, WorkerStep(w) PROVE IInv'
  BY <1>2, WorkerInductive
<1>3. CASE Stop
  BY <1>3, StopStep
<1>4. ASSUME NEW h \in Hook, HookDeleted(h) PROVE IInv'
  BY <1>4, QuietStep DEF HookDeleted, IInv, TypeOK
<1>5. CASE UNCHANGED vars
  BY <1>5, QuietStep DEF vars, queueVars, IInv, TypeOK
<1> QED
  BY <1>1, <1>2, <1>3, <1>4, <1>5 DEF Next

LEMMA Inductive == Spec => []IInv
BY InitInductive, NextInductive, PTL DEF Spec

\* Type correctness for every pool size and cap: in particular no delivery is
\* ever POSTed more than MAX_ATTEMPTS times.
THEOREM TypeCorrect == Spec => []TypeOK
<1>1. IInv => TypeOK
  BY DEF IInv
<1> QED
  BY <1>1, Inductive, PTL

\* The hand-kept backlog counter of _put and _worker never drifts from the
\* queue, so the soft cap is exact for every cap and pool size.
THEOREM BacklogCorrect == Spec => []BacklogSound
<1>1. IInv => BacklogSound
  BY DEF IInv
<1> QED
  BY <1>1, Inductive, PTL

\* No accepted delivery is lost or handed to two workers.
THEOREM NothingLost == Spec => []Conservation
<1>1. IInv => Conservation
  BY DEF IInv
<1> QED
  BY <1>1, Inductive, PTL

\* Each lane starts its deliveries in order of acceptance.
THEOREM LanesInOrder == Spec => []LaneOrder
<1>1. IInv => LaneOrder
  BY DEF IInv
<1> QED
  BY <1>1, Inductive, PTL

\* Urgent alerts overtake every common one that still waits.
THEOREM UrgentServedFirst == Spec => UrgentFirst
<1> DEFINE Overtake == \A u, i \in queue :
             (u.urgent /\ u \in queue' /\ i \notin queue') => i.urgent
<1>1. ASSUME IInv, [Next]_vars PROVE [Overtake]_vars
  <2>1. ASSUME queue \subseteq queue' PROVE Overtake
    BY <2>1
  <2>2. ASSUME NEW w \in Worker, WorkerGet(w) PROVE Overtake
    <3>1. PICK k \in queue : (\A j \in queue : Precedes(k, j)) /\ queue' = queue \ {k}
      BY <2>2 DEF WorkerGet, Without
    <3>2. SUFFICES ASSUME NEW u \in queue, u.urgent PROVE k.urgent
      BY <3>1
    <3>3. Precedes(k, u)
      BY <3>1
    <3> QED
      BY <3>2, <3>3 DEF Precedes, Priority, PRIORITY_URGENT, PRIORITY_NORMAL
  <2>3. CASE AnyPut
    BY <2>1, <2>3 DEF AnyPut, Put, Accept, Drop, queueVars
  <2>4. ASSUME NEW w \in Worker, WorkerStep(w) PROVE Overtake
    <3>1. WorkerGet(w) \/ queue' = queue
      BY <2>4 DEF WorkerStep, PostDelivered, PostAgain, PostRefused, PostGone,
                  MarkBroken, WorkerCrash, queueVars
    <3> QED
      BY <3>1, <2>1, <2>2
  <2>5. CASE Stop
    BY <2>1, <2>5 DEF Stop, queueVars
  <2>6. ASSUME NEW h \in Hook, HookDeleted(h) PROVE Overtake
    BY <2>1, <2>6 DEF HookDeleted, queueVars
  <2> QED
    BY <1>1, <2>3, <2>4, <2>5, <2>6 DEF Next
<1> QED
  BY <1>1, Inductive, PTL DEF Spec, UrgentFirst

-----------------------------------------------------------------------------
(* The dispatcher implements AlertMailbox: its queue, read as two sets of  *)
(* sequence numbers, behaves as the two lanes, and the items in workers'   *)
(* hands as what the mailbox has handed out.                               *)

urgentNumbers == SeqsOf(queue \ Normals)
normalNumbers == SeqsOf(Normals)
handNumbers == {worker[w].item.seq : w \in {v \in Worker : worker[v] # Idle}}

\* Numbers identify items, so a lane has as many numbers as items.
LEMMA NormalNumbersCounted ==
  ASSUME IInv
  PROVE  Cardinality(normalNumbers) = normal_backlog
<1> DEFINE f == [i \in Normals |-> i.seq]
<1>1. IsFiniteSet(Normals)
  BY FS_Subset DEF Normals, IInv, Numbering
<1>2. f \in Bijection(Normals, normalNumbers)
  <2>1. \A i, j \in Normals : f[i] = f[j] => i = j
    BY DEF Normals, IInv, Conservation
  <2>2. f \in [Normals -> normalNumbers] /\ \A n \in normalNumbers : \E i \in Normals : f[i] = n
    BY DEF normalNumbers, SeqsOf
  <2> QED
    BY <2>1, <2>2, Fun_IsBij
<1>3. Cardinality(Normals) = Cardinality(normalNumbers)
  BY <1>1, <1>2, FS_Bijection DEF ExistsBijection
<1> QED
  BY <1>3 DEF IInv, BacklogSound

\* A step that keeps the queue and every item in hand is a stutter.
LEMMA StutterMapped ==
  ASSUME UNCHANGED <<queueVars, running>>, handNumbers' = handNumbers
  PROVE  UNCHANGED Mailbox!mailboxVars
BY DEF Mailbox!mailboxVars, queueVars, handNumbers, SeqsOf, Normals

LEMMA AcceptMapped ==
  ASSUME IInv, NEW url \in Hook, NEW owner \in Owner, NEW urgent \in BOOLEAN, running,
         Accept(url, owner, urgent), UNCHANGED <<worker, running, broken, gone>>
  PROVE  Mailbox!Next
<1> DEFINE new == [seq |-> seq, urgent |-> urgent, url |-> url, owner |-> owner]
<1>1. new \notin queue /\ queue' = queue \cup {new} /\ seq' = seq + 1
  BY DEF Accept, IInv, TypeOK, Numbering
<1>2. handNumbers' = handNumbers
  BY DEF handNumbers
<1>3. CASE urgent
  <2>1. urgentNumbers' = urgentNumbers \cup {seq} /\ normalNumbers' = normalNumbers
    BY <1>1, <1>3 DEF urgentNumbers, normalNumbers, SeqsOf, Normals
  <2> QED
    BY <2>1, <1>1, <1>2 DEF Mailbox!Next, Mailbox!AcceptUrgent, urgentNumbers,
                            normalNumbers, handNumbers
<1>4. CASE ~urgent
  <2>1. urgentNumbers' = urgentNumbers /\ normalNumbers' = normalNumbers \cup {seq}
    BY <1>1, <1>4 DEF urgentNumbers, normalNumbers, SeqsOf, Normals
  <2>2. Cardinality(normalNumbers) < NORMAL_BACKLOG_CAP
    BY <1>4, NormalNumbersCounted DEF Accept, NormalRoom
  <2>3. Mailbox!Cardinality(normalNumbers) = Cardinality(normalNumbers)
    BY DEF Cardinality, Mailbox!Cardinality
  <2> QED
    BY <2>1, <2>2, <2>3, <1>1, <1>2 DEF Mailbox!Next, Mailbox!AcceptNormal, urgentNumbers,
                                  normalNumbers, handNumbers
<1> QED
  BY <1>3, <1>4

LEMMA GetMapped ==
  ASSUME IInv, NEW w \in Worker, WorkerGet(w)
  PROVE  Mailbox!Next
<1>1. PICK i \in queue :
        /\ \A j \in queue : Precedes(i, j)
        /\ queue' = queue \ {i}
        /\ worker' = [worker EXCEPT ![w] = [pc |-> "post", item |-> i, attempt |-> 1]]
  BY DEF WorkerGet, Without
<1>2. worker[w] = Idle /\ running /\ UNCHANGED <<seq, running>>
  BY DEF WorkerGet
<1>3. handNumbers' = handNumbers \cup {i.seq}
  <2>1. /\ worker'[w] # Idle /\ worker'[w].item.seq = i.seq
        /\ \A v \in Worker : v # w => worker'[v] = worker[v]
    BY <1>1 DEF IInv, TypeOK, Idle
  <2> QED
    BY <2>1, <1>2 DEF handNumbers
<1>4. \A j \in queue : j.seq = i.seq => j = i
  BY DEF IInv, Conservation
<1>5. CASE i.urgent
  <2>1. urgentNumbers' = urgentNumbers \ {i.seq} /\ normalNumbers' = normalNumbers
    BY <1>1, <1>4, <1>5 DEF urgentNumbers, normalNumbers, SeqsOf, Normals
  <2>2. i.seq \in urgentNumbers /\ \A m \in urgentNumbers : i.seq <= m
    BY <1>1, <1>5 DEF urgentNumbers, SeqsOf, Normals, Precedes, Priority, PRIORITY_URGENT,
                      PRIORITY_NORMAL
  <2>3. Mailbox!Oldest(i.seq, urgentNumbers)
    BY <2>2 DEF Mailbox!Oldest
  <2>4. Mailbox!TakeUrgent
    BY <2>1, <2>2, <2>3, <1>2, <1>3 DEF Mailbox!TakeUrgent, urgentNumbers, normalNumbers,
                                        handNumbers
  <2> QED
    BY <2>4 DEF Mailbox!Next
<1>6. CASE ~i.urgent
  <2>1. urgentNumbers' = urgentNumbers /\ normalNumbers' = normalNumbers \ {i.seq}
    BY <1>1, <1>4, <1>6 DEF urgentNumbers, normalNumbers, SeqsOf, Normals
  <2>2. urgentNumbers = {}
    BY <1>1, <1>6 DEF urgentNumbers, SeqsOf, Normals, Precedes, Priority, PRIORITY_URGENT,
                      PRIORITY_NORMAL
  <2>3. i.seq \in normalNumbers /\ \A m \in normalNumbers : i.seq <= m
    BY <1>1, <1>6 DEF normalNumbers, SeqsOf, Normals, Precedes, Priority, PRIORITY_URGENT,
                      PRIORITY_NORMAL
  <2>4. Mailbox!Oldest(i.seq, normalNumbers)
    BY <2>3 DEF Mailbox!Oldest
  <2>5. Mailbox!TakeNormal
    BY <2>1, <2>2, <2>3, <2>4, <1>2, <1>3 DEF Mailbox!TakeNormal, urgentNumbers,
                                              normalNumbers, handNumbers
  <2> QED
    BY <2>5 DEF Mailbox!Next
<1> QED
  BY <1>5, <1>6

LEMMA SettleMapped ==
  ASSUME IInv, NEW w \in Worker, Occupied(w), Settle(w), running,
         UNCHANGED <<queueVars, running>>
  PROVE  Mailbox!Next
<1> DEFINE n == worker[w].item.seq
<1>1. /\ worker'[w] = Idle
      /\ \A v \in Worker : v # w => worker'[v] = worker[v]
  BY DEF Settle, IInv, TypeOK
<1>2. n \in handNumbers
  BY DEF handNumbers, Occupied
<1>3. handNumbers' = handNumbers \ {n}
  BY <1>1 DEF handNumbers, Occupied, IInv, Conservation
<1>4. urgentNumbers' = urgentNumbers /\ normalNumbers' = normalNumbers /\ seq' = seq
  BY DEF urgentNumbers, normalNumbers, SeqsOf, Normals, queueVars
<1>5. Mailbox!Settle
  BY <1>2, <1>3, <1>4 DEF Mailbox!Settle, urgentNumbers, normalNumbers, handNumbers
<1> QED
  BY <1>5 DEF Mailbox!Next

LEMMA SameItemMapped ==
  ASSUME IInv, NEW w \in Worker, Occupied(w), NEW b \in Busy, b.item = worker[w].item,
         worker' = [worker EXCEPT ![w] = b], UNCHANGED <<queueVars, running>>
  PROVE  UNCHANGED Mailbox!mailboxVars
<1>1. /\ worker'[w] # Idle /\ worker'[w].item = worker[w].item
      /\ \A v \in Worker : v # w => worker'[v] = worker[v]
  BY DEF IInv, TypeOK, Busy, Idle
<1>2. handNumbers' = handNumbers
  BY <1>1 DEF handNumbers, Occupied
<1> QED
  BY <1>2, StutterMapped

LEMMA WorkerMapped ==
  ASSUME IInv, NEW w \in Worker, WorkerStep(w)
  PROVE  [Mailbox!Next]_(Mailbox!mailboxVars)
<1>1. CASE WorkerGet(w)
  BY <1>1, GetMapped
<1>2. CASE PostDelivered(w) \/ PostRefused(w) \/ MarkBroken(w) \/ WorkerCrash(w)
  <2>1. Occupied(w) /\ running /\ Settle(w) /\ UNCHANGED <<queueVars, running>>
    BY <1>2, PcOccupied DEF PostDelivered, PostRefused, MarkBroken, WorkerCrash, Posting
  <2> QED
    BY <2>1, SettleMapped
<1>3. CASE PostAgain(w)
  <2>1. Occupied(w) /\ running /\ UNCHANGED <<queueVars, running>>
    BY <1>3, PcOccupied DEF PostAgain, Posting
  <2>2. CASE worker[w].attempt < MAX_ATTEMPTS
    <3> DEFINE b == [worker[w] EXCEPT !.attempt = @ + 1]
    <3>1. b \in Busy /\ b.item = worker[w].item
      BY <2>1, <2>2, OccupiedTyped DEF Busy, MAX_ATTEMPTS, IInv
    <3>2. worker' = [worker EXCEPT ![w] = b]
      BY <1>3, <2>2 DEF PostAgain, Retry
    <3> QED
      BY <2>1, <3>1, <3>2, SameItemMapped
  <2>3. CASE ~(worker[w].attempt < MAX_ATTEMPTS)
    BY <1>3, <2>1, <2>3, SettleMapped DEF PostAgain, Retry
  <2> QED
    BY <2>2, <2>3
<1>4. CASE PostGone(w)
  <2> DEFINE b == [worker[w] EXCEPT !.pc = "mark"]
  <2>1. Occupied(w)
    BY <1>4, PcOccupied DEF PostGone, Posting
  <2>2. b \in Busy /\ b.item = worker[w].item
    BY <2>1, OccupiedTyped DEF Busy, IInv
  <2>3. worker' = [worker EXCEPT ![w] = b] /\ UNCHANGED <<queueVars, running>>
    BY <1>4 DEF PostGone
  <2> QED
    BY <2>1, <2>2, <2>3, SameItemMapped
<1> QED
  BY <1>1, <1>2, <1>3, <1>4 DEF WorkerStep

LEMMA StopMapped ==
  ASSUME Stop
  PROVE  Mailbox!Next
<1>1. handNumbers' = {} /\ running /\ running' = FALSE /\ UNCHANGED queueVars
  BY DEF Stop, handNumbers
<1>2. urgentNumbers' = urgentNumbers /\ normalNumbers' = normalNumbers /\ seq' = seq
  BY <1>1 DEF urgentNumbers, normalNumbers, SeqsOf, Normals, queueVars
<1>3. Mailbox!Close
  BY <1>1, <1>2 DEF Mailbox!Close, urgentNumbers, normalNumbers, handNumbers
<1> QED
  BY <1>3 DEF Mailbox!Next

\* Every behaviour of the dispatcher is one of the two-lane mailbox: acceptance,
\* service order and the cap are those of the abstract specification.
THEOREM DispatcherIsMailbox == Spec => MailboxSpec
<1>1. Init => Mailbox!Init
  BY DEF Init, Mailbox!Init, SeqsOf, Normals
<1>2. ASSUME IInv, [Next]_vars PROVE [Mailbox!Next]_(Mailbox!mailboxVars)
  <2>1. CASE AnyPut
    <3>1. PICK url \in Hook, owner \in Owner, urgent \in BOOLEAN : Put(url, owner, urgent)
      BY <2>1 DEF AnyPut
    <3>2. CASE Accept(url, owner, urgent)
      BY <1>2, <3>1, <3>2, AcceptMapped DEF Put
    <3>3. CASE Drop(urgent)
      BY <3>1, <3>3, StutterMapped DEF Put, Drop, handNumbers
    <3> QED
      BY <3>1, <3>2, <3>3 DEF Put
  <2>2. ASSUME NEW w \in Worker, WorkerStep(w) PROVE [Mailbox!Next]_(Mailbox!mailboxVars)
    BY <1>2, <2>2, WorkerMapped
  <2>3. CASE Stop
    BY <2>3, StopMapped
  <2>4. ASSUME NEW h \in Hook, HookDeleted(h) PROVE UNCHANGED Mailbox!mailboxVars
    BY <2>4, StutterMapped DEF HookDeleted, handNumbers
  <2>5. CASE UNCHANGED vars
    BY <2>5, StutterMapped DEF vars, queueVars, handNumbers
  <2> QED
    BY <1>2, <2>1, <2>2, <2>3, <2>4, <2>5 DEF Next
<1> QED
  BY <1>1, <1>2, Inductive, PTL DEF Spec, MailboxSpec, Mailbox!Spec
=============================================================================
