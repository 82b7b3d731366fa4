-------------------------- MODULE NetWorkerProofs --------------------------
(***************************************************************************)
(* Proofs about NetWorker, for any sizes of the buffer and of the batches, *)
(* any poisoned events and any number of detected ones.                    *)
(***************************************************************************)
EXTENDS NetWorker, SequenceTheorems, FiniteSetTheorems, TLAPS

\* Consecutive events, the first after b.
Run(s, b) == \A i \in 1..Len(s) : s[i] = b + i

\* The thread queue holds the events after g, and perhaps a STOP among them.
QueueInPlace(g) ==
  \/ Run(events_queue, g) /\ Len(events_queue) = detected - g
  \/ /\ phase = "run" /\ Len(events_queue) = detected - g + 1
     /\ \E p \in 1..Len(events_queue) :
          /\ events_queue[p] = STOP
          /\ \A i \in 1..(p - 1) : events_queue[i] = g + i
          /\ \A i \in (p + 1)..Len(events_queue) : events_queue[i] = g + i - 1

FlightInPlace(t, h) ==
  flight[t] # <<>> => /\ flight[t][1] >= 1 /\ Run(flight[t], flight[t][1] - 1)
                      /\ flight[t][1] + Len(flight[t]) - 1 <= h

\* While no two flushes overlap, the batch on the wire is the old end of the buffer, or
\* older; without an eviction all before the buffer is settled, and without a lost answer
\* none of it is sent again.
Alone(h) ==
  /\ \A t, u \in Task : flight[t] # <<>> /\ flight[u] # <<>> => t = u
  /\ \A t \in Task : flight[t] # <<>> => flight[t][1] <= h - Len(pending) + 1
  /\ evicted = {} =>
       /\ 1..(h - Len(pending)) \subseteq stored \cup rejected
       /\ \A t \in Task : flight[t] # <<>> => /\ flight[t][1] = h - Len(pending) + 1
                                              /\ Len(flight[t]) <= Len(pending)
  /\ ~replyLost =>
       /\ resent = {}
       /\ \A e \in stored : /\ e <= h - Len(pending)
                            /\ \A t \in Task : flight[t] # <<>> => e < flight[t][1]

\* The buffer ends with h, and nothing later is on its way or on record.
BufferInPlace(h) ==
  /\ Len(pending) <= h /\ Run(pending, h - Len(pending))
  /\ \A t \in Task : FlightInPlace(t, h)
  /\ stored \cup rejected \cup evicted \subseteq 1..h
  /\ ~overlapped => Alone(h)

\* The events up to h are handled, those up to g taken from the thread queue: what is
\* drained and not handled yet follows h, or was dropped at STOP.
InPlace(h, g) ==
  /\ QueueInPlace(g) /\ BufferInPlace(h)
  /\ IF phase = "run" THEN Run(todo, h) /\ Len(todo) = g - h /\ dropped = {}
                      ELSE todo = <<>> /\ dropped = (h + 1)..g
  /\ ~dispatching => todo = <<>>

EventsInPlace == \E g \in 0..detected : \E h \in 0..g : InPlace(h, g)

-----------------------------------------------------------------------------
(* Runs of events, and what the buffer's operators make of them. *)

LEMMA Lengths ==
  \A s \in Seq(Event) : Len(s) \in Nat /\ (s = <<>> <=> Len(s) = 0) /\ \A i \in 1..Len(s) : s[i] \in Event
BY EmptySeq, LenProperties

LEMMA RunPart ==
  ASSUME NEW s \in Seq(Event), NEW b \in Int, Run(s, b),
         NEW m \in 1..(Len(s) + 1), NEW n \in (m - 1)..Len(s)
  PROVE  /\ SubSeq(s, m, n) \in Seq(Event) /\ Len(SubSeq(s, m, n)) = n - m + 1
         /\ Run(SubSeq(s, m, n), b + m - 1)
<1>1. Len(s) \in Nat /\ \A i \in 1..Len(s) : s[i] \in Event
  BY Lengths
<1>2. \A i \in m..n : s[i] \in Event
  BY <1>1
<1>3. /\ SubSeq(s, m, n) \in Seq(Event)
      /\ Len(SubSeq(s, m, n)) = IF m <= n THEN n - m + 1 ELSE 0
      /\ \A i \in 1..(n - m + 1) : SubSeq(s, m, n)[i] = s[m + i - 1]
  BY <1>1, <1>2, SubSeqProperties
<1>4. Len(SubSeq(s, m, n)) = n - m + 1
  BY <1>1, <1>3
<1>5. ASSUME NEW i \in 1..(n - m + 1) PROVE SubSeq(s, m, n)[i] = (b + m - 1) + i
  <2>1. m + i - 1 \in 1..Len(s)
    BY <1>1
  <2> QED
    BY <1>3, <2>1 DEF Run
<1> QED
  BY <1>3, <1>4, <1>5 DEF Run

LEMMA RunJoin ==
  ASSUME NEW s \in Seq(Event), NEW t \in Seq(Event), NEW b \in Int,
         Run(s, b), Run(t, b + Len(s))
  PROVE  s \o t \in Seq(Event) /\ Len(s \o t) = Len(s) + Len(t) /\ Run(s \o t, b)
<1>1. Len(s) \in Nat /\ Len(t) \in Nat
  BY Lengths
<1>2. /\ s \o t \in Seq(Event) /\ Len(s \o t) = Len(s) + Len(t)
      /\ \A i \in 1..(Len(s) + Len(t)) :
           (s \o t)[i] = IF i <= Len(s) THEN s[i] ELSE t[i - Len(s)]
  BY ConcatProperties
<1>3. ASSUME NEW i \in 1..(Len(s) + Len(t)) PROVE (s \o t)[i] = b + i
  <2>1. CASE i <= Len(s)
    BY <1>1, <1>2, <2>1 DEF Run
  <2>2. CASE ~(i <= Len(s))
    <3>1. i - Len(s) \in 1..Len(t)
      BY <1>1, <2>2
    <3>2. t[i - Len(s)] = (b + Len(s)) + (i - Len(s))
      BY <3>1 DEF Run
    <3> QED
      BY <1>1, <1>2, <2>2, <3>2
  <2> QED
    BY <2>1, <2>2
<1> QED
  BY <1>2, <1>3 DEF Run

LEMMA RunSet ==
  ASSUME NEW s \in Seq(Event), NEW b \in Int, Run(s, b)
  PROVE  ToSet(s) = (b + 1)..(b + Len(s))
<1>1. Len(s) \in Nat /\ DOMAIN s = 1..Len(s)
  BY LenProperties
<1>2. ToSet(s) = {s[i] : i \in 1..Len(s)}
  BY <1>1 DEF ToSet
<1>3. ASSUME NEW e \in (b + 1)..(b + Len(s)) PROVE e \in ToSet(s)
  <2>1. e - b \in 1..Len(s) /\ s[e - b] = b + (e - b)
    BY <1>1 DEF Run
  <2> QED
    BY <1>2, <2>1
<1>4. ASSUME NEW i \in 1..Len(s) PROVE s[i] \in (b + 1)..(b + Len(s))
  BY <1>1 DEF Run
<1> QED
  BY <1>2, <1>3, <1>4

\* A run that is not empty has its first event after b.
LEMMA RunFirst ==
  ASSUME NEW s \in Seq(Event), NEW b \in Int, Run(s, b), s # <<>>
  PROVE  s[1] = b + 1 /\ Len(s) >= 1
BY Lengths DEF Run

LEMMA BatchIsFront ==
  ASSUME NEW s \in Seq(Event), NEW b \in Int, Run(s, b)
  PROVE  /\ FlushBatch(s) \in Seq(Event) /\ Run(FlushBatch(s), b)
         /\ Len(FlushBatch(s)) <= FLUSH_BATCH /\ Len(FlushBatch(s)) <= Len(s)
<1>1. Len(s) \in Nat /\ FLUSH_BATCH \in Nat \ {0}
  BY Lengths, BufferAssumption
<1>2. CASE configured
  <2> DEFINE n == IF Len(s) < FLUSH_BATCH THEN Len(s) ELSE FLUSH_BATCH
  <2>1. n \in 0..Len(s) /\ n <= FLUSH_BATCH /\ 1 \in 1..(Len(s) + 1)
    BY <1>1
  <2>2. FlushBatch(s) = SubSeq(s, 1, n)
    BY <1>2 DEF FlushBatch
  <2> HIDE DEF n
  <2>3. /\ SubSeq(s, 1, n) \in Seq(Event) /\ Len(SubSeq(s, 1, n)) = n - 1 + 1
        /\ Run(SubSeq(s, 1, n), b + 1 - 1)
    BY <1>1, <2>1, RunPart
  <2>4. b + 1 - 1 = b /\ n - 1 + 1 = n
    BY <1>1, <2>1
  <2> QED
    BY <2>1, <2>2, <2>3, <2>4
<1>3. CASE ~configured
  <2>1. FlushBatch(s) = <<>> /\ <<>> \in Seq(Event) /\ Len(<<>>) = 0
    BY <1>3, EmptySeq DEF FlushBatch
  <2> QED
    BY <1>1, <2>1 DEF Run
<1> QED
  BY <1>2, <1>3

LEMMA BufferedRun ==
  ASSUME NEW s \in Seq(Event), pending \in Seq(Event), NEW h \in Nat,
         Run(pending, h - Len(pending)), Run(s, h)
  PROVE  /\ Buffered(s) \in Seq(Event)
         /\ Len(Buffered(s)) <= PENDING_MAX /\ Len(Buffered(s)) <= Len(pending) + Len(s)
         /\ Len(Buffered(s)) = PENDING_MAX \/ Len(Buffered(s)) = Len(pending) + Len(s)
         /\ Run(Buffered(s), (h + Len(s)) - Len(Buffered(s)))
         /\ PushedOut(s) = (h - Len(pending) + 1)..((h + Len(s)) - Len(Buffered(s)))
<1> DEFINE all == pending \o s
           b == h - Len(pending)
           d == IF Len(all) > PENDING_MAX THEN Len(all) - PENDING_MAX ELSE 0
<1>1. /\ Len(s) \in Nat /\ Len(pending) \in Nat /\ PENDING_MAX \in Nat \ {0} /\ b \in Int
      /\ b + Len(pending) = h
  BY Lengths, BufferAssumption
<1>2. all \in Seq(Event) /\ Len(all) = Len(pending) + Len(s) /\ Run(all, b)
  BY <1>1, RunJoin
<1>3. Buffered(s) = SubSeq(all, 1 + d, Len(all)) /\ PushedOut(s) = ToSet(all) \ ToSet(Buffered(s))
  BY DEF Buffered, PushedOut
<1>4. /\ d \in Nat /\ d <= Len(all) /\ Len(all) - d <= PENDING_MAX
      /\ d = 0 \/ Len(all) - d = PENDING_MAX
  BY <1>1, <1>2
<1> DEFINE m == 1 + d
<1>5. /\ m \in 1..(Len(all) + 1) /\ Len(all) \in (m - 1)..Len(all)
      /\ b + m - 1 = b + d /\ Len(all) - m + 1 = Len(all) - d
  BY <1>1, <1>2, <1>4
<1> DEFINE kept == Buffered(s)
<1>6. kept = SubSeq(all, m, Len(all)) /\ PushedOut(s) = ToSet(all) \ ToSet(kept)
  BY <1>3
<1> HIDE DEF all, b, d, m, kept
<1>7. kept \in Seq(Event) /\ Len(kept) = Len(all) - m + 1 /\ Run(kept, b + m - 1)
  BY <1>1, <1>2, <1>5, <1>6, RunPart
<1>8. Len(kept) = Len(all) - d /\ Run(kept, b + d) /\ b + d \in Int
  <2>1. Len(kept) = Len(all) - d /\ Run(kept, b + d)
    BY <1>5, <1>7, Zenon
  <2>2. b + d \in Int
    BY <1>1, <1>4
  <2> QED
    BY <2>1, <2>2
<1>9. /\ (h + Len(s)) - (Len(all) - d) = b + d /\ (b + d) + (Len(all) - d) = b + Len(all)
      /\ ((b + 1)..(b + Len(all))) \ (((b + d) + 1)..(b + Len(all))) = (b + 1)..(b + d)
  <2>1. /\ h \in Int /\ Len(pending) \in Int /\ Len(s) \in Int /\ d \in Int
        /\ b \in Int /\ Len(all) \in Int /\ d >= 0
    BY <1>1, <1>2, <1>4
  <2>2. b + Len(pending) = h /\ Len(all) = Len(pending) + Len(s) /\ d <= Len(all)
    BY <1>1, <1>2, <1>4
  <2>3. PICK p, n, a \in Int : p = Len(pending) /\ n = Len(s) /\ a = Len(all)
    BY <2>1
  <2>4. b + p = h /\ a = p + n /\ d <= a /\ d >= 0
    BY <2>1, <2>2, <2>3
  <2>5. /\ (h + n) - (a - d) = b + d /\ (b + d) + (a - d) = b + a
        /\ ((b + 1)..(b + a)) \ (((b + d) + 1)..(b + a)) = (b + 1)..(b + d)
    BY <2>1, <2>4
  <2> QED
    BY <2>3, <2>5, Zenon
<1>10. PushedOut(s) = (b + 1)..(b + d)
  <2>1. ToSet(all) = (b + 1)..(b + Len(all))
    BY <1>1, <1>2, RunSet
  <2>2. ToSet(kept) = ((b + d) + 1)..((b + d) + Len(kept))
    BY <1>7, <1>8, RunSet
  <2> QED
    BY <1>6, <1>8, <1>9, <2>1, <2>2
<1>11. /\ Len(kept) <= PENDING_MAX /\ Len(kept) <= Len(all)
       /\ Len(kept) = PENDING_MAX \/ Len(kept) = Len(all)
  BY <1>1, <1>2, <1>4, <1>8
<1>12. Run(kept, (h + Len(s)) - Len(kept)) /\ PushedOut(s) = (b + 1)..((h + Len(s)) - Len(kept))
  BY <1>8, <1>9, <1>10, Zenon
<1> QED
  BY <1>2, <1>7, <1>11, <1>12 DEF b, kept

LEMMA AfterPopRun ==
  ASSUME pending \in Seq(Event), NEW h \in Nat, Run(pending, h - Len(pending)), NEW n \in Nat
  PROVE  /\ AfterPop(n) \in Seq(Event)
         /\ Len(AfterPop(n)) = IF n <= Len(pending) THEN Len(pending) - n ELSE 0
         /\ Run(AfterPop(n), h - Len(AfterPop(n)))
<1>1. Len(pending) \in Nat
  BY Lengths
<1>2. CASE n <= Len(pending)
  <2>1. n + 1 \in 1..(Len(pending) + 1) /\ Len(pending) \in ((n + 1) - 1)..Len(pending)
    BY <1>1, <1>2
  <2>2. /\ AfterPop(n) \in Seq(Event) /\ Len(AfterPop(n)) = Len(pending) - (n + 1) + 1
        /\ Run(AfterPop(n), (h - Len(pending)) + (n + 1) - 1)
    BY <1>1, <2>1, RunPart DEF AfterPop
  <2>3. /\ Len(AfterPop(n)) = Len(pending) - n
        /\ h - Len(AfterPop(n)) = (h - Len(pending)) + (n + 1) - 1
    BY <1>1, <2>2
  <2> QED
    BY <1>2, <2>2, <2>3
<1>3. CASE ~(n <= Len(pending))
  <2>1. AfterPop(n) = <<>>
    BY <1>1, <1>3, SubSeqEmpty DEF AfterPop
  <2> QED
    BY <1>3, <2>1, EmptySeq DEF Run
<1> QED
  BY <1>2, <1>3
-----------------------------------------------------------------------------
(* Types. *)

\* The part of s from m to n is a sequence of events of that length.
PartTyped(s, m, n) == SubSeq(s, m, n) \in Seq(Event) /\ Len(SubSeq(s, m, n)) = n - m + 1

LEMMA Parts ==
  \A s \in Seq(Event) : \A m \in 1..(Len(s) + 1) : \A n \in (m - 1)..Len(s) : PartTyped(s, m, n)
<1> SUFFICES ASSUME NEW s \in Seq(Event), NEW m \in 1..(Len(s) + 1), NEW n \in (m - 1)..Len(s)
             PROVE  PartTyped(s, m, n)
  OBVIOUS
<1>1. Len(s) \in Nat /\ \A i \in 1..Len(s) : s[i] \in Event
  BY Lengths
<1>2. \A i \in m..n : s[i] \in Event
  BY <1>1
<1>3. /\ SubSeq(s, m, n) \in Seq(Event)
      /\ Len(SubSeq(s, m, n)) = IF m <= n THEN n - m + 1 ELSE 0
  BY <1>1, <1>2, SubSeqProperties
<1> QED
  BY <1>1, <1>3 DEF PartTyped

LEMMA BufferedTyped ==
  ASSUME NEW s \in Seq(Event), pending \in Seq(Event)
  PROVE  /\ Buffered(s) \in Seq(Event) /\ Len(Buffered(s)) <= PENDING_MAX
         /\ PushedOut(s) \subseteq Event
<1> DEFINE all == pending \o s
           d == IF Len(all) > PENDING_MAX THEN Len(all) - PENDING_MAX ELSE 0
<1>1. all \in Seq(Event) /\ Len(all) \in Nat /\ \A i \in 1..Len(all) : all[i] \in Event
  BY ConcatProperties, Lengths
<1>2. DOMAIN all = 1..Len(all) /\ ToSet(all) = {all[i] : i \in 1..Len(all)}
  BY <1>1, LenProperties DEF ToSet
<1>3. PENDING_MAX \in Nat \ {0}
  BY BufferAssumption
<1>4. Buffered(s) = SubSeq(all, 1 + d, Len(all)) /\ PushedOut(s) \subseteq ToSet(all)
  BY DEF Buffered, PushedOut
<1>5. 1 + d \in 1..(Len(all) + 1) /\ Len(all) - (1 + d) + 1 <= PENDING_MAX
  BY <1>1, <1>3
<1> DEFINE m == 1 + d
<1>6. m \in 1..(Len(all) + 1) /\ Len(all) - m + 1 <= PENDING_MAX /\ Buffered(s) = SubSeq(all, m, Len(all))
  BY <1>4, <1>5
<1> HIDE DEF all, d, m
<1>7. PartTyped(all, m, Len(all))
  BY <1>1, <1>6, Parts
<1> QED
  BY <1>1, <1>2, <1>4, <1>6, <1>7 DEF PartTyped

LEMMA BatchTyped ==
  ASSUME NEW s \in Seq(Event)
  PROVE  FlushBatch(s) \in Seq(Event) /\ Len(FlushBatch(s)) <= FLUSH_BATCH
<1>1. Len(s) \in Nat /\ FLUSH_BATCH \in Nat \ {0}
  BY Lengths, BufferAssumption
<1>2. CASE configured
  <2> DEFINE n == IF Len(s) < FLUSH_BATCH THEN Len(s) ELSE FLUSH_BATCH
  <2>1. n \in (1 - 1)..Len(s) /\ n - 1 + 1 <= FLUSH_BATCH /\ 1 \in 1..(Len(s) + 1)
    BY <1>1
  <2>2. FlushBatch(s) = SubSeq(s, 1, n)
    BY <1>2 DEF FlushBatch
  <2> HIDE DEF n
  <2>3. PartTyped(s, 1, n)
    BY <2>1, Parts
  <2> QED
    BY <2>1, <2>2, <2>3 DEF PartTyped
<1>3. CASE ~configured
  BY <1>1, <1>3, EmptySeq DEF FlushBatch
<1> QED
  BY <1>2, <1>3

LEMMA BeginTyped ==
  ASSUME NEW t \in Task, NEW s \in Seq(Event), TypeOK, BeginFlush(t, s)
  PROVE  /\ flight' \in [Task -> Seq(Event)] /\ \A u \in Task : Len(flight'[u]) <= FLUSH_BATCH
         /\ overlapped' \in BOOLEAN
BY BatchTyped DEF BeginFlush, TypeOK

LEMMA EndTyped ==
  ASSUME NEW t \in Task, TypeOK, EndFlight(t)
  PROVE  /\ flight' \in [Task -> Seq(Event)] /\ \A u \in Task : Len(flight'[u]) <= FLUSH_BATCH
<1>1. <<>> \in Seq(Event) /\ Len(<<>>) <= FLUSH_BATCH
  BY EmptySeq, BufferAssumption
<1> QED
  BY <1>1 DEF EndFlight, TypeOK

LEMMA PopTyped ==
  ASSUME TypeOK, NEW n \in Nat
  PROVE  AfterPop(n) \in Seq(Event) /\ Len(AfterPop(n)) <= PENDING_MAX
<1>1. pending \in Seq(Event) /\ Len(pending) \in Nat /\ Len(pending) <= PENDING_MAX /\ PENDING_MAX \in Nat
  BY Lengths, BufferAssumption DEF TypeOK
<1>2. CASE n <= Len(pending)
  <2>1. PartTyped(pending, n + 1, Len(pending))
    <3>1. n + 1 \in 1..(Len(pending) + 1) /\ Len(pending) \in ((n + 1) - 1)..Len(pending)
      BY <1>1, <1>2
    <3> QED
      BY <1>1, <3>1, Parts
  <2> QED
    BY <1>1, <1>2, <2>1 DEF PartTyped, AfterPop
<1>3. CASE ~(n <= Len(pending))
  <2>1. AfterPop(n) = <<>>
    BY <1>1, <1>3, SubSeqEmpty DEF AfterPop
  <2> QED
    BY <1>1, <2>1, EmptySeq
<1> QED
  BY <1>2, <1>3

LEMMA HandleTyped ==
  ASSUME TypeOK, NEW batch \in Seq(Event), Len(batch) <= DRAIN_BATCH, Handle(batch)
  PROVE  /\ pending' \in Seq(Event) /\ Len(pending') <= PENDING_MAX /\ evicted' \subseteq Event
         /\ todo' \in Seq(Event) /\ Len(todo') < DRAIN_BATCH /\ dispatching' \in BOOLEAN
         /\ flight' \in [Task -> Seq(Event)] /\ \A u \in Task : Len(flight'[u]) <= FLUSH_BATCH
         /\ overlapped' \in BOOLEAN
<1>1. /\ pending \in Seq(Event) /\ evicted \subseteq Event /\ Len(batch) \in Nat
      /\ DRAIN_BATCH \in Nat \ {0}
  BY Lengths, BufferAssumption DEF TypeOK
<1>2. PICK k \in 1..Len(batch) :
        /\ pending' = Buffered(SubSeq(batch, 1, k))
        /\ evicted' = evicted \cup PushedOut(SubSeq(batch, 1, k))
        /\ \/ /\ dispatching' = TRUE
              /\ todo' = SubSeq(batch, k + 1, Len(batch))
              /\ UNCHANGED <<flight, overlapped>>
           \/ /\ dispatching' = FALSE
              /\ todo' = <<>>
              /\ BeginFlush("consumer", pending')
  BY DEF Handle
<1>3. PartTyped(batch, 1, k) /\ PartTyped(batch, k + 1, Len(batch))
  <2>1. /\ 1 \in 1..(Len(batch) + 1) /\ k \in (1 - 1)..Len(batch)
        /\ k + 1 \in 1..(Len(batch) + 1) /\ Len(batch) \in ((k + 1) - 1)..Len(batch)
    BY <1>1
  <2> QED
    BY <2>1, Parts
<1>4. pending' \in Seq(Event) /\ Len(pending') <= PENDING_MAX /\ evicted' \subseteq Event
  <2> DEFINE head == SubSeq(batch, 1, k)
  <2>1. head \in Seq(Event)
    BY <1>3 DEF PartTyped
  <2> HIDE DEF head
  <2>2. /\ Buffered(head) \in Seq(Event) /\ Len(Buffered(head)) <= PENDING_MAX
        /\ PushedOut(head) \subseteq Event
    BY <1>1, <2>1, BufferedTyped
  <2> QED
    BY <1>1, <1>2, <2>2 DEF head
<1>5. todo' \in Seq(Event) /\ Len(todo') < DRAIN_BATCH /\ dispatching' \in BOOLEAN
  <2>1. CASE todo' = SubSeq(batch, k + 1, Len(batch))
    <3>1. Len(batch) - (k + 1) + 1 < DRAIN_BATCH
      BY <1>1
    <3> QED
      BY <1>2, <1>3, <2>1, <3>1 DEF PartTyped
  <2>2. CASE todo' = <<>>
    <3>1. <<>> \in Seq(Event) /\ Len(<<>>) = 0 /\ 0 < DRAIN_BATCH
      BY <1>1, EmptySeq
    <3> QED
      BY <1>2, <2>2, <3>1, Zenon
  <2> QED
    BY <1>2, <2>1, <2>2
<1>6. /\ flight' \in [Task -> Seq(Event)] /\ \A u \in Task : Len(flight'[u]) <= FLUSH_BATCH
      /\ overlapped' \in BOOLEAN
  <2>1. CASE UNCHANGED <<flight, overlapped>>
    BY <2>1 DEF TypeOK
  <2>2. CASE BeginFlush("consumer", pending')
    <3>1. "consumer" \in Task
      BY DEF Task
    <3> QED
      BY <1>4, <2>2, <3>1, BeginTyped
  <2> QED
    BY <1>2, <2>1, <2>2
<1> QED
  BY <1>4, <1>5, <1>6

LEMMA InitTyped == Init => TypeOK
<1>1. <<>> \in Seq(Event) /\ <<>> \in Seq(Event \cup {STOP}) /\ Len(<<>>) = 0
  BY EmptySeq
<1> SUFFICES ASSUME Init PROVE TypeOK
  OBVIOUS
<1>2. /\ events_queue \in Seq(Event \cup {STOP})
      /\ pending \in Seq(Event) /\ Len(pending) <= PENDING_MAX
      /\ todo \in Seq(Event) /\ Len(todo) < DRAIN_BATCH
  BY <1>1, BufferAssumption DEF Init
<1>3. flight \in [Task -> Seq(Event)] /\ \A t \in Task : Len(flight[t]) <= FLUSH_BATCH
  BY <1>1, BufferAssumption DEF Init
<1>4. detected \in 0..MaxEvents
  BY BufferAssumption DEF Init
<1> QED
  BY <1>2, <1>3, <1>4 DEF Init, TypeOK

LEMMA DrainedTyped ==
  ASSUME TypeOK
  PROVE  /\ Len(events_queue) \in Nat /\ Len(Drained) \in 0..Len(events_queue)
         /\ Len(Drained) <= DRAIN_BATCH
         /\ \A i \in 1..Len(Drained) : Drained[i] = events_queue[i]
         /\ \A i \in 1..Len(Drained) : Drained[i] \in Event \cup {STOP}
         /\ Drained \in Seq(Event \cup {STOP})
<1> DEFINE n == IF Len(events_queue) < DRAIN_BATCH THEN Len(events_queue) ELSE DRAIN_BATCH
<1>1. /\ events_queue \in Seq(Event \cup {STOP}) /\ Len(events_queue) \in Nat
      /\ \A i \in 1..Len(events_queue) : events_queue[i] \in Event \cup {STOP}
  BY LenProperties, ElementOfSeq DEF TypeOK
<1>2. n \in 0..Len(events_queue) /\ n <= DRAIN_BATCH
  BY <1>1, BufferAssumption
<1>3. Drained = SubSeq(events_queue, 1, n)
  BY DEF Drained
<1> HIDE DEF n
<1>4. \A i \in 1..n : events_queue[i] \in Event \cup {STOP}
  BY <1>1, <1>2
<1>5. /\ Drained \in Seq(Event \cup {STOP})
      /\ Len(Drained) = IF 1 <= n THEN n - 1 + 1 ELSE 0
      /\ \A i \in 1..(n - 1 + 1) : Drained[i] = events_queue[1 + i - 1]
  BY <1>1, <1>2, <1>3, <1>4, SubSeqProperties
<1>6. Len(Drained) = n /\ \A i \in 1..n : Drained[i] = events_queue[i]
  BY <1>2, <1>5
<1> QED
  BY <1>1, <1>2, <1>4, <1>5, <1>6

\* Without STOP, what is drained are events.
LEMMA DrainedEvents ==
  ASSUME TypeOK, ~Contains(Drained, STOP)
  PROVE  Drained \in Seq(Event)
<1>1. \A i \in 1..Len(Drained) : Drained[i] # STOP
  BY DrainedTyped DEF Contains
<1>2. \A i \in 1..Len(Drained) : Drained[i] \in Event
  BY <1>1, DrainedTyped
<1> QED
  BY <1>2, DrainedTyped, LenProperties, SeqDef

\* There is one STOP: what was drained before it are the next events.
LEMMA StopFound ==
  ASSUME TypeOK, NEW g \in 0..detected, QueueInPlace(g),
         NEW k \in 1..Len(Drained), Drained[k] = STOP
  PROVE  /\ phase = "run" /\ Len(events_queue) = detected - g + 1
         /\ ToSet(SubSeq(Drained, 1, k - 1)) = (g + 1)..(g + k - 1) /\ g + k - 1 <= detected
         /\ \A i \in (k + 1)..Len(events_queue) : events_queue[i] = g + i - 1
<1>1. /\ Len(events_queue) \in Nat /\ k \in 1..Len(events_queue) /\ events_queue[k] = 0
      /\ g \in Nat /\ detected \in Nat
  BY DrainedTyped, BufferAssumption DEF STOP, TypeOK
<1>2. PICK p \in 1..Len(events_queue) :
        /\ phase = "run" /\ Len(events_queue) = detected - g + 1
        /\ \A i \in 1..(p - 1) : events_queue[i] = g + i
        /\ \A i \in (p + 1)..Len(events_queue) : events_queue[i] = g + i - 1
  <2>1. ~Run(events_queue, g)
    BY <1>1 DEF Run
  <2> QED
    BY <2>1 DEF QueueInPlace
<1>3. p = k
  <2>1. ~(k < p)
    BY <1>1, <1>2
  <2>2. ~(k > p)
    BY <1>1, <1>2
  <2> QED
    BY <1>1, <2>1, <2>2
<1>4. \A i \in 1..(k - 1) : Drained[i] = g + i /\ Drained[i] \in Event
  <2> SUFFICES ASSUME NEW i \in 1..(k - 1) PROVE Drained[i] = g + i /\ Drained[i] \in Event
    OBVIOUS
  <2>1. i \in 1..Len(Drained) /\ i \in 1..Len(events_queue)
    BY <1>1, DrainedTyped
  <2>2. Drained[i] = g + i
    BY <1>2, <1>3, <2>1, DrainedTyped
  <2>3. Drained[i] \in Event \cup {STOP} /\ Drained[i] # STOP
    BY <1>1, <2>1, <2>2, DrainedTyped DEF STOP
  <2> QED
    BY <2>2, <2>3
<1> DEFINE front == SubSeq(Drained, 1, k - 1)
<1>5. /\ front \in Seq(Event) /\ Len(front) = k - 1
      /\ \A i \in 1..(k - 1) : front[i] = Drained[i]
  <2>1. k - 1 \in Int /\ k - 1 >= 0
    BY <1>1
  <2>2. /\ front \in Seq(Event)
        /\ Len(front) = IF 1 <= k - 1 THEN (k - 1) - 1 + 1 ELSE 0
        /\ \A i \in 1..((k - 1) - 1 + 1) : front[i] = Drained[1 + i - 1]
    BY <1>4, <2>1, SubSeqProperties
  <2> QED
    BY <1>1, <2>1, <2>2
<1> HIDE DEF front
<1>6. ToSet(front) = (g + 1)..(g + (k - 1))
  <2>1. Run(front, g)
    BY <1>4, <1>5 DEF Run
  <2>2. g \in Int /\ front \in Seq(Event)
    BY <1>1, <1>5
  <2>3. ToSet(front) = (g + 1)..(g + Len(front))
    BY <2>1, <2>2, RunSet
  <2> QED
    BY <1>5, <2>3
<1> QED
  BY <1>1, <1>2, <1>3, <1>6 DEF front

LEMMA TypeStep == TypeOK /\ EventsInPlace /\ [Next]_vars => TypeOK'
<1> SUFFICES ASSUME TypeOK, EventsInPlace, [Next]_vars PROVE TypeOK'
  OBVIOUS
<1>1. CASE Detect
  <2>1. detected + 1 \in Event /\ detected' \in 0..MaxEvents
    BY <1>1, BufferAssumption DEF Detect, TypeOK, Event
  <2>2. events_queue' \in Seq(Event \cup {STOP})
    BY <1>1, <2>1, AppendProperties DEF Detect, TypeOK
  <2> QED
    BY <1>1, <2>1, <2>2 DEF Detect, TypeOK, history
<1>2. CASE StopRequested
  <2>1. events_queue' \in Seq(Event \cup {STOP})
    BY <1>2, AppendProperties DEF StopRequested, TypeOK
  <2> QED
    BY <1>2, <2>1 DEF StopRequested, TypeOK, history
<1>3. CASE SaveConnection \/ ConfigFetched \/ UNCHANGED vars
  BY <1>3 DEF SaveConnection, ConfigFetched, vars, TypeOK, history
<1>4. CASE ConsumerGet
  <2>1. CASE Contains(Drained, STOP)
    <3>1. PICK k \in 1..Len(Drained) :
            /\ events_queue' = SubSeq(events_queue, k + 1, Len(events_queue))
            /\ Drained[k] = STOP
            /\ dropped' = ToSet(SubSeq(Drained, 1, k - 1))
      BY <1>4, <2>1 DEF ConsumerGet
    <3>2. events_queue' \in Seq(Event \cup {STOP})
      <4>1. /\ k \in Nat /\ Len(events_queue) \in Nat
            /\ \A i \in (k + 1)..Len(events_queue) : events_queue[i] \in Event \cup {STOP}
        BY DrainedTyped, ElementOfSeq DEF TypeOK
      <4> QED
        BY <3>1, <4>1, SubSeqProperties DEF TypeOK
    <3>3. dropped' \subseteq Event
      <4>1. PICK g \in 0..detected : QueueInPlace(g)
        BY DEF EventsInPlace, InPlace
      <4>2. dropped' = (g + 1)..(g + k - 1) /\ g + k - 1 <= detected
        BY <3>1, <4>1, StopFound, BufferAssumption DEF TypeOK
      <4> QED
        BY <4>1, <4>2, BufferAssumption DEF TypeOK, Event
    <3> QED
      BY <1>4, <2>1, <3>2, <3>3 DEF ConsumerGet, TypeOK
  <2>2. CASE ~Contains(Drained, STOP)
    <3>1. /\ Handle(Drained)
          /\ events_queue' = SubSeq(events_queue, Len(Drained) + 1, Len(events_queue))
          /\ UNCHANGED <<phase, dropped>>
      BY <1>4, <2>2 DEF ConsumerGet
    <3>2. events_queue' \in Seq(Event \cup {STOP})
      <4> DEFINE n == Len(Drained)
      <4>1. /\ n \in Nat /\ Len(events_queue) \in Nat
            /\ \A i \in (n + 1)..Len(events_queue) : events_queue[i] \in Event \cup {STOP}
        BY DrainedTyped, ElementOfSeq DEF TypeOK
      <4>2. events_queue' = SubSeq(events_queue, n + 1, Len(events_queue))
        BY <3>1
      <4> HIDE DEF n
      <4> QED
        BY <4>1, <4>2, SubSeqProperties DEF TypeOK
    <3>3. Drained \in Seq(Event) /\ Len(Drained) <= DRAIN_BATCH
      BY <2>2, DrainedEvents, DrainedTyped
    <3>4. /\ pending' \in Seq(Event) /\ Len(pending') <= PENDING_MAX /\ evicted' \subseteq Event
          /\ todo' \in Seq(Event) /\ Len(todo') < DRAIN_BATCH /\ dispatching' \in BOOLEAN
          /\ flight' \in [Task -> Seq(Event)] /\ \A u \in Task : Len(flight'[u]) <= FLUSH_BATCH
          /\ overlapped' \in BOOLEAN
      BY <3>1, <3>3, HandleTyped
    <3> QED
      BY <1>4, <3>1, <3>2, <3>4 DEF ConsumerGet, TypeOK
  <2> QED
    BY <2>1, <2>2
<1>5. CASE DispatchDone
  <2>1. CASE todo = <<>>
    <3>1. "consumer" \in Task /\ BeginFlush("consumer", pending) /\ pending \in Seq(Event)
      BY <1>5, <2>1 DEF DispatchDone, Task, TypeOK
    <3>2. /\ flight' \in [Task -> Seq(Event)] /\ \A u \in Task : Len(flight'[u]) <= FLUSH_BATCH
          /\ overlapped' \in BOOLEAN
      BY <3>1, BeginTyped
    <3> QED
      BY <1>5, <2>1, <3>2 DEF DispatchDone, TypeOK
  <2>2. CASE todo # <<>>
    <3>1. todo \in Seq(Event) /\ Len(todo) <= DRAIN_BATCH /\ Handle(todo)
      BY <1>5, <2>2, BufferAssumption, Lengths DEF DispatchDone, TypeOK
    <3>2. /\ pending' \in Seq(Event) /\ Len(pending') <= PENDING_MAX /\ evicted' \subseteq Event
          /\ todo' \in Seq(Event) /\ Len(todo') < DRAIN_BATCH /\ dispatching' \in BOOLEAN
          /\ flight' \in [Task -> Seq(Event)] /\ \A u \in Task : Len(flight'[u]) <= FLUSH_BATCH
          /\ overlapped' \in BOOLEAN
      BY <3>1, HandleTyped
    <3> QED
      BY <1>5, <2>2, <3>2 DEF DispatchDone, TypeOK
  <2> QED
    BY <2>1, <2>2
<1>6. CASE HeartbeatFlush
  <2>1. "heartbeat" \in Task /\ BeginFlush("heartbeat", pending) /\ pending \in Seq(Event)
    BY <1>6 DEF HeartbeatFlush, Task, TypeOK
  <2>2. /\ flight' \in [Task -> Seq(Event)] /\ \A u \in Task : Len(flight'[u]) <= FLUSH_BATCH
        /\ overlapped' \in BOOLEAN
    BY <2>1, BeginTyped
  <2> QED
    BY <1>6, <2>2 DEF HeartbeatFlush, TypeOK
<1>7. CASE Cancelled
  <2>1. /\ flight' \in [Task -> Seq(Event)] /\ \A u \in Task : Len(flight'[u]) <= FLUSH_BATCH
    BY <1>7, EmptySeq, BufferAssumption DEF Cancelled
  <2> QED
    BY <1>7, <2>1 DEF Cancelled, TypeOK, history
<1>8. ASSUME NEW t \in Task, FlushAccepted(t) \/ FlushRejected(t) \/ FlushFailed(t)
      PROVE  TypeOK'
  <2>1. ToSet(flight[t]) \subseteq Event /\ Len(flight[t]) \in Nat
    <3>1. flight[t] \in Seq(Event)
      BY DEF TypeOK
    <3>2. /\ Len(flight[t]) \in Nat /\ DOMAIN flight[t] = 1..Len(flight[t])
          /\ \A i \in 1..Len(flight[t]) : flight[t][i] \in Event
      BY <3>1, LenProperties, Lengths
    <3> QED
      BY <3>2 DEF ToSet
  <2>2. EndFlight(t)
    BY <1>8 DEF FlushAccepted, FlushRejected, FlushFailed
  <2>3. /\ flight' \in [Task -> Seq(Event)] /\ \A u \in Task : Len(flight'[u]) <= FLUSH_BATCH
    BY <2>2, EndTyped
  <2>4. /\ AfterPop(Len(flight[t])) \in Seq(Event)
        /\ Len(AfterPop(Len(flight[t]))) <= PENDING_MAX
    BY <2>1, PopTyped
  <2>5. CASE FlushAccepted(t)
    BY <2>1, <2>3, <2>4, <2>5 DEF FlushAccepted, Processed, TypeOK
  <2>6. CASE FlushRejected(t)
    BY <2>1, <2>3, <2>4, <2>6 DEF FlushRejected, TypeOK
  <2>7. CASE FlushFailed(t)
    BY <2>1, <2>3, <2>7 DEF FlushFailed, Processed, TypeOK
  <2> QED
    BY <1>8, <2>5, <2>6, <2>7
<1> QED
  BY <1>1, <1>2, <1>3, <1>4, <1>5, <1>6, <1>7, <1>8 DEF Next

-----------------------------------------------------------------------------
(* Steps on the buffer and on the batches in flight. *)

\* Two batches in flight at once are an overlap.
LEMMA BeginFlight ==
  ASSUME TypeOK, NEW t \in Task, NEW s \in Seq(Event), BeginFlush(t, s)
  PROVE  /\ flight'[t] = FlushBatch(s) /\ \A u \in Task : u # t => flight'[u] = flight[u]
         /\ ~overlapped' => /\ ~overlapped
                            /\ \A u, v \in Task : flight'[u] # <<>> /\ flight'[v] # <<>> => u = v
<1>1. /\ flight'[t] = FlushBatch(s) /\ \A u \in Task : u # t => flight'[u] = flight[u]
      /\ ~overlapped' => ~overlapped /\ \E u \in Task : flight'[u] = <<>>
  BY DEF BeginFlush, TypeOK
<1>2. \A u, v \in Task : u # v => \A w \in Task : w = u \/ w = v
  BY DEF Task
<1> QED
  BY <1>1, <1>2

\* The buffer grows at its new end, an eviction takes from its old one, and a new flush
\* takes the front of what results.
LEMMA Grown ==
  ASSUME TypeOK, TypeOK', NEW h \in Nat, NEW i \in Nat, h <= i, BufferInPlace(h),
         Len(pending') <= i, Run(pending', i - Len(pending')),
         h - Len(pending) <= i - Len(pending'),
         \A u \in Task :
           \/ flight'[u] = <<>> \/ flight'[u] = flight[u]
           \/ Run(flight'[u], i - Len(pending')) /\ Len(flight'[u]) <= Len(pending'),
         ~overlapped' => /\ ~overlapped
                         /\ \A u, v \in Task : flight'[u] # <<>> /\ flight'[v] # <<>> => u = v,
         evicted' \subseteq 1..i,
         evicted' = {} => /\ evicted = {} /\ h - Len(pending) = i - Len(pending')
                          /\ Len(pending) <= Len(pending'),
         UNCHANGED <<stored, rejected, resent, replyLost>>
  PROVE  BufferInPlace(i)'
<1> DEFINE l == h - Len(pending)
           m == i - Len(pending')
<1>1. /\ Len(pending) \in Nat /\ Len(pending') \in Nat /\ l \in Nat /\ m \in Nat /\ l <= m
      /\ m + Len(pending') = i /\ Run(pending', m)
  BY Lengths DEF TypeOK, BufferInPlace
<1>2. \A u \in Task : /\ flight[u] \in Seq(Event) /\ flight'[u] \in Seq(Event)
                      /\ Len(flight'[u]) \in Nat /\ Len(flight[u]) \in Nat
                      /\ flight[u] # <<>> => flight[u][1] \in Nat
                      /\ flight'[u] # <<>> => flight'[u][1] \in Nat
  <2>1. \A u \in Task : flight[u] \in Seq(Event) /\ flight'[u] \in Seq(Event)
    BY DEF TypeOK
  <2>2. \A s \in Seq(Event) : Len(s) \in Nat /\ (s # <<>> => s[1] \in Nat)
    BY Lengths DEF Event
  <2> QED
    BY <2>1, <2>2
<1>3. \A u \in Task : flight'[u] # <<>> =>
        \/ flight'[u] = flight[u]
        \/ /\ Run(flight'[u], m) /\ Len(flight'[u]) <= Len(pending')
           /\ flight'[u][1] = m + 1
  <2>1. m \in Int
    BY <1>1
  <2> HIDE DEF m
  <2> QED
    BY <1>1, <1>2, <2>1, RunFirst DEF m
<1> HIDE DEF l, m
<1>4. ASSUME NEW u \in Task PROVE FlightInPlace(u, i)'
  <2>1. CASE flight'[u] = <<>>
    BY <2>1 DEF FlightInPlace
  <2>2. CASE flight'[u] = flight[u]
    <3>1. FlightInPlace(u, h)
      BY DEF BufferInPlace
    <3>2. flight[u] # <<>> => flight[u][1] + Len(flight[u]) - 1 <= i
      <4>1. \A a, b \in Nat : a + b - 1 <= h => a + b - 1 <= i
        OBVIOUS
      <4> QED
        BY <1>2, <3>1, <4>1 DEF FlightInPlace
    <3> QED
      BY <2>2, <3>1, <3>2 DEF FlightInPlace
  <2>3. CASE /\ Run(flight'[u], m) /\ Len(flight'[u]) <= Len(pending')
             /\ flight'[u][1] = m + 1
    <3>1. m + 1 >= 1 /\ (m + 1) - 1 = m /\ (m + 1) + Len(flight'[u]) - 1 <= i
      <4>1. \A b, c \in Nat : c <= b => (m + 1) + c - 1 <= m + b
        BY <1>1
      <4>2. Len(flight'[u]) \in Nat
        BY <1>2
      <4>3. (m + 1) + Len(flight'[u]) - 1 <= m + Len(pending')
        BY <1>1, <2>3, <4>1, <4>2
      <4>4. m + Len(pending') = i /\ m + 1 >= 1 /\ (m + 1) - 1 = m
        BY <1>1
      <4> QED
        BY <4>3, <4>4
    <3> QED
      BY <2>3, <3>1 DEF FlightInPlace
  <2> QED
    BY <1>3, <2>1, <2>2, <2>3
<1>5. (stored \cup rejected \cup evicted \subseteq 1..i)'
  <2>1. 1..h \subseteq 1..i
    OBVIOUS
  <2>2. stored' = stored /\ rejected' = rejected /\ stored \cup rejected \subseteq 1..h
    BY DEF BufferInPlace
  <2> QED
    BY <2>1, <2>2, Zenon
<1>6. ASSUME ~overlapped' PROVE Alone(i)'
  <2>1. Alone(h)
    BY <1>6 DEF BufferInPlace
  <2>2. \A u \in Task : flight'[u] # <<>> => flight'[u][1] <= m + 1
    <3>1. \A u \in Task : flight[u] # <<>> => flight[u][1] <= l + 1
      BY <2>1 DEF Alone, l
    <3>2. \A e \in Nat : e <= l + 1 => e <= m + 1
      BY <1>1
    <3>3. m + 1 <= m + 1
      BY <1>1
    <3> QED
      BY <1>2, <1>3, <3>1, <3>2, <3>3
  <2>3. evicted' = {} =>
           /\ 1..m \subseteq stored' \cup rejected'
           /\ \A u \in Task : flight'[u] # <<>> => /\ flight'[u][1] = m + 1
                                                   /\ Len(flight'[u]) <= Len(pending')
    <3> SUFFICES ASSUME evicted' = {}
                 PROVE  /\ 1..m \subseteq stored' \cup rejected'
                        /\ \A u \in Task : flight'[u] # <<>> => /\ flight'[u][1] = m + 1
                                                                /\ Len(flight'[u]) <= Len(pending')
      OBVIOUS
    <3>1. evicted = {} /\ l = m /\ Len(pending) <= Len(pending')
      BY DEF l, m
    <3>2. /\ 1..l \subseteq stored \cup rejected
          /\ \A u \in Task : flight[u] # <<>> => flight[u][1] = l + 1 /\ Len(flight[u]) <= Len(pending)
      BY <2>1, <3>1 DEF Alone, l
    <3>3. \A c \in Nat : c <= Len(pending) => c <= Len(pending')
      BY <1>1, <3>1
    <3> QED
      BY <1>2, <1>3, <3>1, <3>2, <3>3
  <2>4. ~replyLost' =>
           /\ resent' = {}
           /\ \A e \in stored' : /\ e <= m
                                 /\ \A u \in Task : flight'[u] # <<>> => e < flight'[u][1]
    <3> SUFFICES ASSUME ~replyLost, NEW e \in stored
                 PROVE  e <= m /\ \A u \in Task : flight'[u] # <<>> => e < flight'[u][1]
      BY <2>1 DEF Alone
    <3>1. e \in Nat /\ e <= l /\ \A u \in Task : flight[u] # <<>> => e < flight[u][1]
      BY <2>1 DEF Alone, l, TypeOK, Event
    <3>2. e <= m /\ e < m + 1
      BY <1>1, <3>1
    <3> QED
      BY <1>3, <3>1, <3>2
  <2> QED
    BY <1>6, <2>2, <2>3, <2>4 DEF Alone, m
<1> QED
  BY <1>4, <1>5, <1>6 DEF BufferInPlace

\* An answer that pops the batch off the buffer: by then the buffer may be shorter, or
\* start later, than the batch.
LEMMA Popped ==
  ASSUME TypeOK, TypeOK', NEW h \in Nat, BufferInPlace(h), NEW t \in Task, flight[t] # <<>>,
         EndFlight(t), pending' = AfterPop(Len(flight[t])),
         stored' \cup rejected' = stored \cup rejected \cup ToSet(flight[t]),
         stored' \subseteq stored \cup ToSet(flight[t]),
         resent' \subseteq resent \cup (stored \cap ToSet(flight[t])),
         UNCHANGED <<evicted, overlapped, replyLost>>
  PROVE  BufferInPlace(h)'
<1> DEFINE n == Len(flight[t])
           f == flight[t][1]
           l == h - Len(pending)
           m == h - Len(pending')
<1>1. /\ pending \in Seq(Event) /\ Len(pending) \in Nat /\ n \in Nat /\ n >= 1 /\ f \in Nat
      /\ Run(pending, l) /\ Len(pending) <= h
      /\ flight[t] \in Seq(Event)
  <2>1. flight[t] \in Seq(Event) /\ pending \in Seq(Event)
    BY DEF TypeOK
  <2>2. Len(flight[t]) \in Nat /\ Len(flight[t]) # 0 /\ flight[t][1] \in Nat
    BY <2>1, Lengths DEF Event
  <2> QED
    BY <2>1, <2>2, Lengths DEF BufferInPlace
<1>2. /\ f >= 1 /\ f + n - 1 <= h /\ ToSet(flight[t]) = f..(f + n - 1)
  <2>1. f >= 1 /\ Run(flight[t], f - 1) /\ f + n - 1 <= h
    BY DEF BufferInPlace, FlightInPlace
  <2>2. ToSet(flight[t]) = ((f - 1) + 1)..((f - 1) + n)
    <3>1. f - 1 \in Int /\ flight[t] \in Seq(Event)
      BY <1>1
    <3> QED
      BY <2>1, <3>1, RunSet
  <2> HIDE DEF f, n
  <2>3. (f - 1) + 1 = f /\ (f - 1) + n = f + n - 1
    BY <1>1
  <2> QED
    BY <2>1, <2>2, <2>3
<1>3. /\ Len(pending') \in Nat /\ Len(pending') = IF n <= Len(pending) THEN Len(pending) - n ELSE 0
      /\ Run(pending', m)
  <2>1. pending' = AfterPop(n)
    OBVIOUS
  <2> HIDE DEF n
  <2>2. /\ AfterPop(n) \in Seq(Event)
        /\ Len(AfterPop(n)) = IF n <= Len(pending) THEN Len(pending) - n ELSE 0
        /\ Run(AfterPop(n), h - Len(AfterPop(n)))
    BY <1>1, AfterPopRun
  <2> QED
    BY <1>1, <2>1, <2>2
<1>4. /\ l \in Nat /\ m \in Nat /\ l <= m /\ Len(pending') <= h
      /\ m = IF n <= Len(pending) THEN l + n ELSE h
  <2>1. \A p, q, c \in Nat : p <= h /\ q = (IF c <= p THEN p - c ELSE 0) =>
          /\ h - p \in Nat /\ h - q \in Nat /\ h - p <= h - q /\ q <= h
          /\ h - q = IF c <= p THEN (h - p) + c ELSE h
    OBVIOUS
  <2> HIDE DEF n
  <2> QED
    BY <1>1, <1>3, <2>1
<1>5. flight'[t] = <<>> /\ \A u \in Task : u # t => flight'[u] = flight[u]
  BY DEF EndFlight, TypeOK
<1> DEFINE batch == ToSet(flight[t])
<1>6. batch = f..(f + n - 1)
  BY <1>2
<1>7. Run(pending', h - Len(pending')) /\ Len(pending') <= h
  BY <1>3, <1>4
<1>8. ASSUME ~overlapped
      PROVE  /\ \A u \in Task : flight'[u] = <<>>
             /\ f <= l + 1
             /\ evicted = {} => /\ 1..l \subseteq stored \cup rejected
                                /\ f = l + 1 /\ n <= Len(pending)
             /\ ~replyLost => /\ resent = {} /\ \A e \in stored : e <= l /\ e < f
  <2>1. Alone(h)
    BY <1>8 DEF BufferInPlace
  <2>2. \A u \in Task : u # t => flight[u] = <<>>
    BY <2>1 DEF Alone
  <2> QED
    BY <1>5, <2>1, <2>2 DEF Alone
<1> HIDE DEF n, f, l, m, batch
<1>9. ASSUME NEW u \in Task PROVE FlightInPlace(u, h)'
  BY <1>5 DEF FlightInPlace, BufferInPlace
<1>10. (stored \cup rejected \cup evicted \subseteq 1..h)'
  <2>1. stored \cup rejected \cup evicted \subseteq 1..h
    BY DEF BufferInPlace
  <2>2. batch \subseteq 1..h
    BY <1>1, <1>2, <1>6
  <2>3. evicted' = evicted /\ stored' \cup rejected' = stored \cup rejected \cup batch
    BY DEF batch
  <2> QED
    BY <2>1, <2>2, <2>3
<1>11. ASSUME ~overlapped' PROVE Alone(h)'
  <2>1. ~overlapped
    BY <1>11
  <2>2. evicted = {} => 1..m \subseteq stored' \cup rejected'
    <3> SUFFICES ASSUME evicted = {}, NEW e \in 1..m PROVE e \in stored' \cup rejected'
      OBVIOUS
    <3>1. f = l + 1 /\ m = l + n /\ 1..l \subseteq stored \cup rejected
      BY <1>4, <1>8, <2>1
    <3>2. e \in 1..l \/ e \in f..(f + n - 1)
      BY <1>1, <1>4, <3>1
    <3>3. stored' \cup rejected' = stored \cup rejected \cup batch
      BY DEF batch
    <3> QED
      BY <1>6, <3>1, <3>2, <3>3
  <2>3. ~replyLost => resent' = {} /\ \A e \in stored' : e <= m
    <3> SUFFICES ASSUME ~replyLost PROVE resent' = {} /\ \A e \in stored' : e <= m
      OBVIOUS
    <3>1. resent = {} /\ \A e \in stored : e <= l /\ e < f
      BY <1>8, <2>1
    <3>2. stored \subseteq Nat
      BY DEF TypeOK, Event
    <3>3. \A e \in batch : e >= f /\ e <= m
      <4>1. f + n - 1 <= m
        BY <1>1, <1>2, <1>4, <1>8, <2>1
      <4> QED
        BY <1>1, <1>4, <1>6, <4>1
    <3>4. stored \cap batch = {}
      <4> SUFFICES ASSUME NEW e \in stored, e \in batch PROVE FALSE
        OBVIOUS
      <4>1. e \in Nat /\ f \in Nat /\ e < f /\ e >= f
        BY <1>1, <3>1, <3>2, <3>3
      <4> QED
        BY <4>1
    <3>5. resent' = {}
      BY <3>1, <3>4 DEF batch
    <3>6. \A e \in stored : e <= m
      BY <1>4, <3>1, <3>2
    <3>7. stored' \subseteq stored \cup batch
      BY DEF batch
    <3> QED
      BY <3>3, <3>5, <3>6, <3>7
  <2> QED
    BY <1>8, <2>1, <2>2, <2>3 DEF Alone, m
<1> QED
  BY <1>7, <1>9, <1>10, <1>11 DEF BufferInPlace

LEMMA FlightSet ==
  ASSUME TypeOK, NEW t \in Task, NEW h \in Nat, FlightInPlace(t, h)
  PROVE  ToSet(flight[t]) \subseteq 1..h
<1>1. flight[t] \in Seq(Event)
  BY DEF TypeOK
<1>2. CASE flight[t] = <<>>
  <2>1. DOMAIN <<>> = {}
    BY EmptySeq
  <2> QED
    BY <1>2, <2>1 DEF ToSet
<1>3. CASE flight[t] # <<>>
  <2> DEFINE f == flight[t][1]
             n == Len(flight[t])
  <2>1. n \in Nat /\ n # 0 /\ f \in Nat /\ f >= 1 /\ Run(flight[t], f - 1) /\ f + n - 1 <= h
    BY <1>1, <1>3, Lengths DEF FlightInPlace, Event
  <2>2. f - 1 \in Int
    BY <2>1
  <2>3. ToSet(flight[t]) = ((f - 1) + 1)..((f - 1) + n)
    BY <1>1, <2>1, <2>2, RunSet
  <2> HIDE DEF f, n
  <2> QED
    BY <2>1, <2>3
<1> QED
  BY <1>2, <1>3

\* An answer that leaves the buffer alone; a lost one the server has already processed.
LEMMA Kept ==
  ASSUME TypeOK, TypeOK', NEW h \in Nat, BufferInPlace(h), NEW t \in Task, FlushFailed(t)
  PROVE  BufferInPlace(h)'
<1>1. /\ flight[t] # <<>> /\ flight'[t] = <<>> /\ \A u \in Task : u # t => flight'[u] = flight[u]
      /\ UNCHANGED <<pending, rejected, evicted, overlapped>>
      /\ \/ UNCHANGED <<stored, resent, replyLost>>
         \/ stored' = stored \cup ToSet(flight[t]) /\ replyLost'
  BY DEF FlushFailed, Processed, EndFlight, TypeOK
<1>2. ToSet(flight[t]) \subseteq 1..h
  BY FlightSet DEF BufferInPlace
<1>3. ASSUME NEW u \in Task PROVE FlightInPlace(u, h)'
  BY <1>1 DEF FlightInPlace, BufferInPlace
<1>4. (stored \cup rejected \cup evicted \subseteq 1..h)'
  BY <1>1, <1>2 DEF BufferInPlace
<1>5. ASSUME ~overlapped' PROVE Alone(h)'
  <2>1. Alone(h)
    BY <1>1, <1>5 DEF BufferInPlace
  <2>2. \A u \in Task : flight'[u] = <<>>
    BY <1>1, <2>1 DEF Alone
  <2>3. evicted' = {} => 1..(h - Len(pending')) \subseteq stored' \cup rejected'
    BY <1>1, <2>1 DEF Alone
  <2>4. ~replyLost' => resent' = {} /\ \A e \in stored' : e <= h - Len(pending')
    BY <1>1, <2>1 DEF Alone
  <2> QED
    BY <2>2, <2>3, <2>4 DEF Alone
<1> QED
  BY <1>1, <1>3, <1>4, <1>5 DEF BufferInPlace

\* A flush that leaves the buffer alone, and the end of all flights.
LEMMA Flushing ==
  ASSUME TypeOK, TypeOK', NEW h \in Nat, BufferInPlace(h), NEW t \in Task, BeginFlush(t, pending),
         UNCHANGED <<pending, stored, rejected, evicted, resent, replyLost>>
  PROVE  BufferInPlace(h)'
<1>1. pending \in Seq(Event) /\ Len(pending) \in Nat /\ Run(pending, h - Len(pending)) /\ Len(pending) <= h
  BY Lengths DEF TypeOK, BufferInPlace
<1>2. /\ flight'[t] = FlushBatch(pending) /\ \A u \in Task : u # t => flight'[u] = flight[u]
      /\ ~overlapped' => /\ ~overlapped
                         /\ \A u, v \in Task : flight'[u] # <<>> /\ flight'[v] # <<>> => u = v
  BY <1>1, BeginFlight
<1>3. Run(FlushBatch(pending), h - Len(pending)) /\ Len(FlushBatch(pending)) <= Len(pending)
  <2>1. h - Len(pending) \in Int
    BY <1>1
  <2> QED
    BY <1>1, <2>1, BatchIsFront
<1>4. \A u \in Task :
        \/ flight'[u] = <<>> \/ flight'[u] = flight[u]
        \/ Run(flight'[u], h - Len(pending')) /\ Len(flight'[u]) <= Len(pending')
  BY <1>2, <1>3
<1>5. evicted' \subseteq 1..h /\ Len(pending') = Len(pending) /\ h <= h /\ pending' = pending
  BY DEF BufferInPlace
<1>6. h - Len(pending) <= h - Len(pending') /\ Len(pending) <= Len(pending')
  BY <1>1, <1>5
<1> QED
  BY <1>1, <1>2, <1>4, <1>5, <1>6, Grown

\* What a step does to the buffer, which ends with h before it and with i after it: it
\* takes events, an answer lets some go, or it stays.
Takes(h, i) ==
  /\ h < i /\ Len(pending') <= Len(pending) + (i - h)
  /\ Len(pending') = PENDING_MAX \/ Len(pending') = Len(pending) + (i - h)
  /\ evicted' = evicted \cup ((h - Len(pending) + 1)..(i - Len(pending')))
  /\ overlapped => overlapped'
  /\ UNCHANGED <<stored, rejected>>

Answers(t) ==
  LET settled == stored \cup rejected
      more == settled \cup ToSet(flight[t])
  IN  /\ flight[t] # <<>>
      /\ \/ pending' = pending /\ stored' \cup rejected' \in {settled, more}
         \/ pending' = AfterPop(Len(flight[t])) /\ stored' \cup rejected' = more
      /\ UNCHANGED <<evicted, overlapped>>

Stays ==
  UNCHANGED <<pending, stored, rejected, evicted>> /\ (overlapped => overlapped')

Moves(h, i) ==
  \/ i = h /\ Stays
  \/ i = h /\ \E t \in Task : Answers(t)
  \/ i <= h + DRAIN_BATCH /\ Takes(h, i)

LEMMA Handling ==
  ASSUME TypeOK, TypeOK', NEW h \in Nat, BufferInPlace(h), NEW batch \in Seq(Event),
         Run(batch, h), Handle(batch), UNCHANGED <<stored, rejected, resent, replyLost>>
  PROVE  \E i \in h..(h + Len(batch)) :
           /\ BufferInPlace(i)' /\ Run(todo', i) /\ Len(todo') = h + Len(batch) - i
           /\ ~dispatching' => todo' = <<>>
           /\ Takes(h, i)
<1>1. /\ pending \in Seq(Event) /\ Len(pending) \in Nat /\ Run(pending, h - Len(pending))
      /\ Len(pending) <= h /\ Len(batch) \in Nat
  BY Lengths DEF TypeOK, BufferInPlace
<1>2. PICK k \in 1..Len(batch) :
        /\ pending' = Buffered(SubSeq(batch, 1, k))
        /\ evicted' = evicted \cup PushedOut(SubSeq(batch, 1, k))
        /\ \/ /\ dispatching' = TRUE
              /\ todo' = SubSeq(batch, k + 1, Len(batch))
              /\ UNCHANGED <<flight, overlapped>>
           \/ /\ k = Len(batch) /\ dispatching' = FALSE
              /\ todo' = <<>>
              /\ BeginFlush("consumer", pending')
  BY DEF Handle
<1> DEFINE head == SubSeq(batch, 1, k)
           i == h + k
<1>3. head \in Seq(Event) /\ Len(head) = k /\ Run(head, h)
  <2>1. 1 \in 1..(Len(batch) + 1) /\ k \in (1 - 1)..Len(batch) /\ h + 1 - 1 = h /\ k - 1 + 1 = k
    BY <1>1
  <2>2. head \in Seq(Event) /\ Len(head) = k - 1 + 1 /\ Run(head, h + 1 - 1)
    BY <2>1, RunPart
  <2> QED
    BY <2>1, <2>2
<1>4. pending' = Buffered(head) /\ evicted' = evicted \cup PushedOut(head)
  BY <1>2
<1>5. i \in Nat /\ h <= i /\ i \in h..(h + Len(batch)) /\ k \in Nat
  BY <1>1
<1> HIDE DEF head
<1>6. /\ Len(pending') <= Len(pending) + k /\ Run(pending', i - Len(pending'))
      /\ Len(pending') = PENDING_MAX \/ Len(pending') = Len(pending) + k
      /\ evicted' = evicted \cup ((h - Len(pending) + 1)..(i - Len(pending')))
      /\ pending' \in Seq(Event) /\ Len(pending') \in Nat
  <2>1. /\ Buffered(head) \in Seq(Event)
        /\ Len(Buffered(head)) <= Len(pending) + Len(head)
        /\ Len(Buffered(head)) = PENDING_MAX \/ Len(Buffered(head)) = Len(pending) + Len(head)
        /\ Run(Buffered(head), (h + Len(head)) - Len(Buffered(head)))
        /\ PushedOut(head) = (h - Len(pending) + 1)..((h + Len(head)) - Len(Buffered(head)))
    BY <1>1, <1>3, BufferedRun
  <2> QED
    BY <1>3, <1>4, <2>1, Lengths
<1>7. /\ Len(pending') <= i /\ h - Len(pending) <= i - Len(pending')
      /\ Len(pending) \in Nat /\ h - Len(pending) \in Nat /\ i - Len(pending') \in Nat
  <2>1. \A p, q \in Nat : p <= h /\ q <= p + k =>
          q <= i /\ h - p <= i - q /\ h - p \in Nat /\ i - q \in Nat
    BY <1>5
  <2> QED
    BY <1>1, <1>6, <2>1
<1>8. evicted' \subseteq 1..i
  <2>1. \A l, m \in Nat : m <= i => (l + 1)..m \subseteq 1..i
    BY <1>5
  <2>2. i - Len(pending') <= i
    BY <1>5, <1>6
  <2>3. evicted \subseteq 1..h /\ 1..h \subseteq 1..i
    BY <1>5 DEF BufferInPlace
  <2> DEFINE l == h - Len(pending)
             m == i - Len(pending')
  <2>4. l \in Nat /\ m \in Nat /\ m <= i /\ evicted' = evicted \cup ((l + 1)..m)
    BY <1>6, <1>7, <2>2
  <2> HIDE DEF l, m, i
  <2>5. (l + 1)..m \subseteq 1..i
    BY <2>1, <2>4
  <2> QED
    BY <2>3, <2>4, <2>5, Zenon
<1>9. evicted' = {} => /\ evicted = {} /\ h - Len(pending) = i - Len(pending')
                       /\ Len(pending) <= Len(pending')
  <2> SUFFICES ASSUME evicted' = {}
               PROVE  /\ evicted = {} /\ h - Len(pending) = i - Len(pending')
                      /\ Len(pending) <= Len(pending')
    OBVIOUS
  <2>1. evicted = {} /\ (h - Len(pending) + 1)..(i - Len(pending')) = {}
    BY <1>6
  <2>2. \A l, m \in Nat : l <= m /\ (l + 1)..m = {} => l = m
    <3> SUFFICES ASSUME NEW l \in Nat, NEW m \in Nat, l <= m, (l + 1)..m = {} PROVE l = m
      OBVIOUS
    <3>1. ~(m \in (l + 1)..m)
      OBVIOUS
    <3> QED
      BY <3>1
  <2>3. h - Len(pending) = i - Len(pending')
    BY <1>7, <2>1, <2>2
  <2> QED
    BY <1>1, <1>5, <1>6, <2>1, <2>3
<1> HIDE DEF i
<1>10. /\ \A u \in Task :
            \/ flight'[u] = <<>> \/ flight'[u] = flight[u]
            \/ Run(flight'[u], i - Len(pending')) /\ Len(flight'[u]) <= Len(pending')
       /\ ~overlapped' => /\ ~overlapped
                          /\ \A u, v \in Task : flight'[u] # <<>> /\ flight'[v] # <<>> => u = v
  <2>1. CASE UNCHANGED <<flight, overlapped>>
    BY <2>1 DEF BufferInPlace, Alone
  <2>2. CASE BeginFlush("consumer", pending')
    <3>1. "consumer" \in Task
      BY DEF Task
    <3>2. /\ flight'["consumer"] = FlushBatch(pending')
          /\ \A u \in Task : u # "consumer" => flight'[u] = flight[u]
          /\ ~overlapped' => /\ ~overlapped
                             /\ \A u, v \in Task : flight'[u] # <<>> /\ flight'[v] # <<>> => u = v
      BY <1>6, <2>2, <3>1, BeginFlight
    <3>3. Run(FlushBatch(pending'), i - Len(pending')) /\ Len(FlushBatch(pending')) <= Len(pending')
      <4>1. i - Len(pending') \in Int
        BY <1>7
      <4> QED
        BY <1>6, <4>1, BatchIsFront
    <3> QED
      BY <3>2, <3>3
  <2> QED
    BY <1>2, <2>1, <2>2
<1>11. BufferInPlace(i)'
  BY <1>5, <1>6, <1>7, <1>8, <1>9, <1>10, Grown
<1>12. Run(todo', i) /\ Len(todo') = h + Len(batch) - i /\ (~dispatching' => todo' = <<>>)
  <2>1. CASE dispatching' = TRUE /\ todo' = SubSeq(batch, k + 1, Len(batch))
    <3> DEFINE m == k + 1
    <3>1. /\ m \in 1..(Len(batch) + 1) /\ Len(batch) \in (m - 1)..Len(batch)
          /\ todo' = SubSeq(batch, m, Len(batch))
          /\ h + m - 1 = i /\ Len(batch) - m + 1 = h + Len(batch) - i
      BY <1>1, <1>5, <2>1 DEF i
    <3> HIDE DEF m
    <3>2. /\ Len(SubSeq(batch, m, Len(batch))) = Len(batch) - m + 1
          /\ Run(SubSeq(batch, m, Len(batch)), h + m - 1)
      <4>1. h \in Int
        OBVIOUS
      <4> QED
        BY <3>1, <4>1, RunPart
    <3> QED
      BY <2>1, <3>1, <3>2, Zenon
  <2>2. CASE k = Len(batch) /\ todo' = <<>>
    <3>1. h + Len(batch) - i = 0 /\ Len(<<>>) = 0
      BY <1>1, <2>2, <1>5 DEF i
    <3> QED
      BY <2>2, <3>1 DEF Run
  <2> QED
    BY <1>2, <2>1, <2>2
<1>13. Takes(h, i)
  <2>1. h < i /\ i - h = k
    BY <1>1, <1>5 DEF i
  <2>2. overlapped => overlapped'
    BY <1>10
  <2> QED
    BY <1>6, <2>1, <2>2 DEF Takes
<1> QED
  BY <1>5, <1>11, <1>12, <1>13

-----------------------------------------------------------------------------
(* Steps on the thread queue. *)

LEMMA QueueOf ==
  ASSUME TypeOK
  PROVE  /\ Len(events_queue) \in Nat /\ detected \in Nat
         /\ \A g \in 0..detected : g \in Nat
BY DrainedTyped, BufferAssumption DEF TypeOK

LEMMA QueueGrows ==
  ASSUME TypeOK, NEW g \in 0..detected, QueueInPlace(g), Detect
  PROVE  QueueInPlace(g)'
<1>1. /\ Len(events_queue) \in Nat /\ detected \in Nat /\ detected' = detected + 1 /\ phase' = phase
      /\ g \in Nat
  BY QueueOf DEF Detect
<1>2. /\ Len(events_queue') = Len(events_queue) + 1
      /\ \A i \in 1..Len(events_queue) : events_queue'[i] = events_queue[i]
      /\ events_queue'[Len(events_queue) + 1] = detected + 1
  BY AppendProperties DEF Detect, TypeOK
<1>3. CASE Run(events_queue, g) /\ Len(events_queue) = detected - g
  BY <1>1, <1>2, <1>3 DEF QueueInPlace, Run
<1>4. CASE ~(Run(events_queue, g) /\ Len(events_queue) = detected - g)
  <2>1. PICK p \in 1..Len(events_queue) :
          /\ phase = "run" /\ Len(events_queue) = detected - g + 1
          /\ events_queue[p] = STOP
          /\ \A i \in 1..(p - 1) : events_queue[i] = g + i
          /\ \A i \in (p + 1)..Len(events_queue) : events_queue[i] = g + i - 1
    BY <1>4 DEF QueueInPlace
  <2>2. p \in 1..Len(events_queue') /\ events_queue'[p] = STOP
    BY <1>1, <1>2, <2>1
  <2>3. \A i \in 1..(p - 1) : events_queue'[i] = g + i
    BY <1>1, <1>2, <2>1
  <2>4. \A i \in (p + 1)..Len(events_queue') : events_queue'[i] = g + i - 1
    <3> SUFFICES ASSUME NEW i \in (p + 1)..(Len(events_queue) + 1)
                 PROVE  events_queue'[i] = g + i - 1
      BY <1>2
    <3>1. CASE i <= Len(events_queue)
      BY <1>1, <1>2, <2>1, <3>1
    <3>2. CASE i = Len(events_queue) + 1
      <4>1. g + i - 1 = detected + 1
        BY <1>1, <2>1, <3>2
      <4> QED
        BY <1>2, <3>2, <4>1
    <3> QED
      BY <1>1, <3>1, <3>2
  <2>5. Len(events_queue') = detected' - g + 1 /\ phase' = "run"
    BY <1>1, <1>2, <2>1
  <2> QED
    BY <2>2, <2>3, <2>4, <2>5 DEF QueueInPlace
<1> QED
  BY <1>3, <1>4

LEMMA QueueStops ==
  ASSUME TypeOK, NEW g \in 0..detected, QueueInPlace(g), StopRequested
  PROVE  QueueInPlace(g)'
<1>1. Len(events_queue) \in Nat /\ detected \in Nat /\ detected' = detected /\ g \in Nat
  BY QueueOf DEF StopRequested
<1>2. /\ Len(events_queue') = Len(events_queue) + 1
      /\ \A i \in 1..Len(events_queue) : events_queue'[i] = events_queue[i]
      /\ events_queue'[Len(events_queue) + 1] = STOP
  BY AppendProperties DEF StopRequested, TypeOK
<1>3. Run(events_queue, g) /\ Len(events_queue) = detected - g
  <2>1. \A i \in 1..Len(events_queue) : events_queue[i] # STOP
    BY <1>1 DEF StopRequested, Contains
  <2> QED
    BY <2>1 DEF QueueInPlace
<1> DEFINE p == Len(events_queue) + 1
<1>4. p \in 1..Len(events_queue') /\ events_queue'[p] = STOP
  BY <1>1, <1>2
<1>5. \A i \in 1..(p - 1) : events_queue'[i] = g + i
  BY <1>1, <1>2, <1>3 DEF Run
<1>6. \A i \in (p + 1)..Len(events_queue') : events_queue'[i] = g + i - 1
  BY <1>1, <1>2
<1>7. Len(events_queue') = detected' - g + 1 /\ phase' = "run"
  BY <1>1, <1>2, <1>3 DEF StopRequested
<1> HIDE DEF p
<1> QED
  BY <1>4, <1>5, <1>6, <1>7 DEF QueueInPlace

\* A drained batch without STOP are the next events, and the queue goes on after them.
LEMMA QueueShrinks ==
  ASSUME TypeOK, NEW g \in 0..detected, QueueInPlace(g), ~Contains(Drained, STOP),
         NEW n, n = Len(Drained),
         events_queue' = SubSeq(events_queue, n + 1, Len(events_queue)),
         UNCHANGED <<phase, detected>>
  PROVE  /\ Run(Drained, g) /\ g + n \in 0..detected
         /\ QueueInPlace(g + n)'
<1> DEFINE q == Len(events_queue)
<1>1. /\ q \in Nat /\ n \in 0..q /\ detected \in Nat /\ g \in Nat /\ g <= detected
      /\ \A i \in 1..n : Drained[i] = events_queue[i] /\ Drained[i] # STOP
  BY DrainedTyped, QueueOf DEF Contains
<1>2. /\ Len(events_queue') = q - n
      /\ \A i \in 1..(q - n) : events_queue'[i] = events_queue[n + i]
  <2> DEFINE c == n + 1
  <2>1. events_queue' = SubSeq(events_queue, c, q) /\ events_queue \in Seq(Event \cup {STOP})
    BY DEF TypeOK
  <2>2. \A i \in c..q : events_queue[i] \in Event \cup {STOP}
    BY <1>1, <2>1, ElementOfSeq
  <2>3. /\ c \in Int /\ q \in Int /\ (IF c <= q THEN q - c + 1 ELSE 0) = q - n
        /\ q - c + 1 = q - n /\ \A i \in Nat : c + i - 1 = n + i
    BY <1>1
  <2> HIDE DEF c, q
  <2>4. /\ Len(events_queue') = IF c <= q THEN q - c + 1 ELSE 0
        /\ \A i \in 1..(q - c + 1) : events_queue'[i] = events_queue[c + i - 1]
    <3>1. /\ Len(SubSeq(events_queue, c, q)) = IF c <= q THEN q - c + 1 ELSE 0
          /\ \A i \in 1..(q - c + 1) : SubSeq(events_queue, c, q)[i] = events_queue[c + i - 1]
      BY <2>2, <2>3, SubSeqProperties
    <3> QED
      BY <2>1, <3>1, Zenon
  <2>5. Len(events_queue') = q - n /\ \A i \in 1..(q - n) : events_queue'[i] = events_queue[c + i - 1]
    BY <2>3, <2>4, Zenon
  <2>6. \A i \in 1..(q - n) : c + i - 1 = n + i
    BY <1>1, <2>3
  <2> QED
    BY <2>5, <2>6, Zenon
<1>3. CASE Run(events_queue, g) /\ q = detected - g
  <2>1. Run(Drained, g)
    BY <1>1, <1>3 DEF Run
  <2> HIDE DEF q
  <2>2. g + n \in 0..detected /\ Len(events_queue') = detected' - (g + n)
    BY <1>1, <1>2, <1>3
  <2>3. \A i \in 1..(q - n) : events_queue'[i] = (g + n) + i
    <3> SUFFICES ASSUME NEW i \in 1..(q - n) PROVE events_queue'[i] = (g + n) + i
      OBVIOUS
    <3>1. n + i \in 1..q /\ g + (n + i) = (g + n) + i
      BY <1>1
    <3>2. events_queue[n + i] = g + (n + i)
      BY <1>3, <3>1 DEF Run, q
    <3> QED
      BY <1>2, <3>1, <3>2
  <2>4. Run(events_queue', g + n)
    BY <1>2, <2>3 DEF Run
  <2> QED
    BY <2>1, <2>2, <2>4 DEF QueueInPlace
<1>4. CASE ~(Run(events_queue, g) /\ q = detected - g)
  <2>1. PICK p \in 1..q :
          /\ phase = "run" /\ q = detected - g + 1
          /\ events_queue[p] = STOP
          /\ \A i \in 1..(p - 1) : events_queue[i] = g + i
          /\ \A i \in (p + 1)..q : events_queue[i] = g + i - 1
    BY <1>4 DEF QueueInPlace
  <2>2. n < p
    BY <1>1, <2>1
  <2>3. Run(Drained, g)
    BY <1>1, <2>1, <2>2 DEF Run
  <2> HIDE DEF q
  <2> DEFINE r == p - n
  <2>4. g + n \in 0..detected /\ Len(events_queue') = detected' - (g + n) + 1 /\ phase' = "run"
    BY <1>1, <1>2, <2>1, <2>2
  <2>5. r \in 1..Len(events_queue') /\ n + r = p
    BY <1>1, <1>2, <2>1, <2>2
  <2>6. events_queue'[r] = STOP
    BY <1>2, <2>1, <2>5
  <2>7. \A i \in 1..(r - 1) : events_queue'[i] = (g + n) + i
    <3> SUFFICES ASSUME NEW i \in 1..(r - 1) PROVE events_queue'[i] = (g + n) + i
      OBVIOUS
    <3>1. n + i \in 1..(p - 1) /\ i \in 1..(q - n) /\ g + (n + i) = (g + n) + i
      BY <1>1, <2>1, <2>2
    <3> QED
      BY <1>2, <2>1, <3>1
  <2>8. \A i \in (r + 1)..Len(events_queue') : events_queue'[i] = (g + n) + i - 1
    <3> SUFFICES ASSUME NEW i \in (r + 1)..(q - n) PROVE events_queue'[i] = (g + n) + i - 1
      BY <1>2
    <3>1. n + i \in (p + 1)..q /\ i \in 1..(q - n) /\ g + (n + i) - 1 = (g + n) + i - 1
      BY <1>1, <2>1, <2>2
    <3> QED
      BY <1>2, <2>1, <3>1
  <2> HIDE DEF r
  <2> QED
    BY <2>3, <2>4, <2>5, <2>6, <2>7, <2>8 DEF QueueInPlace
<1> QED
  BY <1>3, <1>4

\* STOP ends the consumer, and what was drained with it is dropped.
LEMMA QueueEnds ==
  ASSUME TypeOK, NEW g \in 0..detected, QueueInPlace(g),
         NEW k \in 1..Len(Drained), Drained[k] = STOP,
         events_queue' = SubSeq(events_queue, k + 1, Len(events_queue)), UNCHANGED detected
  PROVE  /\ phase = "run" /\ g + k - 1 \in g..detected
         /\ ToSet(SubSeq(Drained, 1, k - 1)) = (g + 1)..(g + k - 1)
         /\ QueueInPlace(g + k - 1)'
<1> DEFINE q == Len(events_queue)
           c == k + 1
           b == g + k - 1
<1>1. /\ q \in Nat /\ k \in 1..q /\ detected \in Nat /\ g \in Nat
  BY DrainedTyped, QueueOf
<1>2. /\ phase = "run" /\ q = detected - g + 1 /\ b <= detected
      /\ ToSet(SubSeq(Drained, 1, k - 1)) = (g + 1)..b
      /\ \A i \in c..q : events_queue[i] = g + i - 1
  BY StopFound
<1>3. events_queue' = SubSeq(events_queue, c, q) /\ events_queue \in Seq(Event \cup {STOP})
  BY DEF TypeOK
<1>4. \A i \in c..q : events_queue[i] \in Event \cup {STOP}
  BY <1>1, <1>3, ElementOfSeq
<1>5. /\ c \in Int /\ q \in Int /\ (IF c <= q THEN q - c + 1 ELSE 0) = q - k
      /\ q - c + 1 = q - k /\ \A i \in Nat : c + i - 1 = k + i
      /\ q - k = detected - b /\ b \in g..detected
  BY <1>1, <1>2
<1> HIDE DEF q
<1>6. Len(events_queue') = q - k /\ \A i \in 1..(q - k) : events_queue'[i] = events_queue[k + i]
  <2> HIDE DEF c
  <2>1. /\ Len(SubSeq(events_queue, c, q)) = IF c <= q THEN q - c + 1 ELSE 0
        /\ \A i \in 1..(q - c + 1) : SubSeq(events_queue, c, q)[i] = events_queue[c + i - 1]
    BY <1>4, <1>5, SubSeqProperties
  <2>2. \A i \in 1..(q - k) : c + i - 1 = k + i
    BY <1>1, <1>5
  <2> QED
    BY <1>3, <1>5, <2>1, <2>2, Zenon
<1>7. \A i \in 1..(q - k) : events_queue'[i] = b + i
  <2> SUFFICES ASSUME NEW i \in 1..(q - k) PROVE events_queue'[i] = b + i
    OBVIOUS
  <2>1. k + i \in c..q /\ g + (k + i) - 1 = b + i
    BY <1>1
  <2> QED
    BY <1>2, <1>6, <2>1
<1>8. QueueInPlace(b)'
  BY <1>5, <1>6, <1>7 DEF QueueInPlace, Run
<1> QED
  BY <1>2, <1>5, <1>8

-----------------------------------------------------------------------------
(* The invariant. *)

\* The step leaves the buffer, the batches in flight and their history as they are.
LEMMA BufferFrame ==
  ASSUME NEW h, BufferInPlace(h),
         UNCHANGED <<pending, flight, stored, rejected, evicted, resent, overlapped, replyLost>>
  PROVE  BufferInPlace(h)'
BY DEF BufferInPlace, FlightInPlace, Alone, Run

LEMMA InitInPlace == Init => EventsInPlace
<1> SUFFICES ASSUME Init PROVE EventsInPlace
  OBVIOUS
<1>1. Len(<<>>) = 0
  BY EmptySeq
<1>2. QueueInPlace(0) /\ Run(todo, 0)
  BY <1>1 DEF Init, QueueInPlace, Run
<1>3. BufferInPlace(0)
  BY <1>1 DEF Init, BufferInPlace, FlightInPlace, Alone, Run
<1>4. InPlace(0, 0)
  BY <1>1, <1>2, <1>3 DEF Init, InPlace
<1> QED
  BY <1>4 DEF Init, EventsInPlace

\* The events stay in place, and the buffer moves.
InStep ==
  \E g \in 0..detected : \E h \in 0..g :
    \E b \in 0..detected' : \E i \in 0..b : InPlace(h, g) /\ InPlace(i, b)' /\ Moves(h, i)

LEMMA BufferStep ==
  ASSUME TypeOK, TypeOK', EventsInPlace, [Next]_vars PROVE InStep
<1>1. PICK g \in 0..detected : \E h \in 0..g : InPlace(h, g)
  BY DEF EventsInPlace
<1>2. PICK h \in 0..g : InPlace(h, g)
  BY <1>1
<1>3. /\ g \in Nat /\ h \in Nat /\ h <= g /\ detected \in Nat /\ g <= detected
      /\ QueueInPlace(g) /\ BufferInPlace(h)
      /\ IF phase = "run" THEN Run(todo, h) /\ Len(todo) = g - h /\ dropped = {}
                          ELSE todo = <<>> /\ dropped = (h + 1)..g
      /\ ~dispatching => todo = <<>>
  BY <1>1, <1>2, QueueOf DEF InPlace
\* What a step that handles events reaches.
<1>4. ASSUME NEW a \in Nat, NEW b \in Nat, a <= b, b <= detected', InPlace(a, b)', Moves(h, a)
      PROVE  InStep
  <2>1. a \in 0..b /\ b \in 0..detected'
    BY <1>4, BufferAssumption DEF TypeOK
  <2> QED
    BY <1>1, <1>2, <1>4, <2>1 DEF InStep
<1>5. CASE Detect
  <2>1. QueueInPlace(g)' /\ BufferInPlace(h)'
    BY <1>1, <1>3, <1>5, QueueGrows, BufferFrame DEF Detect, history
  <2>2. InPlace(h, g)' /\ g <= detected'
    BY <1>3, <1>5, <2>1 DEF Detect, InPlace, Run, history
  <2>3. Moves(h, h)
    BY <1>5 DEF Detect, history, Moves, Stays
  <2> QED
    BY <1>3, <1>4, <2>2, <2>3
<1>6. CASE StopRequested
  <2>1. QueueInPlace(g)' /\ BufferInPlace(h)'
    BY <1>1, <1>3, <1>6, QueueStops, BufferFrame DEF StopRequested, history
  <2>2. InPlace(h, g)' /\ g <= detected'
    BY <1>3, <1>6, <2>1 DEF StopRequested, InPlace, Run, history
  <2>3. Moves(h, h)
    BY <1>6 DEF StopRequested, history, Moves, Stays
  <2> QED
    BY <1>3, <1>4, <2>2, <2>3
<1>7. CASE SaveConnection \/ ConfigFetched \/ UNCHANGED vars
  <2>1. UNCHANGED <<events_queue, pending, todo, dispatching, flight, phase, detected, history>>
    BY <1>7 DEF SaveConnection, ConfigFetched, vars
  <2>2. BufferInPlace(h)'
    BY <1>3, <2>1, BufferFrame DEF history
  <2>3. InPlace(h, g)' /\ g <= detected'
    BY <1>3, <2>1, <2>2 DEF InPlace, QueueInPlace, Run, history
  <2>4. Moves(h, h)
    BY <2>1 DEF history, Moves, Stays
  <2> QED
    BY <1>3, <1>4, <2>3, <2>4
<1>8. CASE ConsumerGet
  <2>1. phase = "run" /\ todo = <<>> /\ detected' = detected /\ g = h /\ dropped = {}
    <3>1. phase = "run" /\ todo = <<>> /\ detected' = detected /\ Len(todo) = 0
      BY <1>3, <1>8, EmptySeq DEF ConsumerGet, ConsumerIdle
    <3> QED
      BY <1>3, <3>1
  <2>2. CASE Contains(Drained, STOP)
    <3>1. PICK k \in 1..Len(Drained) :
            /\ Drained[k] = STOP
            /\ events_queue' = SubSeq(events_queue, k + 1, Len(events_queue))
            /\ dropped' = ToSet(SubSeq(Drained, 1, k - 1))
      BY <1>8, <2>2 DEF ConsumerGet
    <3> DEFINE b == g + k - 1
    <3>2. b \in g..detected /\ dropped' = (g + 1)..b /\ QueueInPlace(b)'
      BY <1>1, <1>3, <2>1, <3>1, QueueEnds
    <3>3. b \in Nat /\ h <= b /\ b <= detected' /\ k \in Nat
      BY <1>3, <2>1, <3>2
    <3> HIDE DEF b
    <3>4. BufferInPlace(h)'
      BY <1>3, <1>8, <2>2, BufferFrame DEF ConsumerGet
    <3>5. phase' = "stopping" /\ todo' = <<>>
      BY <1>8, <2>1, <2>2 DEF ConsumerGet
    <3>6. InPlace(h, b)'
      BY <2>1, <3>2, <3>4, <3>5 DEF InPlace
    <3>7. Moves(h, h)
      BY <1>8, <2>2 DEF ConsumerGet, Moves, Stays
    <3> QED
      BY <1>3, <1>4, <3>3, <3>6, <3>7
  <2>3. CASE ~Contains(Drained, STOP)
    <3>1. PICK n : n = Len(Drained)
      OBVIOUS
    <3>2. /\ events_queue' = SubSeq(events_queue, n + 1, Len(events_queue))
          /\ Handle(Drained) /\ UNCHANGED <<phase, dropped, stored, rejected, resent, replyLost>>
      BY <1>8, <2>3, <3>1 DEF ConsumerGet
    <3>3. n \in Nat /\ Drained \in Seq(Event)
      BY <2>3, <3>1, DrainedEvents, DrainedTyped
    <3>4. Run(Drained, g) /\ g + n \in 0..detected /\ QueueInPlace(g + n)'
      BY <1>1, <1>3, <2>1, <2>3, <3>1, <3>2, QueueShrinks
    <3>5. PICK i \in g..(g + n) : /\ BufferInPlace(i)' /\ Run(todo', i) /\ Len(todo') = g + n - i
                                  /\ ~dispatching' => todo' = <<>>
                                  /\ Takes(g, i)
      BY <1>3, <2>1, <3>1, <3>2, <3>3, <3>4, Handling
    <3> DEFINE b == g + n
    <3>6. b \in Nat /\ i \in Nat /\ i <= b /\ b <= detected'
      BY <1>3, <2>1, <3>3, <3>4
    <3>7. Len(todo') = b - i
      BY <1>3, <3>3, <3>5, <3>6
    <3> HIDE DEF b
    <3>8. QueueInPlace(b)'
      BY <3>4, Zenon DEF b
    <3>9. InPlace(i, b)'
      BY <2>1, <3>2, <3>5, <3>7, <3>8 DEF InPlace, Run
    <3>10. Moves(h, i)
      <4>1. i <= h + DRAIN_BATCH
        BY <1>3, <2>1, <3>1, <3>3, <3>5, DrainedTyped, BufferAssumption
      <4> QED
        BY <2>1, <3>5, <4>1 DEF Moves
    <3> QED
      BY <1>4, <3>6, <3>9, <3>10
  <2> QED
    BY <2>2, <2>3
<1>9. CASE DispatchDone
  <2>1. /\ phase = "run" /\ UNCHANGED <<events_queue, phase, detected, dropped>>
        /\ UNCHANGED <<stored, rejected, resent, replyLost>>
    BY <1>9 DEF DispatchDone
  <2>2. QueueInPlace(g)'
    BY <1>3, <2>1 DEF QueueInPlace, Run
  <2>3. CASE todo = <<>>
    <3>1. /\ dispatching' = FALSE /\ UNCHANGED <<pending, todo, evicted>>
          /\ BeginFlush("consumer", pending) /\ "consumer" \in Task
      BY <1>9, <2>3 DEF DispatchDone, Task
    <3>2. BufferInPlace(h)'
      BY <1>3, <2>1, <3>1, Flushing
    <3>3. InPlace(h, g)' /\ g <= detected'
      BY <1>3, <2>1, <2>2, <2>3, <3>1, <3>2 DEF InPlace, Run
    <3>4. Moves(h, h)
      BY <2>1, <3>1 DEF BeginFlush, Moves, Stays
    <3> QED
      BY <1>3, <1>4, <3>3, <3>4
  <2>4. CASE todo # <<>>
    <3>1. Handle(todo) /\ todo \in Seq(Event) /\ Len(todo) = g - h /\ h + (g - h) = g
      BY <1>3, <1>9, <2>1, <2>4 DEF DispatchDone, TypeOK
    <3>2. PICK i \in h..(h + Len(todo)) :
            /\ BufferInPlace(i)' /\ Run(todo', i) /\ Len(todo') = h + Len(todo) - i
            /\ ~dispatching' => todo' = <<>>
            /\ Takes(h, i)
      BY <1>3, <2>1, <3>1, Handling
    <3>3. i \in Nat /\ i <= g /\ Len(todo') = g - i /\ g <= detected'
      BY <1>3, <2>1, <3>1, <3>2
    <3>4. InPlace(i, g)'
      BY <1>3, <2>1, <2>2, <3>2, <3>3 DEF InPlace, Run
    <3>5. Moves(h, i)
      <4>1. Len(todo) \in Nat /\ Len(todo) < DRAIN_BATCH
        BY <3>1, Lengths DEF TypeOK
      <4>2. i <= h + DRAIN_BATCH
        BY <1>3, <3>2, <4>1, BufferAssumption
      <4> QED
        BY <3>2, <4>2 DEF Moves
    <3> QED
      BY <1>3, <1>4, <3>3, <3>4, <3>5
  <2> QED
    BY <2>3, <2>4
<1>10. CASE HeartbeatFlush
  <2>1. /\ BeginFlush("heartbeat", pending) /\ "heartbeat" \in Task
        /\ UNCHANGED <<pending, stored, rejected, evicted, resent, replyLost>>
        /\ UNCHANGED <<events_queue, todo, dispatching, phase, detected, dropped>>
    BY <1>10 DEF HeartbeatFlush, Task
  <2>2. BufferInPlace(h)'
    BY <1>3, <2>1, Flushing
  <2>3. InPlace(h, g)' /\ g <= detected'
    BY <1>3, <2>1, <2>2 DEF InPlace, QueueInPlace, Run
  <2>4. Moves(h, h)
    BY <2>1 DEF BeginFlush, Moves, Stays
  <2> QED
    BY <1>3, <1>4, <2>3, <2>4
<1>11. CASE Cancelled
  <2>1. /\ \A t \in Task : flight'[t] = <<>>
        /\ phase = "stopping" /\ phase' = "done"
        /\ UNCHANGED <<events_queue, pending, todo, dispatching, detected, history>>
    BY <1>11 DEF Cancelled
  <2>2. BufferInPlace(h)'
    BY <1>3, <2>1 DEF BufferInPlace, FlightInPlace, Alone, Run, history
  <2>3. InPlace(h, g)' /\ g <= detected'
    BY <1>3, <2>1, <2>2 DEF InPlace, QueueInPlace, Run, history
  <2>4. Moves(h, h)
    BY <2>1 DEF history, Moves, Stays
  <2> QED
    BY <1>3, <1>4, <2>3, <2>4
<1>12. ASSUME NEW t \in Task, FlushAccepted(t) \/ FlushRejected(t) \/ FlushFailed(t)
       PROVE  InStep
  <2>1. UNCHANGED <<events_queue, todo, dispatching, phase, detected, dropped>>
    BY <1>12 DEF FlushAccepted, FlushRejected, FlushFailed
  <2>2. BufferInPlace(h)'
    <3>1. CASE FlushAccepted(t) \/ FlushRejected(t)
      <4>1. /\ flight[t] # <<>> /\ EndFlight(t) /\ pending' = AfterPop(Len(flight[t]))
            /\ stored' \cup rejected' = stored \cup rejected \cup ToSet(flight[t])
            /\ stored' \subseteq stored \cup ToSet(flight[t])
            /\ resent' \subseteq resent \cup (stored \cap ToSet(flight[t]))
            /\ UNCHANGED <<evicted, overlapped, replyLost>>
        BY <3>1 DEF FlushAccepted, FlushRejected, Processed
      <4> QED
        BY <1>3, <4>1, Popped
    <3>2. CASE FlushFailed(t)
      BY <1>3, <3>2, Kept
    <3> QED
      BY <1>12, <3>1, <3>2
  <2>3. InPlace(h, g)' /\ g <= detected'
    BY <1>3, <2>1, <2>2 DEF InPlace, QueueInPlace, Run
  <2>4. Moves(h, h)
    <3>1. Answers(t)
      <4>1. CASE FlushAccepted(t)
        BY <4>1 DEF FlushAccepted, Processed, Answers
      <4>2. CASE FlushRejected(t)
        BY <4>2 DEF FlushRejected, Answers
      <4>3. CASE FlushFailed(t)
        BY <4>3 DEF FlushFailed, Processed, Answers
      <4> QED
        BY <1>12, <4>1, <4>2, <4>3
    <3> QED
      BY <1>12, <3>1 DEF Moves
  <2> QED
    BY <1>3, <1>4, <2>3, <2>4
<1> QED
  BY <1>5, <1>6, <1>7, <1>8, <1>9, <1>10, <1>11, <1>12 DEF Next

EventsSound == TypeOK /\ EventsInPlace

LEMMA EventsStep == EventsSound /\ [Next]_vars => EventsSound' /\ InStep
<1> SUFFICES ASSUME TypeOK, EventsInPlace, [Next]_vars PROVE EventsSound' /\ InStep
  BY DEF EventsSound
<1>1. TypeOK'
  BY TypeStep
<1>2. InStep
  BY <1>1, BufferStep
<1> QED
  BY <1>1, <1>2 DEF InStep, EventsInPlace, EventsSound

LEMMA EventsAlways == Spec => []EventsSound
<1>1. Init => EventsSound
  BY InitTyped, InitInPlace DEF EventsSound
<1>2. EventsSound /\ [Next]_vars => EventsSound'
  BY EventsStep DEF EventsSound
<1> QED
  BY <1>1, <1>2, PTL DEF Spec

\* The queues, the batches and the bookkeeping of events keep their types and sizes
\* (client.py _consume_loop, _flush, _heartbeat_loop).
THEOREM TypeCorrect == Spec => []TypeOK
<1>1. EventsSound => TypeOK
  BY DEF EventsSound
<1> QED
  BY <1>1, EventsAlways, PTL

-----------------------------------------------------------------------------
(* What a reader should know of the pipeline. *)

\* However the two callers of _flush interleave, the offline buffer is an unbroken run of
\* consecutive events: what is popped is always its old end (client.py _flush).
THEOREM BufferIsUnbroken == Spec => []BufferUnbroken
<1>1. EventsSound => BufferUnbroken
  <2> SUFFICES ASSUME EventsSound, NEW k \in 1..(Len(pending) - 1)
               PROVE  pending[k + 1] = pending[k] + 1
    BY DEF BufferUnbroken
  <2>1. PICK h \in Nat : Len(pending) <= h /\ Run(pending, h - Len(pending))
    BY BufferAssumption DEF EventsSound, EventsInPlace, InPlace, BufferInPlace, TypeOK
  <2>2. Len(pending) \in Nat
    BY Lengths DEF EventsSound, TypeOK
  <2> DEFINE l == h - Len(pending)
  <2>3. l \in Nat /\ k \in 1..Len(pending) /\ k + 1 \in 1..Len(pending) /\ Run(pending, l)
    BY <2>1, <2>2
  <2> HIDE DEF l
  <2>4. pending[k] = l + k /\ pending[k + 1] = l + (k + 1)
    BY <2>3 DEF Run
  <2> QED
    BY <2>3, <2>4
<1> QED
  BY <1>1, EventsAlways, PTL

\* The server processes an event twice only after two flushes overlapped or an answer was
\* lost (client.py _flush).
THEOREM ResendIsExplained == Spec => []ResendExplained
<1>1. EventsSound => ResendExplained
  BY DEF EventsSound, EventsInPlace, InPlace, BufferInPlace, Alone, ResendExplained, TypeOK
<1> QED
  BY <1>1, EventsAlways, PTL

\* What waits in the thread queue are the last events.
LEMMA WaitingIs ==
  ASSUME TypeOK, NEW g \in 0..detected, QueueInPlace(g)
  PROVE  Waiting = (g + 1)..detected
<1> DEFINE q == Len(events_queue)
<1>1. q \in Nat /\ detected \in Nat /\ g \in Nat /\ g <= detected /\ detected <= MaxEvents
  BY QueueOf, BufferAssumption DEF TypeOK
<1>2. Waiting = {e \in Event : \E i \in 1..q : events_queue[i] = e}
  BY DEF Waiting, Contains
<1>3. \A e \in Event : e \in Nat /\ e # STOP
  BY DEF Event, STOP
<1>4. \A e \in (g + 1)..detected : e \in Event
  BY <1>1, BufferAssumption DEF Event
<1>5. CASE Run(events_queue, g) /\ q = detected - g
  <2>1. \A i \in 1..q : events_queue[i] = g + i
    BY <1>5 DEF Run
  <2> HIDE DEF q
  <2>2. ASSUME NEW e \in (g + 1)..detected PROVE \E i \in 1..q : events_queue[i] = e
    <3>1. e - g \in 1..q /\ g + (e - g) = e
      BY <1>1, <1>5
    <3> QED
      BY <2>1, <3>1
  <2>3. \A i \in 1..q : events_queue[i] \in (g + 1)..detected
    BY <1>1, <1>5, <2>1
  <2> QED
    BY <1>2, <1>4, <2>2, <2>3
<1>6. CASE ~(Run(events_queue, g) /\ q = detected - g)
  <2>1. PICK p \in 1..q :
          /\ q = detected - g + 1
          /\ events_queue[p] = STOP
          /\ \A i \in 1..(p - 1) : events_queue[i] = g + i
          /\ \A i \in (p + 1)..q : events_queue[i] = g + i - 1
    BY <1>6 DEF QueueInPlace
  <2> HIDE DEF q
  <2>2. ASSUME NEW e \in (g + 1)..detected PROVE \E i \in 1..q : events_queue[i] = e
    <3>1. CASE e - g < p
      <4>1. e - g \in 1..(p - 1) /\ e - g \in 1..q /\ g + (e - g) = e
        BY <1>1, <2>1, <3>1
      <4> QED
        BY <2>1, <4>1
    <3>2. CASE ~(e - g < p)
      <4>1. e - g + 1 \in (p + 1)..q /\ e - g + 1 \in 1..q /\ g + (e - g + 1) - 1 = e
        BY <1>1, <2>1, <3>2
      <4> QED
        BY <2>1, <4>1
    <3> QED
      BY <3>1, <3>2
  <2>3. ASSUME NEW i \in 1..q, events_queue[i] # STOP PROVE events_queue[i] \in (g + 1)..detected
    <3>1. i \in 1..(p - 1) \/ i \in (p + 1)..q
      BY <1>1, <2>1, <2>3
    <3> QED
      BY <1>1, <2>1, <3>1
  <2> QED
    BY <1>2, <1>3, <1>4, <2>2, <2>3
<1> QED
  BY <1>5, <1>6

\* What was handled are the events up to h, but for those dropped at STOP.
LEMMA HandledIs ==
  ASSUME TypeOK, NEW g \in 0..detected, NEW h \in 0..g, InPlace(h, g)
  PROVE  Handled = 1..h \cup dropped /\ dropped \cap (1..h) = {}
<1>1. g \in Nat /\ h \in Nat /\ h <= g /\ detected \in Nat /\ g <= detected /\ detected <= MaxEvents
  BY BufferAssumption DEF TypeOK
<1>2. Waiting = (g + 1)..detected
  BY WaitingIs DEF InPlace
<1>3. ToSet(todo) = IF phase = "run" THEN (h + 1)..g ELSE {}
  <2>1. CASE phase = "run"
    <3>1. Run(todo, h) /\ Len(todo) = g - h /\ todo \in Seq(Event) /\ h + (g - h) = g
      BY <1>1, <2>1 DEF InPlace, TypeOK
    <3>2. ToSet(todo) = (h + 1)..(h + Len(todo))
      BY <1>1, <3>1, RunSet
    <3> QED
      BY <2>1, <3>1, <3>2
  <2>2. CASE phase # "run"
    <3>1. todo = <<>> /\ DOMAIN <<>> = {}
      BY <2>2 DEF InPlace
    <3> QED
      BY <2>2, <3>1 DEF ToSet
  <2> QED
    BY <2>1, <2>2
<1>4. Handled = 1..h \cup dropped /\ dropped \cap (1..h) = {}
  <2>1. {e \in Event : e <= detected} = 1..detected
    BY <1>1, BufferAssumption DEF Event
  <2>2. CASE phase = "run"
    <3>1. dropped = {} /\ Handled = (1..detected) \ (((g + 1)..detected) \cup ((h + 1)..g))
      BY <1>2, <1>3, <2>1, <2>2 DEF InPlace, Handled
    <3> QED
      BY <1>1, <3>1
  <2>3. CASE phase # "run"
    <3>1. dropped = (h + 1)..g /\ Handled = (1..detected) \ ((g + 1)..detected)
      BY <1>2, <1>3, <2>1, <2>3 DEF InPlace, Handled
    <3> QED
      BY <1>1, <3>1
  <2> QED
    BY <2>2, <2>3
<1> QED
  BY <1>4

\* Unless two flushes overlapped or the deque overflowed, no handled event is lost but
\* those drained together with STOP (client.py _consume_loop, _flush).
THEOREM LossIsExplained == Spec => []LossExplained
<1>1. EventsSound => LossExplained
  <2> SUFFICES ASSUME EventsSound, ~overlapped, evicted = {} PROVE Lost = dropped
    BY DEF LossExplained
  <2>1. PICK g \in 0..detected : \E h \in 0..g : InPlace(h, g)
    BY DEF EventsSound, EventsInPlace
  <2>2. PICK h \in 0..g : InPlace(h, g)
    BY <2>1
  <2>3. TypeOK /\ g \in Nat /\ h \in Nat /\ h <= g /\ detected \in Nat /\ g <= detected
        /\ detected <= MaxEvents
    BY <2>1, <2>2, BufferAssumption DEF EventsSound, TypeOK
  <2>4. Handled = 1..h \cup dropped /\ dropped \cap (1..h) = {}
    BY <2>1, <2>2, <2>3, HandledIs
  <2> DEFINE l == h - Len(pending)
             kept == ToSet(pending) \cup InFlight \cup stored \cup rejected
  <2>5. 1..h \subseteq kept
    <3>1. pending \in Seq(Event) /\ Len(pending) \in Nat /\ Len(pending) <= h /\ Run(pending, l)
      BY <2>2, <2>3, Lengths DEF InPlace, BufferInPlace, TypeOK
    <3>2. l \in Nat /\ l + Len(pending) = h
      BY <2>3, <3>1
    <3> HIDE DEF l
    <3>3. ToSet(pending) = (l + 1)..(l + Len(pending))
      BY <3>1, <3>2, RunSet
    <3>4. 1..l \subseteq stored \cup rejected
      BY <2>2 DEF InPlace, BufferInPlace, Alone, l
    <3>5. 1..h \subseteq (1..l) \cup ((l + 1)..h)
      BY <2>3, <3>2
    <3>6. ToSet(pending) = (l + 1)..h
      BY <3>2, <3>3
    <3> QED
      BY <3>4, <3>5, <3>6
  <2>6. kept \subseteq 1..h
    <3>1. pending \in Seq(Event) /\ Len(pending) \in Nat /\ Len(pending) <= h /\ Run(pending, l)
      BY <2>2, <2>3, Lengths DEF InPlace, BufferInPlace, TypeOK
    <3>2. l \in Nat /\ l + Len(pending) = h
      BY <2>3, <3>1
    <3> HIDE DEF l
    <3>3. ToSet(pending) \subseteq 1..h
      BY <2>3, <3>1, <3>2, RunSet
    <3>4. InFlight \subseteq 1..h
      <4> SUFFICES ASSUME NEW t \in Task PROVE ToSet(flight[t]) \subseteq 1..h
        BY DEF InFlight
      <4> QED
        BY <2>2, <2>3, FlightSet DEF InPlace, BufferInPlace
    <3> QED
      BY <2>2, <3>3, <3>4 DEF InPlace, BufferInPlace
  <2>7. Lost = Handled \ kept
    BY DEF Lost
  <2> HIDE DEF kept
  <2> QED
    BY <2>4, <2>5, <2>6, <2>7
<1> QED
  BY <1>1, EventsAlways, PTL

-----------------------------------------------------------------------------
(* The refinement. *)

\* What the abstract buffer sees of events in place.
Seen ==
  \A g \in 0..detected : \A h \in 0..g : InPlace(h, g) =>
    /\ h \in Nat /\ Len(pending) \in 0..h
    /\ Cardinality(Handled \ dropped) = h
    /\ ToSet(pending) = (h - Len(pending) + 1)..h
    /\ stored \cup rejected \subseteq 1..h

LEMMA EventsSeen == EventsSound => Seen
<1> SUFFICES ASSUME EventsSound, NEW g \in 0..detected, NEW h \in 0..g, InPlace(h, g)
             PROVE  /\ h \in Nat /\ Len(pending) \in 0..h
                    /\ Cardinality(Handled \ dropped) = h
                    /\ ToSet(pending) = (h - Len(pending) + 1)..h
                    /\ stored \cup rejected \subseteq 1..h
  BY DEF Seen
<1>1. TypeOK /\ g \in Nat /\ h \in Nat
  BY BufferAssumption DEF EventsSound, TypeOK
<1>2. Cardinality(Handled \ dropped) = h
  <2>1. Handled \ dropped = 1..h
    BY <1>1, HandledIs
  <2>2. Cardinality(1..h) = h
    BY <1>1, FS_Interval
  <2> QED
    BY <2>1, <2>2
<1>3. pending \in Seq(Event) /\ Len(pending) \in Nat /\ Len(pending) <= h /\ Run(pending, h - Len(pending))
  BY <1>1, Lengths DEF InPlace, BufferInPlace, TypeOK
<1> DEFINE l == h - Len(pending)
<1>4. l \in Int /\ l + Len(pending) = h
  BY <1>1, <1>3
<1> HIDE DEF l
<1>5. ToSet(pending) = (l + 1)..(l + Len(pending))
  BY <1>3, <1>4, RunSet DEF l
<1>6. stored \cup rejected \subseteq 1..h
  BY DEF InPlace, BufferInPlace
<1> QED
  BY <1>1, <1>2, <1>3, <1>4, <1>5, <1>6 DEF l

\* The buffer taking events, seen from outside.
LEMMA TakesArrive ==
  ASSUME EventsSound, EventsSound', NEW h \in Nat, NEW i \in Nat, i <= h + DRAIN_BATCH, Takes(h, i),
         Len(pending) \in 0..h, Len(pending') \in 0..i,
         Cardinality(Handled \ dropped) = h, Cardinality(Handled \ dropped)' = i,
         ToSet(pending) = (h - Len(pending) + 1)..h,
         ToSet(pending)' = (i - Len(pending') + 1)..i
  PROVE  Offline!Arrive
<1> DEFINE n == i - h
           l == h - Len(pending)
           m == i - Len(pending')
           all == ToSet(pending) \cup ((h + 1)..(h + n))
<1>1. n \in 1..DRAIN_BATCH /\ h + n = i /\ PENDING_MAX \in Nat \ {0}
  BY BufferAssumption DEF Takes
<1>2. /\ l \in Nat /\ m \in Nat /\ l <= h /\ l <= m /\ m <= i /\ i - PENDING_MAX <= m
      /\ m = l \/ m = i - PENDING_MAX
  <2>1. Len(pending') <= PENDING_MAX
    BY DEF EventsSound, TypeOK
  <2> QED
    BY <1>1, <2>1 DEF Takes
<1>3. ToSet(pending) = (l + 1)..h /\ ToSet(pending)' = (m + 1)..i /\ evicted' = evicted \cup ((l + 1)..m)
  BY DEF Takes
<1> HIDE DEF n, l, m
<1>4. all = (l + 1)..i
  BY <1>1, <1>2, <1>3
<1>5. ToSet(pending)' = {e \in all : e > i - PENDING_MAX}
  BY <1>1, <1>2, <1>3, <1>4
<1>6. ToSet(pending)' # all => evicted' # {}
  <2>1. CASE m = l
    BY <1>3, <1>4, <2>1
  <2>2. CASE m # l
    <3>1. m \in (l + 1)..m
      BY <1>2, <2>2
    <3> QED
      BY <1>3, <3>1
  <2> QED
    BY <2>1, <2>2
<1>7. overlapped \/ evicted # {} => overlapped' \/ evicted' # {}
  BY <1>3 DEF Takes
<1>8. stored' \cup rejected' = stored \cup rejected
  BY DEF Takes
<1>9. /\ (overlapped' \/ evicted' # {}) \in BOOLEAN
      /\ (overlapped \/ evicted # {}) \/ ToSet(pending)' # all => overlapped' \/ evicted' # {}
  BY <1>6, <1>7
<1>10. all = ToSet(pending) \cup ((Cardinality(Handled \ dropped) + 1)..(Cardinality(Handled \ dropped) + n))
  OBVIOUS
<1> HIDE DEF all
<1> QED
  BY <1>1, <1>5, <1>8, <1>9, <1>10 DEF Offline!Arrive

\* An answer, seen from outside.
LEMMA AnswersAnswer ==
  ASSUME EventsSound, NEW h \in Nat, BufferInPlace(h), NEW t \in Task, Answers(t),
         Len(pending) \in 0..h, Len(pending') \in 0..h,
         Cardinality(Handled \ dropped) = h, Cardinality(Handled \ dropped)' = h,
         ToSet(pending) = (h - Len(pending) + 1)..h,
         ToSet(pending)' = (h - Len(pending') + 1)..h,
         stored' \cup rejected' \subseteq 1..h
  PROVE  Offline!Answer
<1> DEFINE l == h - Len(pending)
           m == h - Len(pending')
           n == Len(flight[t])
<1>1. /\ flight[t] # <<>> /\ evicted' = evicted /\ overlapped' = overlapped
      /\ stored \cup rejected \subseteq stored' \cup rejected'
  BY DEF Answers
<1>2. /\ pending \in Seq(Event) /\ Run(pending, l) /\ l \in Nat /\ m \in Nat /\ l <= h /\ m <= h
      /\ flight[t] \in Seq(Event) /\ n \in Nat /\ n # 0
  <2>1. pending \in Seq(Event) /\ flight[t] \in Seq(Event)
    BY DEF EventsSound, TypeOK
  <2> QED
    BY <1>1, <2>1, Lengths DEF BufferInPlace
<1>3. \/ pending' = pending /\ m = l
      \/ /\ stored' \cup rejected' = (stored \cup rejected) \cup ToSet(flight[t])
         /\ l <= m /\ (n <= Len(pending) => m = l + n)
  <2>1. CASE pending' = pending
    BY <2>1
  <2>2. CASE pending' = AfterPop(n) /\ stored' \cup rejected' = (stored \cup rejected) \cup ToSet(flight[t])
    <3>1. Len(pending') = IF n <= Len(pending) THEN Len(pending) - n ELSE 0
      <4> HIDE DEF n
      <4> QED
        BY <1>2, <2>2, AfterPopRun DEF l
    <3>2. Len(pending) \in Nat /\ Len(pending') \in Nat
      OBVIOUS
    <3> HIDE DEF n
    <3>3. l <= m /\ (n <= Len(pending) => m = l + n)
      <4>1. PICK p, q \in Nat : p = Len(pending) /\ q = Len(pending')
        BY <3>2
      <4>2. n \in Nat /\ p <= h /\ q = IF n <= p THEN p - n ELSE 0
        BY <1>2, <3>1, <4>1
      <4>3. h - p <= h - q /\ (n <= p => h - q = (h - p) + n)
        BY <4>2
      <4> QED
        BY <4>1, <4>3, Zenon DEF l, m
    <3> QED
      BY <2>2, <3>3
  <2> QED
    BY <2>1, <2>2 DEF Answers
<1>4. ASSUME ~overlapped, evicted = {}, n <= Len(pending) => m = l + n
      PROVE  (l + 1)..m \subseteq ToSet(flight[t])
  <2>1. flight[t][1] = l + 1 /\ n <= Len(pending) /\ Run(flight[t], flight[t][1] - 1)
    BY <1>1, <1>4 DEF BufferInPlace, Alone, FlightInPlace
  <2>2. m = l + n /\ (l + 1) - 1 = l /\ l \in Int
    BY <1>2, <1>4, <2>1
  <2> HIDE DEF l, m
  <2>3. Run(flight[t], l)
    BY <2>1, <2>2
  <2>4. ToSet(flight[t]) = (l + 1)..(l + n)
    BY <1>2, <2>2, <2>3, RunSet
  <2> QED
    BY <2>2, <2>4
<1>5. ToSet(pending) = (l + 1)..h /\ ToSet(pending)' = (m + 1)..h
  OBVIOUS
<1> HIDE DEF l, m, n
<1>6. l <= m
  BY <1>2, <1>3
<1>7. ToSet(pending)' = {e \in ToSet(pending) : e > m} /\ m \in 0..h
  BY <1>2, <1>5, <1>6
<1>8. (overlapped \/ evicted # {}) \/ ToSet(pending) \ ToSet(pending)' \subseteq stored' \cup rejected'
  <2> SUFFICES ASSUME ~overlapped, evicted = {}
               PROVE  ToSet(pending) \ ToSet(pending)' \subseteq stored' \cup rejected'
    OBVIOUS
  <2>1. ToSet(pending) \ ToSet(pending)' \subseteq (l + 1)..m
    BY <1>2, <1>5, <1>6
  <2>2. CASE m = l
    <3>1. (l + 1)..m = {}
      BY <1>2, <2>2
    <3> QED
      BY <2>1, <3>1
  <2>3. CASE m # l
    <3>1. /\ stored' \cup rejected' = (stored \cup rejected) \cup ToSet(flight[t])
          /\ n <= Len(pending) => m = l + n
      BY <1>3, <2>3
    <3>2. (l + 1)..m \subseteq ToSet(flight[t])
      BY <1>4, <3>1
    <3> QED
      BY <2>1, <3>1, <3>2
  <2> QED
    BY <2>2, <2>3
<1> QED
  BY <1>1, <1>7, <1>8 DEF Offline!Answer

LEMMA BufferRefines ==
  EventsSound /\ EventsSound' /\ Seen /\ Seen' /\ InStep => [Offline!Next]_(Offline!bufferVars)
<1> SUFFICES ASSUME EventsSound, EventsSound', Seen, Seen', InStep
             PROVE  [Offline!Next]_(Offline!bufferVars)
  OBVIOUS
<1>1. PICK g \in 0..detected :
        \E h \in 0..g : \E b \in 0..detected' : \E i \in 0..b :
          InPlace(h, g) /\ InPlace(i, b)' /\ Moves(h, i)
  BY DEF InStep
<1>2. PICK h \in 0..g : \E b \in 0..detected' : \E i \in 0..b :
        InPlace(h, g) /\ InPlace(i, b)' /\ Moves(h, i)
  BY <1>1
<1>3. PICK b \in 0..detected' : \E i \in 0..b : InPlace(h, g) /\ InPlace(i, b)' /\ Moves(h, i)
  BY <1>2
<1>4. PICK i \in 0..b : InPlace(h, g) /\ InPlace(i, b)' /\ Moves(h, i)
  BY <1>3
<1>5. /\ h \in Nat /\ Len(pending) \in 0..h
      /\ Cardinality(Handled \ dropped) = h
      /\ ToSet(pending) = (h - Len(pending) + 1)..h
      /\ stored \cup rejected \subseteq 1..h
  BY <1>1, <1>2, <1>4 DEF Seen
<1>6. /\ i \in Nat /\ Len(pending') \in 0..i
      /\ Cardinality(Handled \ dropped)' = i
      /\ ToSet(pending)' = (i - Len(pending') + 1)..i
      /\ stored' \cup rejected' \subseteq 1..i
  BY <1>1, <1>2, <1>4 DEF Seen
<1>7. CASE i = h /\ Stays
  <2>1. /\ Cardinality(Handled \ dropped)' = Cardinality(Handled \ dropped)
        /\ ToSet(pending)' = ToSet(pending)
        /\ stored' \cup rejected' = stored \cup rejected
        /\ evicted' = evicted /\ (overlapped => overlapped')
    BY <1>5, <1>6, <1>7 DEF Stays
  <2>2. CASE overlapped' = overlapped
    BY <2>1, <2>2 DEF Offline!bufferVars
  <2>3. CASE overlapped' # overlapped
    <3>1. overlapped' = TRUE
      BY <2>1, <2>3 DEF EventsSound, TypeOK
    <3> QED
      BY <2>1, <3>1 DEF Offline!Overlap, Offline!Next
  <2> QED
    BY <2>2, <2>3
<1>8. ASSUME i = h, NEW t \in Task, Answers(t) PROVE Offline!Next
  <2>1. BufferInPlace(h)
    BY <1>4 DEF InPlace
  <2> QED
    BY <1>5, <1>6, <1>8, <2>1, AnswersAnswer DEF Offline!Next
<1>9. CASE i <= h + DRAIN_BATCH /\ Takes(h, i)
  BY <1>5, <1>6, <1>9, TakesArrive DEF Offline!Next
<1> QED
  BY <1>4, <1>7, <1>8, <1>9 DEF Moves

\* The consumer, the two callers of _flush and STOP implement the offline buffer that
\* OfflineBuffer promises, for any sizes of the buffer and of the batches: events enter
\* once and in order and leave oldest first, and without an overlap or an overflow only
\* with an answer of the server (client.py _consumer, _flush).
THEOREM NetWorkerIsBuffer == Spec => BufferSpec
<1>1. Init => Offline!Init
  <2> SUFFICES ASSUME Init PROVE Offline!Init
    OBVIOUS
  <2>1. Handled \ dropped = {}
    BY BufferAssumption DEF Init, Handled, Event
  <2>2. Cardinality({}) = 0 /\ ToSet(<<>>) = {}
    BY FS_EmptySet, EmptySeq DEF ToSet
  <2> QED
    BY <2>1, <2>2 DEF Init, Offline!Init
<1>2. EventsSound /\ [Next]_vars => EventsSound' /\ InStep
  BY EventsStep
<1>3. EventsSound => Seen
  BY EventsSeen
<1>4. EventsSound /\ EventsSound' /\ Seen /\ Seen' /\ InStep => [Offline!Next]_(Offline!bufferVars)
  BY BufferRefines
<1> QED
  BY <1>1, <1>2, <1>3, <1>4, EventsAlways, PTL DEF Spec, BufferSpec, Offline!Spec
=============================================================================
