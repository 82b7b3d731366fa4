-------------------------- MODULE RateLimiterProofs --------------------------
(***************************************************************************)
(* Proofs about RateLimiter, for any limit, window and set of keys.        *)
(***************************************************************************)
EXTENDS RateLimiter, SequenceTheorems, WellFoundedInduction, TLAPS

\* Hits are recorded in order of time, and what was popped is out of the window.
Chronology ==
  \A k \in Key :
    /\ \A j \in 1..Len(allowed[k]) : allowed[k][j] <= now
    /\ \A i, j \in 1..Len(allowed[k]) : i <= j => allowed[k][i] <= allowed[k][j]
    /\ \A j \in 1..(head[k] - 1) : Expired(allowed[k][j])

IInv == TypeOK /\ WindowRespected /\ Chronology

LEMMA InitInductive == Init => IInv
BY LimitAssumption DEF Init, IInv, TypeOK, WindowRespected, Chronology, InDeque

\* The history of a key in terms of the types.
LEMMA AllowedTyped ==
  ASSUME TypeOK, NEW k \in Key
  PROVE  /\ allowed[k] \in Seq(0..MaxTime) /\ Len(allowed[k]) \in Nat
         /\ head[k] \in Nat \ {0}
         /\ \A j \in 1..Len(allowed[k]) : allowed[k][j] \in 0..MaxTime
         /\ now \in 0..MaxTime
<1>1. allowed[k] \in Seq(0..MaxTime) /\ head[k] \in Nat \ {0} /\ now \in 0..MaxTime
  BY DEF TypeOK
<1>2. Len(allowed[k]) \in Nat /\ \A j \in 1..Len(allowed[k]) : allowed[k][j] \in 0..MaxTime
  BY <1>1, LenProperties, ElementOfSeq
<1> QED
  BY <1>1, <1>2

LEMMA TickStep == IInv /\ Tick => IInv'
<1> SUFFICES ASSUME IInv, Tick PROVE IInv'
  OBVIOUS
<1>1. TypeOK' /\ WindowRespected'
  BY LimitAssumption DEF IInv, TypeOK, WindowRespected, Tick, InDeque
<1>2. Chronology'
  <2>1. now' = now + 1 /\ allowed' = allowed /\ head' = head
    BY DEF Tick
  <2>2. \A k \in Key : \A j \in 1..Len(allowed[k]) : allowed[k][j] <= now + 1
    BY AllowedTyped, LimitAssumption DEF IInv, Chronology
  <2>3. \A k \in Key : \A j \in 1..(head[k] - 1) : now' - allowed[k][j] > RATE_WINDOW
    <3> SUFFICES ASSUME NEW k \in Key, NEW j \in 1..(head[k] - 1)
                 PROVE  now' - allowed[k][j] > RATE_WINDOW
      OBVIOUS
    <3>1. j \in 1..Len(allowed[k]) /\ now - allowed[k][j] > RATE_WINDOW
      BY AllowedTyped DEF IInv, Chronology, TypeOK, Expired
    <3>2. now \in Int /\ allowed[k][j] \in Int
      BY <3>1, AllowedTyped, LimitAssumption DEF IInv
    <3> QED
      BY <2>1, <3>1, <3>2, LimitAssumption
  <2>4. \A k \in Key : \A i, j \in 1..Len(allowed[k]) :
          i <= j => allowed[k][i] <= allowed[k][j]
    BY DEF IInv, Chronology
  <2>5. \A k \in Key : \A j \in 1..Len(allowed[k]) : allowed[k][j] <= now'
    BY <2>1, <2>2
  <2> QED
    <3>1. allowed' = allowed /\ head' = head
      BY <2>1
    <3> QED
      BY <3>1, <2>3, <2>4, <2>5 DEF Chronology, Expired
<1> QED
  BY <1>1, <1>2 DEF IInv

\* Pruning keeps what Chronology says of the popped hits.
LEMMA PrunedExpired ==
  ASSUME IInv, NEW k \in Key, NEW h, Pruned(k, h)
  PROVE  /\ h \in 1..(Len(allowed[k]) + 1) /\ h >= head[k]
         /\ \A j \in 1..(h - 1) : Expired(allowed[k][j])
<1>1. h \in head[k]..(Len(allowed[k]) + 1) /\ head[k] \in Nat \ {0} /\ Len(allowed[k]) \in Nat
  BY AllowedTyped DEF Pruned, IInv
<1>2. \A j \in 1..(h - 1) : j \in 1..(head[k] - 1) \/ j \in head[k]..(h - 1)
  BY <1>1
<1>3. \A j \in 1..(h - 1) : Expired(allowed[k][j])
  BY <1>2 DEF Pruned, IInv, Chronology
<1> QED
  BY <1>1, <1>3

LEMMA AllowedStep ==
  ASSUME IInv, NEW k \in Key, CheckAllowed(k)
  PROVE  IInv'
<1> DEFINE s == allowed[k]
<1>0. PICK h \in 1..(Len(s) + 1) : Pruned(k, h) /\ ~Full(k, h) /\ head' = [head EXCEPT ![k] = h]
  BY DEF CheckAllowed
<1>1. /\ s \in Seq(0..MaxTime) /\ Len(s) \in Nat /\ now \in 0..MaxTime /\ now \in Nat
      /\ \A j \in 1..Len(s) : s[j] \in 0..MaxTime
  BY AllowedTyped, LimitAssumption DEF IInv
<1>2. /\ now' = now /\ h \in Nat \ {0}
      /\ allowed' = [allowed EXCEPT ![k] = Append(s, now)]
      /\ promise' = [promise EXCEPT ![k] = 0]
  BY <1>0, <1>1 DEF CheckAllowed
<1>3. /\ allowed'[k] = Append(s, now) /\ head'[k] = h
      /\ \A q \in Key : q # k => allowed'[q] = allowed[q] /\ head'[q] = head[q]
  BY <1>0, <1>2 DEF IInv, TypeOK
<1>4. /\ Append(s, now) \in Seq(0..MaxTime) /\ Len(Append(s, now)) = Len(s) + 1
      /\ \A j \in 1..Len(s) : Append(s, now)[j] = s[j]
      /\ Append(s, now)[Len(s) + 1] = now
  BY <1>1
<1>5. \A j \in 1..(h - 1) : Expired(s[j])
  BY <1>0, PrunedExpired
<1>6. Len(s) - h + 1 < RATE_LIMIT
  BY <1>0, <1>1, LimitAssumption DEF Full, InDeque
<1>7. TypeOK'
  <2>1. allowed' \in [Key -> Seq(0..MaxTime)] /\ head' \in [Key -> Nat \ {0}]
    BY <1>0, <1>2, <1>4 DEF IInv, TypeOK
  <2>2. promise' \in [Key -> Nat]
    BY <1>2 DEF IInv, TypeOK
  <2>3. ASSUME NEW q \in Key
        PROVE  /\ head'[q] <= Len(allowed'[q]) + 1
               /\ Len(allowed'[q]) - head'[q] + 1 <= RATE_LIMIT
    <3>1. CASE q = k
      BY <3>1, <1>0, <1>1, <1>2, <1>3, <1>4, <1>6, LimitAssumption
    <3>2. CASE q # k
      BY <3>2, <1>3 DEF IInv, TypeOK, InDeque
    <3> QED
      BY <3>1, <3>2
  <2> QED
    BY <2>1, <2>2, <2>3, <1>2 DEF IInv, TypeOK, InDeque
<1>8. WindowRespected'
  <2> SUFFICES ASSUME NEW q \in Key, NEW j \in 1..Len(allowed'[q]),
                      j + RATE_LIMIT <= Len(allowed'[q])
               PROVE  allowed'[q][j + RATE_LIMIT] - allowed'[q][j] > RATE_WINDOW
    BY DEF WindowRespected
  <2>1. CASE q # k
    BY <2>1, <1>3 DEF IInv, WindowRespected
  <2>2. CASE q = k /\ j + RATE_LIMIT <= Len(s)
    <3>1. j \in 1..Len(s) /\ j + RATE_LIMIT \in 1..Len(s)
      BY <2>2, <1>1, <1>3, <1>4, LimitAssumption
    <3> QED
      BY <3>1, <2>2, <1>3, <1>4 DEF IInv, WindowRespected
  <2>3. CASE q = k /\ j + RATE_LIMIT = Len(s) + 1
    <3>1. j \in 1..(h - 1) /\ j \in 1..Len(s)
      BY <2>3, <1>1, <1>2, <1>3, <1>4, <1>6, LimitAssumption
    <3>2. now - s[j] > RATE_WINDOW
      BY <3>1, <1>5 DEF Expired
    <3> QED
      BY <3>1, <3>2, <2>3, <1>3, <1>4
  <2>4. ASSUME q = k PROVE j + RATE_LIMIT <= Len(s) \/ j + RATE_LIMIT = Len(s) + 1
    <3>1. j \in Nat /\ j + RATE_LIMIT <= Len(s) + 1
      BY <2>4, <1>1, <1>3, <1>4
    <3> DEFINE n == j + RATE_LIMIT  m == Len(s)
    <3>2. n \in Int /\ m \in Int /\ n <= m + 1
      BY <3>1, <1>1, LimitAssumption
    <3> HIDE DEF n, m
    <3>3. n <= m \/ n = m + 1
      BY <3>2
    <3> QED
      BY <3>3 DEF n, m
  <2> QED
    BY <2>1, <2>2, <2>3, <2>4
<1>9. Chronology'
  <2> SUFFICES ASSUME NEW q \in Key
               PROVE  /\ \A j \in 1..Len(allowed'[q]) : allowed'[q][j] <= now
                      /\ \A i, j \in 1..Len(allowed'[q]) :
                           i <= j => allowed'[q][i] <= allowed'[q][j]
                      /\ \A j \in 1..(head'[q] - 1) : now - allowed'[q][j] > RATE_WINDOW
    BY <1>2 DEF Chronology, Expired
  <2>1. CASE q # k
    BY <2>1, <1>3 DEF IInv, Chronology, Expired
  <2>2. CASE q = k
    <3>1. \A j \in 1..Len(s) : s[j] <= now
      BY DEF IInv, Chronology
    <3>2. \A i, j \in 1..Len(s) : i <= j => s[i] <= s[j]
      BY DEF IInv, Chronology
    <3>3. \A j \in 1..(Len(s) + 1) : Append(s, now)[j] <= now
      <4>1. \A j \in 1..(Len(s) + 1) : j \in 1..Len(s) \/ j = Len(s) + 1
        BY <1>1
      <4>2. now <= now
        BY <1>1
      <4> QED
        BY <3>1, <1>4, <4>1, <4>2
    <3>4. \A i, j \in 1..(Len(s) + 1) : i <= j => Append(s, now)[i] <= Append(s, now)[j]
      <4> SUFFICES ASSUME NEW i \in 1..(Len(s) + 1), NEW j \in 1..(Len(s) + 1), i <= j
                   PROVE  Append(s, now)[i] <= Append(s, now)[j]
        OBVIOUS
      <4>1. CASE i \in 1..Len(s) /\ j \in 1..Len(s)
        BY <3>2, <1>4, <4>1
      <4>2. CASE j = Len(s) + 1
        BY <3>3, <1>4, <4>2
      <4>3. (i \in 1..Len(s) /\ j \in 1..Len(s)) \/ j = Len(s) + 1
        BY <1>1
      <4> QED
        BY <4>1, <4>2, <4>3
    <3>5. \A j \in 1..(h - 1) : now - Append(s, now)[j] > RATE_WINDOW
      BY <1>0, <1>1, <1>4, <1>5 DEF Expired
    <3> QED
      BY <2>2, <3>3, <3>4, <3>5, <1>3, <1>4
  <2> QED
    BY <2>1, <2>2
<1> QED
  BY <1>7, <1>8, <1>9 DEF IInv

LEMMA RefusedStep ==
  ASSUME IInv, NEW k \in Key, CheckRefused(k)
  PROVE  IInv'
<1>0. PICK h \in 1..Len(allowed[k]) :
        /\ Pruned(k, h) /\ Full(k, h)
        /\ head' = [head EXCEPT ![k] = h]
        /\ \E r \in RetryAfter(k, h) : promise' = [promise EXCEPT ![k] = now + r]
  BY DEF CheckRefused
<1>1. UNCHANGED <<now, allowed>> /\ Len(allowed[k]) \in Nat /\ head[k] \in Nat \ {0}
  BY AllowedTyped DEF CheckRefused, IInv
<1>2. h \in Nat \ {0} /\ h >= head[k] /\ \A j \in 1..(h - 1) : Expired(allowed[k][j])
  BY <1>0, <1>1, PrunedExpired
<1>3. \A r \in RetryAfter(k, h) : now + r \in Nat
  <2>1. allowed[k][h] \in Int /\ now \in Int /\ now - allowed[k][h] <= RATE_WINDOW /\ now >= 0
    BY <1>0, AllowedTyped, LimitAssumption DEF Pruned, Expired, IInv
  <2>2. ASSUME NEW r \in RetryAfter(k, h) PROVE r \in Int /\ r >= 0
    <3> DEFINE rest == RATE_WINDOW - (now - allowed[k][h])
    <3>1. rest \in Int /\ rest >= 0
      BY <2>1, LimitAssumption
    <3>2. rest \div TENTH \in Int /\ rest \div TENTH >= 0
      BY <3>1, LimitAssumption
    <3>3. PICK d \in {0, 1} : r = TENTH * ((rest \div TENTH) + d)
      BY <2>2 DEF RetryAfter
    <3>4. (rest \div TENTH) + d \in Nat
      BY <3>2
    <3> HIDE DEF rest
    <3> QED
      BY <3>3, <3>4, LimitAssumption
  <2> QED
    BY <2>1, <2>2
<1>4. TypeOK'
  <2>1. promise' \in [Key -> Nat]
    BY <1>0, <1>3 DEF IInv, TypeOK
  <2>2. head' \in [Key -> Nat \ {0}]
    BY <1>0, <1>2 DEF IInv, TypeOK
  <2>3. ASSUME NEW q \in Key
        PROVE  /\ head'[q] <= Len(allowed[q]) + 1
               /\ Len(allowed[q]) - head'[q] + 1 <= RATE_LIMIT
    <3>1. CASE q = k
      BY <3>1, <1>0, <1>1, <1>2, LimitAssumption DEF IInv, TypeOK, InDeque
    <3>2. CASE q # k
      BY <3>2, <1>0 DEF IInv, TypeOK, InDeque
    <3> QED
      BY <3>1, <3>2
  <2> QED
    BY <2>1, <2>2, <2>3, <1>1 DEF IInv, TypeOK, InDeque
<1>5. WindowRespected'
  BY <1>1 DEF IInv, WindowRespected
<1>6. Chronology'
  <2> SUFFICES ASSUME NEW q \in Key, NEW j \in 1..(head'[q] - 1)
               PROVE  Expired(allowed[q][j])
    BY <1>1 DEF IInv, Chronology, Expired
  <2>1. CASE q = k
    BY <2>1, <1>0, <1>2 DEF IInv, TypeOK
  <2>2. CASE q # k
    BY <2>2, <1>0 DEF IInv, Chronology, TypeOK
  <2> QED
    BY <2>1, <2>2
<1> QED
  BY <1>4, <1>5, <1>6 DEF IInv

LEMMA Inductive == Spec => []IInv
<1>1. ASSUME IInv, [Next]_vars PROVE IInv'
  <2>1. CASE UNCHANGED vars
    BY <1>1, <2>1 DEF vars, IInv, TypeOK, WindowRespected, Chronology, InDeque, Expired
  <2> QED
    BY <1>1, <2>1, TickStep, AllowedStep, RefusedStep DEF Next
<1> QED
  BY <1>1, InitInductive, PTL DEF Spec

\* No window of RATE_WINDOW holds more than RATE_LIMIT requests of one key, for
\* every limit and window.
THEOREM LimitHolds == Spec => []WindowRespected
<1>1. IInv => WindowRespected
  BY DEF IInv
<1> QED
  BY <1>1, Inductive, PTL

\* Type correctness; in particular a deque never outgrows RATE_LIMIT.
THEOREM TypeCorrect == Spec => []TypeOK
<1>1. IInv => TypeOK
  BY DEF IInv
<1> QED
  BY <1>1, Inductive, PTL

\* The limiter is not too strict either: a refusal means RATE_LIMIT requests were
\* let through within the window that ends now.
THEOREM RefusalsJustified == Spec => []RefusedOnlyWhenBusy
<1>1. ASSUME IInv PROVE RefusedOnlyWhenBusy
  <2> SUFFICES ASSUME NEW k \in Key, NEW h \in 1..Len(allowed[k]), Pruned(k, h), Full(k, h)
               PROVE  /\ InDeque(k, h) = RATE_LIMIT
                      /\ now - allowed[k][h] <= RATE_WINDOW
    BY DEF RefusedOnlyWhenBusy
  <2>1. h >= head[k] /\ head[k] \in Nat /\ Len(allowed[k]) \in Nat
    BY <1>1, PrunedExpired, AllowedTyped DEF IInv
  <2>2. InDeque(k, head[k]) <= RATE_LIMIT
    BY <1>1 DEF IInv, TypeOK
  <2>3. InDeque(k, h) = RATE_LIMIT
    BY <2>1, <2>2, LimitAssumption DEF Full, InDeque
  <2>4. allowed[k][h] \in 0..MaxTime /\ now \in 0..MaxTime
    BY <1>1, AllowedTyped DEF IInv
  <2>5. now - allowed[k][h] <= RATE_WINDOW
    BY <2>1, <2>4, LimitAssumption DEF Pruned, Expired
  <2> QED
    BY <2>3, <2>5
<1> QED
  BY <1>1, Inductive, PTL

-----------------------------------------------------------------------------
(* What a refused client was promised. *)

\* While a promise stands the deque of its key is full, and the promise is the moment its
\* oldest hit leaves the window, to half a tenth.
PromiseSound ==
  \A k \in Key : promise[k] # 0 =>
    /\ head[k] \in 1..Len(allowed[k]) /\ InDeque(k, head[k]) = RATE_LIMIT
    /\ 2 * (promise[k] - (allowed[k][head[k]] + RATE_WINDOW)) <= TENTH
    /\ 2 * ((allowed[k][head[k]] + RATE_WINDOW) - promise[k]) <= TENTH

LEMMA PromiseStep == IInv /\ PromiseSound /\ [Next]_vars => PromiseSound'
<1> SUFFICES ASSUME IInv, PromiseSound, [Next]_vars PROVE PromiseSound'
  OBVIOUS
<1>1. CASE Tick \/ UNCHANGED vars
  BY <1>1 DEF Tick, vars, PromiseSound, InDeque
<1>2. ASSUME NEW k \in Key, CheckAllowed(k) PROVE PromiseSound'
  <2>1. /\ promise'[k] = 0
        /\ \A q \in Key : q # k => /\ promise'[q] = promise[q] /\ head'[q] = head[q]
                                   /\ allowed'[q] = allowed[q]
    BY <1>2 DEF CheckAllowed, IInv, TypeOK
  <2> QED
    BY <2>1 DEF PromiseSound, InDeque
<1>3. ASSUME NEW k \in Key, CheckRefused(k) PROVE PromiseSound'
  <2>1. PICK h \in 1..Len(allowed[k]) :
          /\ Pruned(k, h) /\ Full(k, h)
          /\ head' = [head EXCEPT ![k] = h]
          /\ \E r \in RetryAfter(k, h) : promise' = [promise EXCEPT ![k] = now + r]
    BY <1>3 DEF CheckRefused
  <2>2. PICK r \in RetryAfter(k, h) : promise' = [promise EXCEPT ![k] = now + r]
    BY <2>1
  <2>3. /\ allowed' = allowed /\ head'[k] = h /\ promise'[k] = now + r
        /\ \A q \in Key : q # k => promise'[q] = promise[q] /\ head'[q] = head[q]
    BY <1>3, <2>1, <2>2 DEF CheckRefused, IInv, TypeOK
  <2>4. InDeque(k, h) = RATE_LIMIT
    <3>1. h >= head[k] /\ head[k] \in Nat /\ Len(allowed[k]) \in Nat
      BY <2>1, PrunedExpired, AllowedTyped DEF IInv
    <3>2. InDeque(k, head[k]) <= RATE_LIMIT
      BY DEF IInv, TypeOK
    <3> QED
      BY <2>1, <3>1, <3>2, LimitAssumption DEF Full, InDeque
  <2> DEFINE t == allowed[k][h]
             rest == RATE_WINDOW - (now - t)
  <2>5. /\ t \in Int /\ now \in Int /\ TENTH \in Int /\ RATE_WINDOW \in Int
    BY <2>1, AllowedTyped, LimitAssumption DEF IInv
  <2>6. rest \in Int
    BY <2>5
  <2>7. r \in Int /\ 2 * (rest - r) <= TENTH /\ 2 * (r - rest) <= TENTH
    <3>1. PICK d \in {0, 1} : r = TENTH * ((rest \div TENTH) + d)
      BY DEF RetryAfter
    <3>2. 2 * (rest - r) <= TENTH /\ 2 * (r - rest) <= TENTH
      BY DEF RetryAfter
    <3> HIDE DEF rest
    <3>3. (rest \div TENTH) + d \in Int
      BY <2>6, LimitAssumption
    <3> QED
      BY <2>5, <3>1, <3>2, <3>3
  <2>8. /\ 2 * ((now + r) - (t + RATE_WINDOW)) <= TENTH
        /\ 2 * ((t + RATE_WINDOW) - (now + r)) <= TENTH
    <3>1. (now + r) - (t + RATE_WINDOW) = r - rest /\ (t + RATE_WINDOW) - (now + r) = rest - r
      BY <2>5, <2>7
    <3> QED
      BY <2>7, <3>1
  <2>9. \A q \in Key : q # k /\ promise'[q] # 0 =>
          /\ head'[q] \in 1..Len(allowed'[q]) /\ InDeque(q, head[q])' = RATE_LIMIT
          /\ 2 * (promise'[q] - (allowed'[q][head'[q]] + RATE_WINDOW)) <= TENTH
          /\ 2 * ((allowed'[q][head'[q]] + RATE_WINDOW) - promise'[q]) <= TENTH
    BY <2>3 DEF PromiseSound, InDeque
  <2> HIDE DEF t
  <2>10. /\ head'[k] \in 1..Len(allowed'[k]) /\ InDeque(k, head[k])' = RATE_LIMIT
         /\ allowed'[k][head'[k]] = t
    BY <2>3, <2>4 DEF InDeque, t
  <2> QED
    BY <2>3, <2>8, <2>9, <2>10 DEF PromiseSound
<1> QED
  BY <1>1, <1>2, <1>3 DEF Next

LEMMA PromiseAlways == Spec => [](IInv /\ PromiseSound)
<1>1. Init => PromiseSound
  BY DEF Init, PromiseSound
<1> QED
  BY <1>1, PromiseStep, Inductive, PTL DEF Spec

\* The oldest hit of a deque that is still in the window, or the end: pruning stops somewhere.
LEMMA PruningStops ==
  ASSUME TypeOK, NEW k \in Key
  PROVE  \E h \in head[k]..(Len(allowed[k]) + 1) : Pruned(k, h)
<1> DEFINE stops == {h \in head[k]..(Len(allowed[k]) + 1) :
                       h <= Len(allowed[k]) => ~Expired(allowed[k][h])}
<1>1. /\ Len(allowed[k]) \in Nat /\ head[k] \in Nat \ {0} /\ head[k] <= Len(allowed[k]) + 1
  BY AllowedTyped DEF TypeOK
<1>2. Len(allowed[k]) + 1 \in stops /\ stops \subseteq Nat
  BY <1>1
<1>3. PICK h \in stops : \A m \in stops : ~(<<m, h>> \in OpToRel(<, Nat))
  <2> HIDE DEF stops
  <2> QED
    BY <1>2, NatLessThanWellFounded, WFMin
<1>4. \A m \in stops : h <= m
  <2> SUFFICES ASSUME NEW m \in stops, m < h PROVE FALSE
    BY <1>2
  <2>1. <<m, h>> \in OpToRel(<, Nat)
    BY <1>2 DEF OpToRel
  <2> QED
    BY <1>3, <2>1
<1>5. \A j \in head[k]..(h - 1) : Expired(allowed[k][j])
  <2> SUFFICES ASSUME NEW j \in head[k]..(h - 1), ~Expired(allowed[k][j]) PROVE FALSE
    OBVIOUS
  <2>1. j \in stops /\ j < h
    BY <1>1
  <2> QED
    BY <1>2, <1>4, <2>1
<1> QED
  BY <1>5 DEF Pruned

\* A refused client that waits half a tenth longer than retry_after is let through, unless the
\* key was used in between, and one that comes back as much too early is not.
THEOREM RetryAfterIsAccurate == Spec => []RetryAfterAccurate
<1>1. ASSUME IInv, PromiseSound PROVE RetryAfterAccurate
  <2> SUFFICES ASSUME NEW k \in Key, promise[k] # 0
               PROVE  LET free == \E h \in 1..(Len(allowed[k]) + 1) : Pruned(k, h) /\ ~Full(k, h) IN
                      /\ 2 * (now - promise[k]) > TENTH => free
                      /\ 2 * (promise[k] - now) > TENTH => ~free
    BY DEF RetryAfterAccurate
  <2> DEFINE t == allowed[k][head[k]]
             end == t + RATE_WINDOW
             q == promise[k]
  <2>1. /\ head[k] \in 1..Len(allowed[k]) /\ InDeque(k, head[k]) = RATE_LIMIT
        /\ 2 * (q - end) <= TENTH /\ 2 * (end - q) <= TENTH
    BY <1>1 DEF PromiseSound
  <2>2. /\ t \in Int /\ end \in Int /\ q \in Int /\ now \in Int /\ TENTH \in Int /\ RATE_WINDOW \in Int
        /\ RATE_LIMIT \in Int /\ Len(allowed[k]) \in Nat
    <3>1. /\ t \in 0..MaxTime /\ now \in 0..MaxTime /\ Len(allowed[k]) \in Nat
      BY <1>1, <2>1, AllowedTyped DEF IInv
    <3>2. q \in Nat
      BY <1>1 DEF IInv, TypeOK
    <3>3. t \in Int /\ now \in Int
      BY <3>1, LimitAssumption
    <3>4. end \in Int
      <4> HIDE DEF t
      <4> QED
        BY <3>3, LimitAssumption
    <3> QED
      BY <3>1, <3>2, <3>3, <3>4, LimitAssumption
  <2>3. Expired(t) <=> now > end
    BY <2>2 DEF Expired
  <2>4. ASSUME 2 * (now - q) > TENTH
        PROVE  \E h \in 1..(Len(allowed[k]) + 1) : Pruned(k, h) /\ ~Full(k, h)
    <3>1. now > end
      <4> HIDE DEF end, q
      <4> QED
        BY <2>1, <2>2, <2>4
    <3>2. PICK h \in head[k]..(Len(allowed[k]) + 1) : Pruned(k, h)
      BY <1>1, PruningStops DEF IInv
    <3>3. h # head[k]
      BY <2>1, <2>2, <2>3, <3>1, <3>2 DEF Pruned
    <3>4. h \in 1..(Len(allowed[k]) + 1) /\ ~Full(k, h)
      <4>1. h > head[k] /\ head[k] \in Nat /\ h \in 1..(Len(allowed[k]) + 1)
        <5>1. head[k] \in 1..Len(allowed[k]) /\ Len(allowed[k]) \in Nat
          BY <2>1, <2>2
        <5> QED
          BY <3>2, <3>3, <5>1
      <4>2. InDeque(k, h) < InDeque(k, head[k]) /\ InDeque(k, h) \in Int
        BY <2>2, <4>1 DEF InDeque
      <4> QED
        BY <2>1, <2>2, <4>1, <4>2 DEF Full
    <3> QED
      BY <3>2, <3>4
  <2>5. ASSUME 2 * (q - now) > TENTH, NEW h \in 1..(Len(allowed[k]) + 1), Pruned(k, h)
        PROVE  Full(k, h)
    <3>1. ~(now > end)
      <4> HIDE DEF end, q
      <4> QED
        BY <2>1, <2>2, <2>5
    <3>2. h = head[k]
      <4>1. h \in head[k]..(Len(allowed[k]) + 1) /\ \A j \in head[k]..(h - 1) : Expired(allowed[k][j])
        BY <2>5 DEF Pruned
      <4>2. ~Expired(allowed[k][head[k]])
        BY <2>3, <3>1
      <4>3. ~(head[k] \in head[k]..(h - 1))
        BY <4>1, <4>2
      <4>4. head[k] \in Nat /\ h \in Nat /\ h >= head[k]
        BY <2>1, <2>2, <4>1
      <4> QED
        BY <4>3, <4>4
    <3> QED
      BY <2>1, <2>2, <3>2 DEF Full
  <2> QED
    BY <2>4, <2>5
<1> QED
  BY <1>1, PromiseAlways, PTL
=============================================================================
