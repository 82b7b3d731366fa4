----------------------------- MODULE RateLimiter -----------------------------
(***************************************************************************)
(* server/biomebeacon_server/auth.py: the sliding-window limiter asked for *)
(* every request with a user key, before the key is looked up.             *)
(*                                                                         *)
(* Time is counted in ticks of 10 ms, so that retry_after, rounded to one  *)
(* decimal of a second, is a multiple of TENTH ticks.  The deque of a key  *)
(* is kept as the part of its history of allowed requests that starts at   *)
(* `head`: popleft moves head, append extends the history.                 *)
(***************************************************************************)
EXTENDS Integers, Sequences

CONSTANTS
  Key,          \* hashes of presented tokens, known to the server or not
  RATE_LIMIT,   \* requests
  RATE_WINDOW,  \* ticks
  TENTH,        \* ticks in a tenth of a second
  MaxTime       \* bound on the clock

ASSUME LimitAssumption ==
  /\ RATE_LIMIT \in Nat \ {0}
  /\ RATE_WINDOW \in Nat /\ TENTH \in Nat \ {0} /\ MaxTime \in Nat

VARIABLES
  now,      \* time.monotonic()
  allowed,  \* history: [Key -> times of the requests that were let through]
  head,     \* [Key -> index in `allowed` of the deque's oldest element]
  promise   \* [Key -> time a refused client was told to come back at, or 0]

vars == <<now, allowed, head, promise>>

\* len(hits), when the deque of k starts at h.
InDeque(k, h) == Len(allowed[k]) - h + 1

\* Types; a deque never holds more than RATE_LIMIT hits.
TypeOK ==
  /\ now \in 0..MaxTime
  /\ allowed \in [Key -> Seq(0..MaxTime)]
  /\ head \in [Key -> Nat \ {0}]
  /\ \A k \in Key : head[k] <= Len(allowed[k]) + 1 /\ InDeque(k, head[k]) <= RATE_LIMIT
  /\ promise \in [Key -> Nat]

Init ==
  /\ now \in 0..MaxTime
  /\ allowed = [k \in Key |-> <<>>]
  /\ head = [k \in Key |-> 1]
  /\ promise = [k \in Key |-> 0]

Expired_AtTheEdge(t) == now - t >= RATE_WINDOW

Expired(t) == now - t > RATE_WINDOW

\* The `while` loop: pop the expired hits from the old end, up to the first
\* that is not.
Pruned(k, h) ==
  /\ h \in head[k]..(Len(allowed[k]) + 1)
  /\ \A j \in head[k]..(h - 1) : Expired(allowed[k][j])
  /\ h <= Len(allowed[k]) => ~Expired(allowed[k][h])

Full_LessThanLimit(k, h) == InDeque(k, h) >= RATE_LIMIT - 1
Full_OffByOne(k, h) == InDeque(k, h) > RATE_LIMIT

Full(k, h) == InDeque(k, h) >= RATE_LIMIT

\* Mutant: the newest hit instead of the oldest.
RetryAfter_FromNewest(k, h) == {RATE_WINDOW - (now - allowed[k][Len(allowed[k])])}

\* round(window - (now - hits[0]), 1) in ticks.  A tie goes either way: it
\* depends on the binary fraction of the float.
RetryAfter(k, h) ==
  LET rest == RATE_WINDOW - (now - allowed[k][h]) IN
  {r \in {TENTH * ((rest \div TENTH) + d) : d \in {0, 1}} :
     2 * (rest - r) <= TENTH /\ 2 * (r - rest) <= TENTH}

\* check(), when it returns None.
CheckAllowed(k) ==
  /\ \E h \in 1..(Len(allowed[k]) + 1) :
       /\ Pruned(k, h) /\ ~Full(k, h)
       /\ head' = [head EXCEPT ![k] = h]
  /\ allowed' = [allowed EXCEPT ![k] = Append(@, now)]
  /\ promise' = [promise EXCEPT ![k] = 0]
  /\ UNCHANGED now

\* check(), when it returns the seconds to wait (429 with retry_after).
CheckRefused(k) ==
  /\ \E h \in 1..Len(allowed[k]) :
       /\ Pruned(k, h) /\ Full(k, h)
       /\ head' = [head EXCEPT ![k] = h]
       /\ \E r \in RetryAfter(k, h) : promise' = [promise EXCEPT ![k] = now + r]
  /\ UNCHANGED <<now, allowed>>

Tick ==
  /\ now < MaxTime
  /\ now' = now + 1
  /\ UNCHANGED <<allowed, head, promise>>

Next ==
  \/ Tick
  \/ \E k \in Key : CheckAllowed(k) \/ CheckRefused(k)

Spec == Init /\ [][Next]_vars

-----------------------------------------------------------------------------
(* Properties. *)

\* Of the requests let through for one key, RATE_LIMIT + 1 in a row never fit in
\* a window, however they straddle its edges.
WindowRespected ==
  \A k \in Key : \A j \in 1..Len(allowed[k]) :
    j + RATE_LIMIT <= Len(allowed[k]) =>
      allowed[k][j + RATE_LIMIT] - allowed[k][j] > RATE_WINDOW

\* The limiter never refuses without cause: whenever a request would be refused,
\* RATE_LIMIT of the latest window were let through.
RefusedOnlyWhenBusy ==
  \A k \in Key : \A h \in 1..Len(allowed[k]) :
    (Pruned(k, h) /\ Full(k, h)) =>
      \E j \in 1..Len(allowed[k]) :
        /\ InDeque(k, j) = RATE_LIMIT
        /\ now - allowed[k][j] <= RATE_WINDOW

\* "Otherwise seconds until the next slot frees up": unless the key is used in
\* between, a refused client that comes back more than half a tenth after its
\* retry_after is let through, and one that comes back as much before it is not.
RetryAfterAccurate ==
  \A k \in Key : promise[k] # 0 =>
    LET free == \E h \in 1..(Len(allowed[k]) + 1) : Pruned(k, h) /\ ~Full(k, h) IN
    /\ 2 * (now - promise[k]) > TENTH => free
    /\ 2 * (promise[k] - now) > TENTH => ~free
=============================================================================
