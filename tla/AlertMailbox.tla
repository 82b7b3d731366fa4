---------------------------- MODULE AlertMailbox ----------------------------
(***************************************************************************)
(* What the dispatcher promises to its callers, without workers, retries   *)
(* or webhooks: a mailbox of numbered alerts with two lanes.  Numbers are  *)
(* handed out in order of acceptance, so the oldest alert of a lane is its *)
(* smallest number.  The urgent lane always accepts and is always served   *)
(* first; the normal lane accepts while fewer than Cap alerts wait on it.  *)
(***************************************************************************)
EXTENDS Integers, FiniteSets

CONSTANT Cap

VARIABLES urgentLane, normalLane, inHand, next, open
mailboxVars == <<urgentLane, normalLane, inHand, next, open>>

Init ==
  /\ urgentLane = {} /\ normalLane = {} /\ inHand = {}
  /\ next = 0
  /\ open = TRUE

AcceptUrgent ==
  /\ open
  /\ urgentLane' = urgentLane \cup {next}
  /\ next' = next + 1
  /\ UNCHANGED <<normalLane, inHand, open>>

AcceptNormal ==
  /\ open /\ Cardinality(normalLane) < Cap
  /\ normalLane' = normalLane \cup {next}
  /\ next' = next + 1
  /\ UNCHANGED <<urgentLane, inHand, open>>

Oldest(n, lane) == n \in lane /\ \A m \in lane : n <= m

TakeUrgent ==
  /\ open
  /\ \E n \in urgentLane :
       /\ Oldest(n, urgentLane)
       /\ urgentLane' = urgentLane \ {n}
       /\ inHand' = inHand \cup {n}
  /\ UNCHANGED <<normalLane, next, open>>

TakeNormal ==
  /\ open /\ urgentLane = {}
  /\ \E n \in normalLane :
       /\ Oldest(n, normalLane)
       /\ normalLane' = normalLane \ {n}
       /\ inHand' = inHand \cup {n}
  /\ UNCHANGED <<urgentLane, next, open>>

Settle ==
  /\ open
  /\ \E n \in inHand : inHand' = inHand \ {n}
  /\ UNCHANGED <<urgentLane, normalLane, next, open>>

Close ==
  /\ open
  /\ open' = FALSE
  /\ inHand' = {}
  /\ UNCHANGED <<urgentLane, normalLane, next>>

Next ==
  AcceptUrgent \/ AcceptNormal \/ TakeUrgent \/ TakeNormal \/ Settle \/ Close

Spec == Init /\ [][Next]_mailboxVars
=============================================================================
