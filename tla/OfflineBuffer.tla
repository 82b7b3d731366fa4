---------------------------- MODULE OfflineBuffer ----------------------------
(***************************************************************************)
(* What the macro promises of its offline buffer, without queues, tasks or *)
(* HTTP: events arrive once and in order, the newest Cap of them are kept, *)
(* and they leave oldest first, each with an answer of the server.  Once   *)
(* two flushes overlapped or the buffer overflowed, the order is all that  *)
(* is promised.                                                            *)
(***************************************************************************)
EXTENDS Integers

CONSTANTS Cap, Batch  \* events kept at most, and arriving at once at most

VARIABLES
  arrived,  \* number of events that arrived
  kept,     \* those in the buffer
  settled,  \* those the server has processed or refused
  muddled   \* an overlap or an overflow has happened
bufferVars == <<arrived, kept, settled, muddled>>

Init == arrived = 0 /\ kept = {} /\ settled = {} /\ muddled = FALSE

\* Events arrive, and what is too old leaves.
Arrive ==
  \E n \in 1..Batch :
    LET all == kept \cup ((arrived + 1)..(arrived + n)) IN
    /\ arrived' = arrived + n
    /\ kept' = {e \in all : e > arrived' - Cap}
    /\ muddled' \in BOOLEAN /\ ((muddled \/ kept' # all) => muddled')
    /\ UNCHANGED settled

\* The server answers for some events, or did and the answer was lost: the oldest leave.
Answer ==
  \E last \in 0..arrived :
    /\ kept' = {e \in kept : e > last}
    /\ settled \subseteq settled' /\ settled' \subseteq 1..arrived
    /\ muddled \/ kept \ kept' \subseteq settled'
    /\ UNCHANGED <<arrived, muddled>>

\* Two flushes overlap.
Overlap == muddled' = TRUE /\ UNCHANGED <<arrived, kept, settled>>

Next == Arrive \/ Answer \/ Overlap

Spec == Init /\ [][Next]_bufferVars
=============================================================================
