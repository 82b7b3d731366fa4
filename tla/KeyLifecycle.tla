---------------------------- MODULE KeyLifecycle ----------------------------
(***************************************************************************)
(* The life of a member's access: the bot's /key commands (cogs/keys.py),  *)
(* the inactivity purge (cogs/inactivity.py) and the dashboard's user      *)
(* routes (server routes/admin.py) all write the same document of `users`, *)
(* and create and delete the member's Discord channel (provisioning.py).   *)
(*                                                                         *)
(* One member.  Every await between a handler's read and its write is a    *)
(* gap.  Channels are numbered in order of creation, 0 is None; a webhook  *)
(* is named by its channel, with which it dies.  Keys are not told apart:  *)
(* a request stands for one with the current key.  The clock counts days.  *)
(* inactivity_enabled is on.                                               *)
(***************************************************************************)
EXTENDS Integers, FiniteSets

CONSTANTS
  Handler,          \* interactions the bot serves at once
  INACTIVITY_DAYS,  \* inactivity_days of the settings
  MaxOps,           \* bound on commands and dashboard calls
  MaxTime           \* bound on the clock

ASSUME DaysAssumption ==
  INACTIVITY_DAYS \in Nat /\ MaxOps \in Nat \ {0} /\ MaxTime \in Nat \ {0}
ASSUME HandlerAssumption == "purge_loop" \notin Handler

VARIABLES
  clock,     \* utcnow()
  running,   \* the task of purge_loop has not ended
  per_user,  \* dispatch_mode is per_user_channels
  user,      \* the member's document
  channels,  \* Discord: channels that exist
  created,   \* channels created so far
  handler,   \* [Task -> where it is, and its local variables]
  ops,       \* commands and dashboard calls so far
  mishaps    \* history: handlers begun while another ran, that failed half-way, or
             \* whose document the dashboard deleted; counted up to MaxOps

vars == <<clock, running, per_user, user, channels, created, handler, ops, mishaps>>

Task == Handler \cup {"purge_loop"}
Channel == 0..MaxOps
User == [exists : BOOLEAN, active : BOOLEAN, channel : Channel, webhook : Channel,
         seen : 0..MaxTime, created_at : 0..MaxTime]
NoUser == [exists |-> FALSE, active |-> FALSE, channel |-> 0, webhook |-> 0,
           seen |-> 0, created_at |-> 0]
Frame == [pc : {"idle", "channel", "webhook", "role", "insert", "update", "delete", "remove"},
          channel : Channel, webhook : Channel, existing : BOOLEAN, keep : BOOLEAN]
Idle == [pc |-> "idle", channel |-> 0, webhook |-> 0, existing |-> FALSE, keep |-> FALSE]

\* Types; no half of a document is left where there is none.
TypeOK ==
  /\ clock \in 1..MaxTime /\ running \in BOOLEAN /\ per_user \in BOOLEAN
  /\ user \in User /\ (~user.exists => user = NoUser)
  /\ channels \subseteq 1..created /\ created \in Channel
  /\ handler \in [Task -> Frame]
  /\ ops \in 0..MaxOps
  /\ mishaps \in 0..MaxOps

Init ==
  /\ clock = 1 /\ running = FALSE /\ per_user \in BOOLEAN
  /\ user = NoUser
  /\ channels = {} /\ created = 0
  /\ handler = [t \in Task |-> Idle]
  /\ ops = 0 /\ mishaps = 0

Busy(t) == handler[t].pc # "idle"
At(t, pc) == handler[t].pc = pc

OneMore == IF mishaps < MaxOps THEN mishaps + 1 ELSE mishaps

\* Task t reads the document, while others may be between their read and write.
Begin(t, frame) ==
  /\ ~Busy(t)
  /\ handler' = [handler EXCEPT ![t] = frame]
  /\ mishaps' = IF \E u \in Task : Busy(u) THEN OneMore ELSE mishaps

Command == ops < MaxOps /\ ops' = ops + 1
End(t) == handler' = [handler EXCEPT ![t] = Idle]

Tick ==
  /\ clock < MaxTime
  /\ clock' = clock + 1
  /\ UNCHANGED <<running, per_user, user, channels, created, handler, ops, mishaps>>

\* /setup mode, or the dashboard.
SetMode ==
  /\ Command
  /\ per_user' = ~per_user
  /\ UNCHANGED <<clock, running, user, channels, created, handler, mishaps>>

-----------------------------------------------------------------------------
(* /key create *)

\* The last step, by whether the first one found a document.
WriteStep(existing) == IF existing THEN "update" ELSE "insert"

\* The command stops here when the member is active.  A channel is only made in
\* the per-user mode, and when the recorded one is not there.
CreateRead(h) ==
  /\ Command
  /\ ~user.active
  /\ Begin(h, [pc |-> IF ~per_user THEN WriteStep(user.exists)
                      ELSE IF user.channel \in channels THEN "role" ELSE "channel",
               channel |-> user.channel, webhook |-> user.webhook,
               existing |-> user.exists, keep |-> FALSE])
  /\ UNCHANGED <<clock, running, per_user, user, channels, created>>

\* create_user_channel, up to its second await.
CreateChannel(h) ==
  /\ At(h, "channel")
  /\ created' = created + 1
  /\ channels' = channels \cup {created + 1}
  /\ handler' = [handler EXCEPT ![h] = [@ EXCEPT !.pc = "webhook", !.channel = created + 1]]
  /\ UNCHANGED <<clock, running, per_user, user, ops, mishaps>>

CreateWebhook(h) ==
  /\ At(h, "webhook")
  /\ handler' = [handler EXCEPT ![h] = [@ EXCEPT !.pc = "role", !.webhook = handler[h].channel]]
  /\ UNCHANGED <<clock, running, per_user, user, channels, created, ops, mishaps>>

\* grant_member_role.
GrantRole(h) ==
  /\ At(h, "role")
  /\ handler' = [handler EXCEPT ![h] = [@ EXCEPT !.pc = WriteStep(handler[h].existing)]]
  /\ UNCHANGED <<clock, running, per_user, user, channels, created, ops, mishaps>>

\* insert_one; a document made meanwhile raises DuplicateKeyError.
CreateInsert(h) ==
  /\ At(h, "insert")
  /\ user' = IF user.exists THEN user
             ELSE [exists |-> TRUE, active |-> TRUE, channel |-> handler[h].channel,
                   webhook |-> handler[h].webhook, seen |-> 0, created_at |-> clock]
  /\ End(h)
  /\ UNCHANGED <<clock, running, per_user, channels, created, ops, mishaps>>

CreateUpdate_Upserts(h) ==
  /\ At(h, "update")
  /\ user' = [user EXCEPT !.active = TRUE, !.channel = handler[h].channel,
                          !.webhook = handler[h].webhook]
  /\ End(h)
  /\ UNCHANGED <<clock, running, per_user, channels, created, ops, mishaps>>

\* update_one, which does nothing when the document was deleted meanwhile.
CreateUpdate(h) ==
  /\ At(h, "update")
  /\ user' = IF ~user.exists THEN user
             ELSE [user EXCEPT !.active = TRUE, !.channel = handler[h].channel,
                               !.webhook = handler[h].webhook]
  /\ End(h)
  /\ UNCHANGED <<clock, running, per_user, channels, created, ops, mishaps>>

-----------------------------------------------------------------------------
(* /key revoke and the purge: delete the channel, then write. *)

\* The step after the read.
Removal(keep) == [Idle EXCEPT !.pc = IF user.channel # 0 /\ ~keep THEN "delete" ELSE "remove",
                              !.channel = user.channel, !.keep = keep]

\* delete_channel is the manager's choice; a document without a channel is left so.
RevokeRead(h) ==
  /\ Command
  /\ user.exists
  /\ \E keep \in BOOLEAN : Begin(h, Removal(keep \/ user.channel = 0))
  /\ UNCHANGED <<clock, running, per_user, user, channels, created>>

Inactive_NeverSeenStays == user.active /\ user.seen # 0 /\ clock - user.seen > INACTIVITY_DAYS

\* find_inactive: the last activity, or the creation of a user never seen, is too old.
Inactive ==
  /\ user.active
  /\ clock - (IF user.seen # 0 THEN user.seen ELSE user.created_at) > INACTIVITY_DAYS

\* on_ready starts the loop, once and whenever it has ended.
OnReady ==
  /\ ~running
  /\ running' = TRUE
  /\ UNCHANGED <<clock, per_user, user, channels, created, handler, ops, mishaps>>

\* purge_inactive, of the six-hour loop and of /inactive purge.
PurgeRead(t) ==
  /\ IF t = "purge_loop" THEN running /\ UNCHANGED ops ELSE Command
  /\ Inactive
  /\ Begin(t, Removal(FALSE))
  /\ UNCHANGED <<clock, running, per_user, user, channels, created>>

\* delete_user_channel swallows HTTP errors; its caller goes on either way.
DeleteChannel(t) ==
  /\ At(t, "delete")
  /\ handler' = [handler EXCEPT ![t] = [@ EXCEPT !.pc = "remove"]]
  /\ \/ channels' = channels \ {handler[t].channel} /\ UNCHANGED mishaps
     \/ UNCHANGED channels /\ mishaps' = OneMore
  /\ UNCHANGED <<clock, running, per_user, user, created, ops>>

ChannelAfter_Forgotten(t) == 0
WebhookAfter_Kept(t) == user.webhook

\* channel_id and webhook_url after the write.
ChannelAfter(t) == IF handler[t].keep THEN user.channel ELSE 0
WebhookAfter(t) == 0

RemoveWrite(t) ==
  /\ At(t, "remove")
  /\ user' = IF ~user.exists THEN user
             ELSE [user EXCEPT !.active = FALSE, !.channel = ChannelAfter(t),
                               !.webhook = WebhookAfter(t)]
  /\ End(t)
  /\ UNCHANGED <<clock, running, per_user, channels, created, ops, mishaps>>

\* nextcord.Forbidden while provisioning, a database error, the bot restarts: the
\* handler ends where it is, and what it did stays done.  For the loop, only an error of
\* the network in Discord's answer, after which tasks.loop goes on.
HandlerFails(t) ==
  /\ Busy(t) /\ (t = "purge_loop" => At(t, "delete"))
  /\ End(t)
  /\ mishaps' = OneMore
  /\ UNCHANGED <<clock, running, per_user, user, channels, created, ops>>

\* Any other exception ends the loop for good, wherever it is: a database error in
\* get_settings, in the read of this or the write of any member.  So does a restart.
LoopEnds ==
  /\ running
  /\ running' = FALSE
  /\ End("purge_loop")
  /\ mishaps' = IF Busy("purge_loop") THEN OneMore ELSE mishaps
  /\ UNCHANGED <<clock, per_user, user, channels, created, ops>>

-----------------------------------------------------------------------------
(* One update of the document, with no gap. *)

\* /key regenerate, POST regenerate-key, and PATCH with active.
SetActive(active) ==
  /\ Command
  /\ user.exists
  /\ user' = [user EXCEPT !.active = active]
  /\ UNCHANGED <<clock, running, per_user, channels, created, handler, mishaps>>

\* DELETE /admin/users: the channel is not the server's to delete.
DeleteUser ==
  /\ Command
  /\ user.exists
  /\ user' = NoUser
  /\ mishaps' = OneMore
  /\ UNCHANGED <<clock, running, per_user, channels, created, handler>>

\* _check_user: a request of the macro with its key stamps last_seen.  Look-up and
\* stamp are one action: no other write touches last_seen, so a stamp that lands
\* after a revoke leaves the document it would have left before it.
Request ==
  /\ user.active
  /\ user' = [user EXCEPT !.seen = clock]
  /\ UNCHANGED <<clock, running, per_user, channels, created, handler, ops, mishaps>>

CreateStep(h) ==
  \/ CreateRead(h) \/ CreateChannel(h) \/ CreateWebhook(h) \/ GrantRole(h)
  \/ CreateInsert(h) \/ CreateUpdate(h)

Next ==
  \/ Tick \/ SetMode \/ Request \/ DeleteUser
  \/ \E active \in BOOLEAN : SetActive(active)
  \/ \E h \in Handler : CreateStep(h) \/ RevokeRead(h)
  \/ \E t \in Task : PurgeRead(t) \/ DeleteChannel(t) \/ RemoveWrite(t) \/ HandlerFails(t)
  \/ OnReady \/ LoopEnds

Spec == Init /\ [][Next]_vars

\* While it lives, the loop comes round every six hours and its calls are answered; the
\* network does not cut its deletions short for ever.  That on_ready comes is not assumed.
PurgeFairness ==
  /\ WF_vars(PurgeRead("purge_loop")) /\ WF_vars(RemoveWrite("purge_loop"))
  /\ SF_vars(DeleteChannel("purge_loop"))
FairSpec == Spec /\ PurgeFairness

-----------------------------------------------------------------------------
(* Properties. *)

Making(h) == handler[h].pc \in {"webhook", "role", "insert", "update"}

\* Discord limits the channels of a guild, and the purge exists to free them: a channel
\* that no record names and no handler is making is the doing of a mishap, and each
\* mishap costs one channel at most, whatever the order of commands, modes and purges.
Recorded == {user.channel} \cup {handler[h].channel : h \in {g \in Handler : Making(g)}}
LeaksAccounted == Cardinality(channels \ Recorded) <= mishaps

\* While nothing of that kind happened, the webhook on record is that of the recorded
\* channel and alive, unless a handler has just deleted the channel and is about to
\* write.
WebhookAlive ==
  (mishaps = 0 /\ user.webhook # 0) =>
    /\ user.webhook = user.channel
    /\ user.webhook \in channels \/ \E t \in Task : At(t, "remove")

\* Neither seen nor created in the last INACTIVITY_DAYS.
Abandoned ==
  user.active /\ \A t \in {user.seen, user.created_at} : clock - t > INACTIVITY_DAYS

\* "Auto-remove users whose macro went quiet": while the loop lives, an abandoned user
\* does not stay active, whether or not it was ever seen, also when a purge before failed
\* half-way or another command runs at the same time.  A loop that has ended purges
\* nobody, and only on_ready helps: that excuse is the code's.
AbandonedIsPurged == (Abandoned /\ running) ~> (~Abandoned \/ ~running)

\* In the per-user mode "/key create then auto-creates a private channel + webhook
\* per user": a create that gets past its provisioning records a webhook.
CreateGivesWebhook ==
  [][\A h \in Handler :
       (At(h, "role") /\ handler'[h].pc \in {"insert", "update"}) => handler'[h].webhook # 0]_vars
=============================================================================
