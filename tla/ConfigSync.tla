----------------------------- MODULE ConfigSync -----------------------------
(***************************************************************************)
(* How the settings reach a macro, and which of the two posts an alert.    *)
(* The dashboard (server routes/admin.py) and the bot (cogs/setup.py,      *)
(* db.py) write the settings and the biomes; the macro's config and        *)
(* heartbeat tasks (net/client.py) ask the server (routes/macro.py) for    *)
(* them.  The macro posts an alert itself in the direct flow, the server   *)
(* in the relay flow, each by the settings it sees.                        *)
(*                                                                         *)
(* Every await of a handler is a gap between two actions.  The settings    *)
(* and the biomes are known by the number of writes to each.  `relay` is   *)
(* the flow: "relay" or "direct".  Of the three dispatch modes it only     *)
(* matters which is per_user_channels.  Server and bot share one clock,    *)
(* read in the milliseconds Mongo keeps, so two readings may be equal.     *)
(***************************************************************************)
EXTENDS Integers

CONSTANTS
  Editor,     \* handlers that may edit at once
  MaxEdits,   \* bound on edits
  MaxTime     \* bound on the clock

ASSUME BoundAssumption == MaxEdits \in Nat /\ MaxTime \in Nat \ {0}

Mode == {"shared", "per_user_channels"}
Flow == {"relay", "direct"}
Keep == "keep"                       \* a field a patch leaves alone
Patch == [mode : Mode \cup {Keep}, flow : Flow \cup {Keep}]
NoChange == [mode |-> Keep, flow |-> Keep]

VARIABLES
  clock,       \* utcnow()
  settings,    \* the settings document; rev counts its updates
  biomes_rev,  \* the biomes collection: number of changes
  fetched_at,  \* config_fetched_at of the user's document
  editor,      \* [Editor -> where its handler is]
  edits,       \* edits started
  config,      \* remote_config of the macro
  refresh_now, \* _refresh_now
  fetch,       \* the config task and the GET /me/config it waits for
  beat,        \* the heartbeat task and its POST
  missed       \* history: settings took effect that the last stamp hides, or a
               \* stamped reply was lost

docs == <<settings, biomes_rev, fetched_at>>
macro == <<config, refresh_now>>
vars == <<clock, docs, editor, edits, macro, fetch, beat, missed>>

NoConfig == [known |-> FALSE, flow |-> "relay", rev |-> 0, biomes_rev |-> 0]
Config == [known : BOOLEAN, flow : Flow, rev : 0..MaxEdits, biomes_rev : 0..MaxEdits]
Time == 0..MaxTime                   \* 0 also stands for null
Handler == [pc : {"idle", "provision", "touch", "write"}, patch : Patch, seen : Flow,
            stamp : Time]
Fetch == [pc : {"idle", "sent", "read", "biomes", "reply"}, got : Config]
Beat == [pc : {"idle", "auth", "reply"}, fetched : Time, stale : BOOLEAN, rev : 0..MaxEdits]

\* Types; no stamp is ahead of the clock.
TypeOK ==
  /\ clock \in 1..MaxTime
  /\ settings \in [mode : Mode, flow : Flow, updated_at : 0..clock, rev : 0..MaxEdits]
  /\ biomes_rev \in 0..MaxEdits
  /\ fetched_at \in 0..clock
  /\ editor \in [Editor -> Handler]
  /\ edits \in 0..MaxEdits
  /\ config \in Config /\ refresh_now \in BOOLEAN
  /\ fetch \in Fetch /\ beat \in Beat /\ missed \in BOOLEAN

Resting == [pc |-> "idle", patch |-> NoChange, seen |-> "relay", stamp |-> 0]
NoBeat == [pc |-> "idle", fetched |-> 0, stale |-> FALSE, rev |-> 0]

Valid(mode, flow) == flow = "direct" => mode = "per_user_channels"

Init ==
  /\ clock = 1
  /\ \E m \in Mode, f \in Flow :
       Valid(m, f) /\ settings = [mode |-> m, flow |-> f, updated_at |-> 0, rev |-> 0]
  /\ biomes_rev = 0 /\ fetched_at = 0 /\ edits = 0
  /\ editor = [e \in Editor |-> Resting]
  /\ config = NoConfig /\ refresh_now = FALSE
  /\ fetch = [pc |-> "idle", got |-> NoConfig] /\ beat = NoBeat /\ missed = FALSE

Tick ==
  /\ clock < MaxTime
  /\ clock' = clock + 1
  /\ UNCHANGED <<docs, editor, edits, macro, fetch, beat, missed>>

-----------------------------------------------------------------------------
(* Edits. *)

StartEdit(e) == editor[e].pc = "idle" /\ edits < MaxEdits /\ edits' = edits + 1

Patched_WritesNone(p) == [mode |-> p.mode, flow |-> p.flow]

\* What the two fields are after a patch.
Patched(p) ==
  [mode |-> IF p.mode = Keep THEN settings.mode ELSE p.mode,
   flow |-> IF p.flow = Keep THEN settings.flow ELSE p.flow]

\* The handler has an update of the settings, stamped now, to send.
Stamped(e, patch) ==
  editor' = [editor EXCEPT ![e] = [Resting EXCEPT !.pc = "write", !.patch = patch, !.stamp = clock]]

\* PATCH /admin/settings, of these two fields or of others only: read, check the merge
\* (422 when it is not valid), stamp.
PatchSettings(e) ==
  /\ StartEdit(e)
  /\ \E p \in Patch : LET merged == Patched(p) IN Valid(merged.mode, merged.flow) /\ Stamped(e, p)
  /\ UNCHANGED <<clock, docs, macro, fetch, beat, missed>>

\* /setup roles and /setup inactivity: other fields, with no check of these two.
SetupOther(e) ==
  /\ StartEdit(e)
  /\ Stamped(e, NoChange)
  /\ UNCHANGED <<clock, docs, macro, fetch, beat, missed>>

\* /setup mode: the gate reads the settings, then Discord makes the webhook.
SetupMode(e) ==
  /\ StartEdit(e)
  /\ \E m \in Mode :
       editor' = [editor EXCEPT ![e] = [Resting EXCEPT !.pc = "provision",
                                          !.patch = [mode |-> m, flow |-> Keep],
                                          !.seen = settings.flow]]
  /\ UNCHANGED <<clock, docs, macro, fetch, beat, missed>>

\* /setup mode goes on: relay is re-enabled if the settings read then said direct.
SetupStamp(e) ==
  /\ editor[e].pc = "provision"
  /\ editor' = [editor EXCEPT ![e] =
       [@ EXCEPT !.pc = "write", !.stamp = clock, !.seen = "relay",
          !.patch.flow = IF editor[e].patch.mode = "shared" /\ editor[e].seen = "direct"
                         THEN "relay" ELSE Keep]]
  /\ UNCHANGED <<clock, docs, edits, macro, fetch, beat, missed>>

\* PUT and DELETE /admin/biomes, /setup biomechannel: the biome is written first.
EditBiome(e) ==
  /\ StartEdit(e)
  /\ biomes_rev' = biomes_rev + 1
  /\ editor' = [editor EXCEPT ![e] = [Resting EXCEPT !.pc = "touch"]]
  /\ UNCHANGED <<clock, settings, fetched_at, macro, fetch, beat, missed>>

\* Then updated_at is bumped.
TouchSettings(e) ==
  /\ editor[e].pc = "touch"
  /\ Stamped(e, NoChange)
  /\ UNCHANGED <<clock, docs, edits, macro, fetch, beat, missed>>

UpdatedAt_Forgotten(e) == settings.updated_at

\* updated_at of the update.
UpdatedAt(e) == editor[e].stamp

\* The update of the settings document takes effect.
WriteSettings(e) ==
  /\ editor[e].pc = "write"
  /\ LET new == Patched(editor[e].patch) IN
       settings' = [mode |-> new.mode, flow |-> new.flow, updated_at |-> UpdatedAt(e),
                    rev |-> settings.rev + 1]
  /\ editor' = [editor EXCEPT ![e] = Resting]
  /\ missed' = (missed \/ fetch.pc \in {"read", "biomes"} \/ editor[e].stamp <= fetched_at)
  /\ UNCHANGED <<clock, biomes_rev, fetched_at, edits, macro, fetch, beat>>

\* Discord refuses the webhook, or the database does not answer: the handler ends
\* where it is.
EditFails(e) ==
  /\ editor[e].pc # "idle"
  /\ editor' = [editor EXCEPT ![e] = Resting]
  /\ UNCHANGED <<clock, docs, edits, macro, fetch, beat, missed>>

-----------------------------------------------------------------------------
(* GET /me/config. *)

FetchDue_OnlyWhenTold == refresh_now

\* _config_loop: _refresh_now is set (by a heartbeat, or by the UI), or
\* CONFIG_REFRESH_SECONDS have passed.
FetchDue == TRUE

FetchStart ==
  /\ fetch.pc = "idle" /\ FetchDue
  /\ fetch' = [fetch EXCEPT !.pc = "sent"]
  /\ refresh_now' = FALSE
  /\ UNCHANGED <<clock, docs, editor, edits, config, beat, missed>>

\* The flow a macro is told: direct only with per-user channels.
ServedFlow(s) == IF s.flow = "relay" \/ s.mode # "per_user_channels" THEN "relay" ELSE "direct"

\* me_config reads the settings, then the biomes.
ServeSettings ==
  /\ fetch.pc = "sent"
  /\ fetch' = [pc |-> "read", got |-> [known |-> TRUE, flow |-> ServedFlow(settings),
                                       rev |-> settings.rev, biomes_rev |-> 0]]
  /\ UNCHANGED <<clock, docs, editor, edits, macro, beat, missed>>

ServeBiomes ==
  /\ fetch.pc = "read"
  /\ fetch' = [fetch EXCEPT !.pc = "biomes", !.got.biomes_rev = biomes_rev]
  /\ UNCHANGED <<clock, docs, editor, edits, macro, beat, missed>>

FetchedAt_Forgotten == fetched_at

\* config_fetched_at of the user, written last.
FetchedAt == clock

ServeStamp ==
  /\ fetch.pc = "biomes"
  /\ fetch' = [fetch EXCEPT !.pc = "reply"]
  /\ fetched_at' = FetchedAt
  /\ UNCHANGED <<clock, settings, biomes_rev, editor, edits, macro, beat, missed>>

\* HTTP 200 reaches the macro.
FetchReply ==
  /\ fetch.pc = "reply"
  /\ config' = fetch.got
  /\ fetch' = [pc |-> "idle", got |-> NoConfig]
  /\ UNCHANGED <<clock, docs, editor, edits, refresh_now, beat, missed>>

\* A NET_ERRORS exception or another status, before or after the server's stamp.
FetchFails ==
  /\ fetch.pc \in {"sent", "reply"}
  /\ fetch' = [pc |-> "idle", got |-> NoConfig]
  /\ missed' = (missed \/ fetch.pc = "reply")
  /\ UNCHANGED <<clock, docs, editor, edits, macro, beat>>

-----------------------------------------------------------------------------
(* POST /heartbeat. *)

\* The auth middleware has read the user's document.
HeartbeatAuth ==
  /\ beat.pc = "idle"
  /\ beat' = [NoBeat EXCEPT !.pc = "auth", !.fetched = fetched_at]
  /\ UNCHANGED <<clock, docs, editor, edits, macro, fetch, missed>>

\* heartbeat() reads the settings and compares the stamps.
HeartbeatAnswer ==
  /\ beat.pc = "auth"
  /\ beat' = [NoBeat EXCEPT !.pc = "reply", !.rev = settings.rev,
                            !.stale = settings.updated_at > beat.fetched]
  /\ UNCHANGED <<clock, docs, editor, edits, macro, fetch, missed>>

\* _heartbeat of the macro: config_stale wakes the config task.
HeartbeatReply ==
  /\ beat.pc = "reply"
  /\ beat' = NoBeat
  /\ refresh_now' = (refresh_now \/ beat.stale)
  /\ UNCHANGED <<clock, docs, editor, edits, config, fetch, missed>>

\* 409, 401, a transport error.
HeartbeatFails ==
  /\ beat.pc # "idle"
  /\ beat' = NoBeat
  /\ UNCHANGED <<clock, docs, editor, edits, macro, fetch, missed>>

-----------------------------------------------------------------------------
(* Who posts an alert. *)

\* _direct_dispatch: the cached config says direct.
MacroPosts == config.known /\ config.flow = "direct"

ServerPosts_Always == TRUE

\* `if settings["relay"]` of post_events, with the settings of that moment.
ServerPosts == settings.flow = "relay"

EditStep(e) ==
  \/ PatchSettings(e) \/ SetupOther(e) \/ SetupMode(e) \/ SetupStamp(e) \/ EditBiome(e)
  \/ TouchSettings(e) \/ WriteSettings(e) \/ EditFails(e)

FetchStep == FetchStart \/ ServeSettings \/ ServeBiomes \/ ServeStamp

Next ==
  \/ Tick
  \/ \E e \in Editor : EditStep(e)
  \/ FetchStep \/ FetchReply \/ FetchFails
  \/ HeartbeatAuth \/ HeartbeatAnswer \/ HeartbeatReply \/ HeartbeatFails

Spec == Init /\ [][Next]_vars

\* The two tasks never end (run_forever) and a started handler comes to its end; a
\* fetch that is tried again and again reaches the server, and is answered, once in
\* a while.
Fairness ==
  /\ WF_vars(FetchStart) /\ WF_vars(ServeBiomes \/ ServeStamp)
  /\ SF_vars(ServeSettings) /\ SF_vars(FetchReply)
  /\ WF_vars(HeartbeatAuth \/ HeartbeatAnswer \/ HeartbeatReply)
FairSpec == Spec /\ Fairness

-----------------------------------------------------------------------------
(* Properties. *)

\* While the settings are valid and the macro has them, the two sides agree on who
\* posts an alert: never both, never neither.
OnePoster ==
  (config.known /\ config.rev = settings.rev /\ Valid(settings.mode, settings.flow))
    => MacroPosts # ServerPosts

\* Once edits end, the macro gets the last settings and biomes and keeps them,
\* whatever races made the heartbeat miss a change.
ConfigConverges ==
  <>[](config.known /\ config.rev = settings.rev /\ config.biomes_rev = biomes_rev)

\* The heartbeat does not ask for a re-fetch for ever: once edits end it is
\* satisfied.
RefetchSettles == <>[](beat.pc = "reply" => ~beat.stale)

\* "relay=false is only valid with per_user_channels" (the settings route and
\* /setup mode both check it).
RelayValid == Valid(settings.mode, settings.flow)

\* "config_stale=true hints the macro to re-fetch (settings changed since the macro's
\* last fetch)".  A heartbeat that answers false vouches for the config the macro
\* has, except after one of two races: settings that took effect while they were
\* being served, or under a stamp no later than the fetch's; or a lost reply.
StaleIsReported ==
  (beat.pc = "reply" /\ ~beat.stale /\ fetch.pc = "idle" /\ config.known /\ ~missed)
    => config.rev >= beat.rev
=============================================================================
