----------------------------- MODULE Connection -----------------------------
(***************************************************************************)
(* The macro's own settings, from the window to the server: the calls of   *)
(* the window (ui/web.py), each on a thread of its own; config.json        *)
(* (config.py); the config task (net/client.py), which must fetch again    *)
(* after each change; and the private server link, which the window, the   *)
(* bot's /myserver and the dashboard write to the member's document.       *)
(*                                                                         *)
(* A connection is a URL and a key, each known by the number of the        *)
(* connection it belongs to, 0 when empty.  `other` stands for the theme,  *)
(* the log directory and start_minimized.  Links are numbered as written.  *)
(***************************************************************************)
EXTENDS Integers

CONSTANTS
  Caller,         \* threads of the window's calls
  MaxConnection,  \* connections are numbered 0..MaxConnection
  MaxCalls,       \* bound on calls that save
  MaxLinks,       \* bound on links written
  MaxMishaps      \* bound on restarts and failed saves

ASSUME ConnectionAssumption ==
  MaxConnection \in Nat \ {0} /\ MaxCalls \in Nat /\ MaxLinks \in Nat /\ MaxMishaps \in Nat

Number == 0..MaxConnection
MacroConfig == [url : Number, key : Number, other : BOOLEAN]
Defaults == [url |-> 0, key |-> 0, other |-> FALSE]
Pair(c) == [url |-> c.url, key |-> c.key]
Empty == [Defaults EXCEPT !.url = -1]   \* config.json without a whole text
Torn == [Defaults EXCEPT !.url = -2]    \* config.json with the ends of two

VARIABLES
  config,       \* the MacroConfig object, shared by all threads
  file,         \* config.json
  caller,       \* [Caller -> the step of its call, and what it carries]
  refresh_now,  \* _refresh_now
  fetch,        \* the config task
  asked,        \* history: the URL and key its last fetch used, or found wanting
  remote,       \* remote_config: the key it was fetched with, and the link
  answered,     \* history: the last fetch was answered with 200
  update,       \* _patch_private_server
  links,        \* external: [Number -> private_server_link of the key's user]
  acked,        \* history: [Number -> the last link this macro was told is written]
  spoilt,       \* history: two saves overlapped, or one failed, since one ran alone
  unheard,      \* history: a save_connection failed, and no fetch has begun since
  budget        \* [calls, links, mishaps]: what may still happen

disk == <<file, spoilt, unheard>>
task == <<refresh_now, fetch, asked, remote, answered>>
server == <<links, acked>>
vars == <<config, disk, caller, task, update, server, budget>>

Idle == [pc |-> "idle", renews |-> FALSE, number |-> 0, data |-> Defaults]
NoFetch == [pc |-> "start", url |-> 0, key |-> 0, link |-> 0]
NoUpdate == [pc |-> "idle", key |-> 0, link |-> 0]
Link == 0..MaxLinks
Frame == [pc : {"idle", "key", "dump", "open", "write", "refresh"},
          renews : BOOLEAN, number : Number, data : MacroConfig]
Fetch == [pc : {"start", "url", "key", "sent", "reply", "wait"},
          url : Number, key : Number, link : Link]
Update == [pc : {"idle", "sent", "written"}, key : Number, link : Link]
Budget == [calls : 0..MaxCalls, links : Link, mishaps : 0..MaxMishaps]

\* Types: whatever is on disk, the object in memory is a whole one.
TypeOK ==
  /\ config \in MacroConfig
  /\ file \in MacroConfig \cup {Empty, Torn}
  /\ caller \in [Caller -> Frame]
  /\ refresh_now \in BOOLEAN /\ fetch \in Fetch
  /\ asked \in [url : Number, key : Number]
  /\ remote \in [key : Number, link : Link] /\ answered \in BOOLEAN
  /\ update \in Update
  /\ links \in [Number -> Link] /\ acked \in [Number -> Link]
  /\ spoilt \in BOOLEAN /\ unheard \in BOOLEAN /\ budget \in Budget

Init ==
  /\ file \in {Empty, [url |-> 1, key |-> 1, other |-> FALSE]}
  /\ config = IF file = Empty THEN Defaults ELSE file
  /\ caller = [c \in Caller |-> Idle]
  /\ refresh_now = FALSE /\ fetch = NoFetch /\ asked = Pair(Defaults)
  /\ remote = [key |-> 0, link |-> 0] /\ answered = FALSE
  /\ update = NoUpdate /\ spoilt = FALSE /\ unheard = FALSE
  /\ links = [n \in Number |-> 0] /\ acked = [n \in Number |-> 0]
  /\ budget = [calls |-> MaxCalls, links |-> MaxLinks, mishaps |-> MaxMishaps]

-----------------------------------------------------------------------------
(* The window's calls. *)

At(c, pc) == caller[c].pc = pc

Call(c) ==
  /\ At(c, "idle") /\ budget.calls > 0
  /\ budget' = [budget EXCEPT !.calls = @ - 1]

\* save_connection assigns the URL, then the key, then saves.
SetUrl(c) ==
  /\ Call(c)
  /\ \E n \in Number :
       /\ config' = [config EXCEPT !.url = n]
       /\ caller' = [caller EXCEPT ![c] = [Idle EXCEPT !.pc = "key", !.renews = TRUE,
                                                      !.number = n]]
  /\ UNCHANGED <<disk, task, update, server>>

SetKey(c) ==
  /\ At(c, "key")
  /\ config' = [config EXCEPT !.key = caller[c].number]
  /\ caller' = [caller EXCEPT ![c] = [@ EXCEPT !.pc = "dump", !.number = 0]]
  /\ UNCHANGED <<disk, task, update, server, budget>>

\* set_theme, set_start_minimized, apply_logdir: one field, then save.
SetOther(c) ==
  /\ Call(c)
  /\ config' = [config EXCEPT !.other = ~@]
  /\ caller' = [caller EXCEPT ![c] = [Idle EXCEPT !.pc = "dump"]]
  /\ UNCHANGED <<disk, task, update, server>>

Saving(c) == caller[c].pc \in {"open", "write"}

Dump_OnlyConnection(c) ==
  /\ At(c, "dump")
  /\ caller' = [caller EXCEPT ![c] = [@ EXCEPT !.pc = "open", !.data = [config EXCEPT !.other = FALSE]]]
  /\ spoilt' = \E d \in Caller : Saving(d)
  /\ UNCHANGED <<config, file, unheard, task, update, server, budget>>

\* save(): the text is made first.
Dump(c) ==
  /\ At(c, "dump")
  /\ caller' = [caller EXCEPT ![c] = [@ EXCEPT !.pc = "open", !.data = config]]
  /\ spoilt' = \E d \in Caller : Saving(d)
  /\ UNCHANGED <<config, file, unheard, task, update, server, budget>>

\* write_text opens the file, which empties it.
OpenFile(c) ==
  /\ At(c, "open")
  /\ file' = Empty
  /\ caller' = [caller EXCEPT ![c] = [@ EXCEPT !.pc = "write"]]
  /\ UNCHANGED <<config, spoilt, unheard, task, update, server, budget>>

AfterSave(c) ==
  IF caller[c].renews THEN [Idle EXCEPT !.pc = "refresh", !.renews = TRUE] ELSE Idle

\* And writes from the start of it: what another thread wrote meanwhile, if longer,
\* sticks out at the end.
WriteFile(c) ==
  /\ At(c, "write")
  /\ \/ file' = caller[c].data
     \/ file \notin {Empty, caller[c].data} /\ file' = Torn
  /\ caller' = [caller EXCEPT ![c] = AfterSave(c)]
  /\ UNCHANGED <<config, spoilt, unheard, task, update, server, budget>>

Mishap == budget.mishaps > 0 /\ budget' = [budget EXCEPT !.mishaps = @ - 1]

\* An OSError of mkdir, of the opening, or of the writing: nobody catches it, and
\* save_connection ends before its request_refresh.
SaveFails(c) ==
  /\ Saving(c) /\ Mishap
  /\ \/ UNCHANGED file
     \/ At(c, "write") /\ file # Empty /\ file' = Torn
  /\ caller' = [caller EXCEPT ![c] = Idle]
  /\ spoilt' = TRUE
  /\ unheard' = (unheard \/ caller[c].renews)
  /\ UNCHANGED <<config, task, update, server>>

\* request_refresh: the loop sets the event, if there is a loop already.
Refreshed == refresh_now \/ fetch.pc # "start"

EndSaveConnection(c) ==
  /\ At(c, "refresh")
  /\ caller' = [caller EXCEPT ![c] = Idle]
  /\ refresh_now' = Refreshed
  /\ UNCHANGED <<config, disk, fetch, asked, remote, answered, update, server, budget>>

\* The refresh button.
RequestRefresh ==
  /\ refresh_now' = Refreshed
  /\ UNCHANGED <<config, caller, disk, fetch, asked, remote, answered, update, server, budget>>

Load_Unchecked == file

\* MacroConfig.load: a file that is missing or not JSON means the defaults.
Load == IF file \in MacroConfig THEN file ELSE Defaults

\* The program ends, wherever its threads are, and is started again.
Restart ==
  /\ Mishap
  /\ config' = Load
  /\ caller' = [c \in Caller |-> Idle]
  /\ refresh_now' = FALSE /\ fetch' = NoFetch /\ asked' = Pair(Defaults)
  /\ remote' = [key |-> 0, link |-> 0] /\ answered' = FALSE
  /\ update' = NoUpdate /\ spoilt' = FALSE /\ unheard' = FALSE
  /\ UNCHANGED <<file, server>>

-----------------------------------------------------------------------------
(* The config task. *)

Configured == config.url # 0 /\ config.key # 0

\* What is kept of the last fetch gives way to this.
Ask(pair) == asked' = pair /\ answered' = FALSE

\* The loop is up, and the task begins with a fetch.
StartLoop ==
  /\ fetch.pc = "start"
  /\ fetch' = [fetch EXCEPT !.pc = "url"]
  /\ UNCHANGED <<config, caller, disk, refresh_now, asked, remote, answered, update, server,
                 budget>>

\* _fetch_config: not configured, or _url is made.
ReadUrl ==
  /\ fetch.pc = "url"
  /\ IF Configured
     THEN /\ fetch' = [fetch EXCEPT !.pc = "key", !.url = config.url]
          /\ UNCHANGED <<asked, answered>>
     ELSE /\ fetch' = [NoFetch EXCEPT !.pc = "wait"]
          /\ Ask(Pair(config))
  /\ unheard' = FALSE
  /\ UNCHANGED <<config, caller, file, spoilt, refresh_now, remote, update, server, budget>>

\* _headers is made, from a key that may be of another connection by now.
ReadKey ==
  /\ fetch.pc = "key"
  /\ fetch' = [fetch EXCEPT !.pc = "sent", !.url = 0, !.key = config.key]
  /\ Ask([url |-> fetch.url, key |-> config.key])
  /\ UNCHANGED <<config, caller, disk, refresh_now, remote, update, server, budget>>

\* The server looks the key up: me_config will name this link.
ServeConfig ==
  /\ fetch.pc = "sent"
  /\ fetch' = [fetch EXCEPT !.pc = "reply", !.link = links[fetch.key]]
  /\ UNCHANGED <<config, caller, disk, refresh_now, asked, remote, answered, update, server,
                 budget>>

EndFetch_ClearsLate ==
  /\ fetch' = [NoFetch EXCEPT !.pc = "wait"]
  /\ refresh_now' = FALSE

\* Back to waiting for _refresh_now.
EndFetch ==
  /\ fetch' = [NoFetch EXCEPT !.pc = "wait"]
  /\ UNCHANGED refresh_now

\* HTTP 200.
FetchAnswered ==
  /\ fetch.pc = "reply"
  /\ remote' = [key |-> fetch.key, link |-> fetch.link]
  /\ answered' = TRUE
  /\ EndFetch
  /\ UNCHANGED <<config, caller, disk, asked, update, server, budget>>

\* 401, another status, a NET_ERRORS exception: the old remote_config stays.
FetchFails ==
  /\ fetch.pc \in {"sent", "reply"}
  /\ EndFetch
  /\ UNCHANGED <<config, caller, disk, asked, remote, answered, update, server, budget>>

\* The wait is over, by the event or by the timeout; the event is cleared before the fetch.
Wake ==
  /\ fetch.pc = "wait"
  /\ refresh_now' = FALSE
  /\ fetch' = [fetch EXCEPT !.pc = "url"]
  /\ Ask(Pair(Defaults))
  /\ UNCHANGED <<config, caller, disk, remote, update, server, budget>>

-----------------------------------------------------------------------------
(* The private server link. *)

\* update_link: the coroutine is handed to the loop, if there is one, and sends the key of
\* that moment.  A torn connection may make it fail, which it may anyway.
UpdateLink ==
  /\ fetch.pc # "start" /\ Configured /\ update.pc = "idle"
  /\ update' = [pc |-> "sent", key |-> config.key, link |-> 0]
  /\ UNCHANGED <<config, caller, disk, task, server, budget>>

NextLink == 1 + MaxLinks - budget.links

Wrote(n) ==
  /\ budget.links > 0 /\ budget' = [budget EXCEPT !.links = @ - 1]
  /\ links' = [links EXCEPT ![n] = NextLink]
  /\ UNCHANGED acked

\* patch_private_server.
ServeUpdate ==
  /\ update.pc = "sent"
  /\ Wrote(update.key)
  /\ update' = [update EXCEPT !.pc = "written", !.link = NextLink]
  /\ UNCHANGED <<config, caller, disk, task>>

UpdateAnswered_NoRefresh ==
  /\ update.pc = "written"
  /\ acked' = [acked EXCEPT ![update.key] = update.link]
  /\ update' = NoUpdate
  /\ UNCHANGED <<config, caller, disk, task, links, budget>>

\* HTTP 200: the task is to fetch again.
UpdateAnswered ==
  /\ update.pc = "written"
  /\ acked' = [acked EXCEPT ![update.key] = update.link]
  /\ refresh_now' = TRUE
  /\ update' = NoUpdate
  /\ UNCHANGED <<config, caller, disk, fetch, asked, remote, answered, links, budget>>

UpdateFails ==
  /\ update.pc # "idle"
  /\ update' = NoUpdate
  /\ UNCHANGED <<config, caller, disk, task, server, budget>>

\* /myserver, or PATCH user on the dashboard: updated_at is not bumped.
OthersWriteLink ==
  /\ \E n \in Number \ {0} : Wrote(n)
  /\ UNCHANGED <<config, caller, disk, task, update>>

CallStep(c) ==
  \/ SetUrl(c) \/ SetKey(c) \/ SetOther(c)
  \/ Dump(c) \/ OpenFile(c) \/ WriteFile(c) \/ SaveFails(c)
  \/ EndSaveConnection(c)

Next ==
  \/ \E c \in Caller : CallStep(c)
  \/ RequestRefresh \/ Restart
  \/ StartLoop \/ ReadUrl \/ ReadKey \/ ServeConfig \/ FetchAnswered \/ FetchFails \/ Wake
  \/ UpdateLink \/ ServeUpdate \/ UpdateAnswered \/ UpdateFails \/ OthersWriteLink

Spec == Init /\ [][Next]_vars

-----------------------------------------------------------------------------
(* Properties. *)

Quiet == \A c \in Caller : At(c, "idle")
Settled == fetch.pc = "wait" /\ ~refresh_now

\* No change of the connection is missed until the ten-minute refresh: when the task
\* rests and no call is under way, its last fetch used the connection the window shows,
\* whatever half of it another fetch read before, and although a refresh requested
\* before the loop runs is dropped.  Only a save that failed keeps the task waiting.
LastFetchCurrent == (Quiet /\ Settled /\ ~unheard) => asked = Pair(config)

\* The alerts of the direct flow carry the member's own link: when the task rests after
\* an answered fetch, the cached link is not older than the last one this macro was told
\* is saved.
OwnLinkCached == (Settled /\ answered) => remote.link >= acked[remote.key]

\* config.json is what a restart needs: when no call is under way it gives back the
\* settings in memory, unless the last saves overlapped or the last one failed.
FileSettles == (Quiet /\ ~spoilt) => Load = config
=============================================================================
