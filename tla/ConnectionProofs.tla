-------------------------- MODULE ConnectionProofs --------------------------
(***************************************************************************)
(* Proofs about Connection, for any set of threads, number of connections, *)
(* links, calls and restarts.                                              *)
(***************************************************************************)
EXTENDS Connection, TLAPS

\* The records the program starts from.
LEMMA ConstantsTyped ==
  /\ Defaults \in MacroConfig /\ Idle \in Frame /\ NoFetch \in Fetch /\ NoUpdate \in Update
  /\ Pair(Defaults) \in [url : Number, key : Number]
  /\ 0 \in Number /\ 1 \in Number /\ 0 \in Link
  /\ Empty \notin MacroConfig /\ Torn \notin MacroConfig
<1>1. 0 \in Number /\ 1 \in Number /\ 0 \in Link /\ -1 \notin Number /\ -2 \notin Number
  BY ConnectionAssumption DEF Number, Link
<1>2. Defaults \in MacroConfig
  BY <1>1 DEF Defaults, MacroConfig
<1>3. Idle \in Frame
  BY <1>1, <1>2 DEF Idle, Frame
<1>4. NoFetch \in Fetch /\ NoUpdate \in Update
  BY <1>1 DEF NoFetch, Fetch, NoUpdate, Update
<1>5. Pair(Defaults) \in [url : Number, key : Number]
  BY <1>1 DEF Pair, Defaults
<1>6. Empty \notin MacroConfig /\ Torn \notin MacroConfig
  BY <1>1 DEF Empty, Torn, Defaults, MacroConfig
<1> QED
  BY <1>1, <1>2, <1>3, <1>4, <1>5, <1>6

LEMMA InitTyped == Init => TypeOK
<1> SUFFICES ASSUME Init PROVE TypeOK
  OBVIOUS
<1>1. config \in MacroConfig /\ file \in MacroConfig \cup {Empty, Torn}
  <2>1. [url |-> 1, key |-> 1, other |-> FALSE] \in MacroConfig
    BY ConstantsTyped DEF MacroConfig
  <2> QED
    BY <2>1, ConstantsTyped DEF Init
<1>2. budget \in Budget
  BY ConnectionAssumption DEF Init, Budget, Link
<1>3. remote \in [key : Number, link : Link]
  BY ConstantsTyped DEF Init
<1> QED
  BY <1>1, <1>2, <1>3, ConstantsTyped DEF Init, TypeOK

LEMMA LoadTyped == ASSUME TypeOK PROVE Load \in MacroConfig
BY ConnectionAssumption DEF TypeOK, Load, Defaults, MacroConfig, Number

LEMMA TypeStep == TypeOK /\ [Next]_vars => TypeOK'
<1> SUFFICES ASSUME TypeOK, [Next]_vars PROVE TypeOK'
  OBVIOUS
<1> USE ConnectionAssumption, ConstantsTyped
<1>1. ASSUME NEW c \in Caller, CallStep(c) PROVE TypeOK'
  <2>0. caller[c] \in Frame /\ caller[c].number \in Number /\ caller[c].data \in MacroConfig
    BY DEF TypeOK, Frame
  <2>1. CASE SetUrl(c)
    <3>1. PICK n \in Number :
            /\ config' = [config EXCEPT !.url = n]
            /\ caller' = [caller EXCEPT ![c] = [Idle EXCEPT !.pc = "key", !.renews = TRUE,
                                                           !.number = n]]
      BY <2>1 DEF SetUrl
    <3>2. config' \in MacroConfig /\ caller' \in [Caller -> Frame]
      BY <3>1 DEF TypeOK, MacroConfig, Frame
    <3>3. budget' \in Budget
      BY <2>1 DEF SetUrl, Call, TypeOK, Budget
    <3> QED
      BY <2>1, <3>2, <3>3 DEF SetUrl, TypeOK, disk, task, server
  <2>2. CASE SetKey(c)
    <3>1. config' \in MacroConfig /\ caller' \in [Caller -> Frame]
      BY <2>0, <2>2 DEF SetKey, TypeOK, MacroConfig, Frame
    <3> QED
      BY <2>2, <3>1 DEF SetKey, TypeOK, disk, task, server
  <2>3. CASE SetOther(c)
    <3>1. config' \in MacroConfig /\ caller' \in [Caller -> Frame]
      BY <2>3 DEF SetOther, TypeOK, MacroConfig, Frame
    <3>2. budget' \in Budget
      BY <2>3 DEF SetOther, Call, TypeOK, Budget
    <3> QED
      BY <2>3, <3>1, <3>2 DEF SetOther, TypeOK, disk, task, server
  <2>4. CASE Dump(c)
    <3>1. caller' \in [Caller -> Frame]
      BY <2>0, <2>4 DEF Dump, TypeOK, Frame
    <3> QED
      BY <2>4, <3>1 DEF Dump, TypeOK, task, server
  <2>5. CASE OpenFile(c)
    <3>1. caller' \in [Caller -> Frame]
      BY <2>0, <2>5 DEF OpenFile, TypeOK, Frame
    <3> QED
      BY <2>5, <3>1 DEF OpenFile, TypeOK, task, server
  <2>6. CASE WriteFile(c)
    <3>1. AfterSave(c) \in Frame
      BY DEF AfterSave, Frame
    <3>2. caller' \in [Caller -> Frame]
      BY <3>1, <2>6 DEF WriteFile, TypeOK
    <3> QED
      BY <2>0, <2>6, <3>2 DEF WriteFile, TypeOK, task, server
  <2>7. CASE SaveFails(c)
    <3>1. caller' \in [Caller -> Frame] /\ unheard' \in BOOLEAN
      BY <2>0, <2>7 DEF SaveFails, TypeOK, Frame
    <3>2. budget' \in Budget
      BY <2>7 DEF SaveFails, Mishap, TypeOK, Budget
    <3> QED
      BY <2>7, <3>1, <3>2 DEF SaveFails, TypeOK, task, server
  <2>8. CASE EndSaveConnection(c)
    BY <2>8 DEF EndSaveConnection, Refreshed, TypeOK, disk, server
  <2> QED
    BY <1>1, <2>1, <2>2, <2>3, <2>4, <2>5, <2>6, <2>7, <2>8 DEF CallStep
<1>2. CASE RequestRefresh
  BY <1>2 DEF RequestRefresh, Refreshed, TypeOK, disk, server
<1>3. CASE Restart
  <2>1. Load \in MacroConfig
    BY LoadTyped
  <2>2. budget' \in Budget
    BY <1>3 DEF Restart, Mishap, TypeOK, Budget
  <2>3. remote' \in [key : Number, link : Link]
    BY <1>3 DEF Restart
  <2> QED
    BY <1>3, <2>1, <2>2, <2>3 DEF Restart, TypeOK, server
<1>4. CASE StartLoop \/ ReadUrl \/ ReadKey \/ Wake
  <2>1. config.url \in Number /\ config.key \in Number /\ fetch.url \in Number
    BY DEF TypeOK, MacroConfig, Fetch
  <2>2. Pair(config) \in [url : Number, key : Number]
    BY <2>1 DEF Pair
  <2>3. fetch' \in Fetch
    <3>1. CASE StartLoop \/ Wake
      BY <3>1 DEF StartLoop, Wake, TypeOK, Fetch
    <3>2. CASE ReadUrl
      BY <2>1, <3>2 DEF ReadUrl, TypeOK, Fetch
    <3>3. CASE ReadKey
      BY <2>1, <3>3 DEF ReadKey, TypeOK, Fetch
    <3> QED
      BY <1>4, <3>1, <3>2, <3>3
  <2>4. asked' \in [url : Number, key : Number] /\ answered' \in BOOLEAN
    <3>1. [url |-> fetch.url, key |-> config.key] \in [url : Number, key : Number]
      BY <2>1
    <3>2. CASE ReadUrl
      BY <2>2, <3>2 DEF ReadUrl, Ask, TypeOK
    <3>3. CASE ReadKey
      BY <3>1, <3>3 DEF ReadKey, Ask
    <3>4. CASE StartLoop \/ Wake
      BY <3>4 DEF StartLoop, Wake, Ask, TypeOK
    <3> QED
      BY <1>4, <3>2, <3>3, <3>4
  <2> QED
    BY <1>4, <2>3, <2>4 DEF StartLoop, ReadUrl, ReadKey, Wake, TypeOK, disk, server
<1>5. CASE ServeConfig \/ FetchAnswered \/ FetchFails
  <2>1. fetch.key \in Number /\ fetch.link \in Link /\ links[fetch.key] \in Link
    BY DEF TypeOK, Fetch
  <2>2. fetch' \in Fetch
    BY <1>5, <2>1 DEF ServeConfig, FetchAnswered, FetchFails, EndFetch, TypeOK, Fetch
  <2>3. remote' \in [key : Number, link : Link]
    BY <1>5, <2>1 DEF ServeConfig, FetchAnswered, FetchFails, TypeOK
  <2> QED
    BY <1>5, <2>2, <2>3
       DEF ServeConfig, FetchAnswered, FetchFails, EndFetch, TypeOK, disk, server
<1>6. CASE UpdateLink \/ UpdateAnswered \/ UpdateFails
  <2>1. config.key \in Number /\ update.key \in Number /\ update.link \in Link
    BY DEF TypeOK, MacroConfig, Update
  <2>2. update' \in Update
    BY <1>6, <2>1 DEF UpdateLink, UpdateAnswered, UpdateFails, Update
  <2>3. acked' \in [Number -> Link] /\ refresh_now' \in BOOLEAN
    BY <1>6, <2>1 DEF UpdateLink, UpdateAnswered, UpdateFails, TypeOK, task, server
  <2> QED
    BY <1>6, <2>2, <2>3 DEF UpdateLink, UpdateAnswered, UpdateFails, TypeOK, disk, task, server
<1>7. CASE ServeUpdate \/ OthersWriteLink
  <2>1. update.key \in Number
    BY DEF TypeOK, Update
  <2>2. PICK n \in Number : Wrote(n)
    BY <1>7, <2>1 DEF ServeUpdate, OthersWriteLink
  <2>3. NextLink \in Link /\ budget' \in Budget
    BY <2>2 DEF Wrote, NextLink, TypeOK, Budget, Link
  <2>4. links' \in [Number -> Link] /\ acked' = acked
    BY <2>2, <2>3 DEF Wrote, TypeOK
  <2>5. update' \in Update
    BY <1>7, <2>3 DEF ServeUpdate, OthersWriteLink, TypeOK, Update
  <2> QED
    BY <1>7, <2>3, <2>4, <2>5 DEF ServeUpdate, OthersWriteLink, TypeOK, disk, task
<1>8. CASE UNCHANGED vars
  BY <1>8 DEF vars, TypeOK, disk, task, server
<1> QED
  BY <1>1, <1>2, <1>3, <1>4, <1>5, <1>6, <1>7, <1>8 DEF Next

-----------------------------------------------------------------------------
(* What a fetch owes to the connection. *)

Renewing == \E c \in Caller : caller[c].renews

\* While no save_connection is under way, either one has failed since the last fetch began,
\* or another fetch is certain, or the one in progress has read what the window shows, as
\* far as it got.
FetchSound ==
  /\ \A c \in Caller : /\ At(c, "idle") => ~caller[c].renews
                       /\ At(c, "key") => caller[c].renews
  /\ ~Renewing =>
       \/ unheard
       \/ refresh_now
       \/ fetch.pc \in {"start", "url"}
       \/ fetch.pc = "key" /\ fetch.url = config.url
       \/ fetch.pc \in {"sent", "reply", "wait"} /\ asked = Pair(config)

(* What a fetch owes to the links this macro was told are saved. *)

\* Links only grow; an answer, and a cached one, are as new as any link acknowledged
\* before the server was asked, unless the event is set for another fetch.  `answered` is
\* of the fetch that is over.
LinksSound ==
  /\ \A n \in Number : acked[n] <= links[n] /\ links[n] <= MaxLinks - budget.links
  /\ update.pc = "written" => update.link <= links[update.key]
  /\ fetch.pc \in {"sent", "reply"} => ~answered
  /\ fetch.pc = "reply" => refresh_now \/ fetch.link >= acked[fetch.key]
  /\ (fetch.pc = "wait" /\ answered) => refresh_now \/ remote.link >= acked[remote.key]

(* What a save owes to the settings, unless it fails. *)

Pending == \E c \in Caller : At(c, "key") \/ At(c, "dump")

\* Saves that do not overlap: one thread at most is writing, into a file it has emptied,
\* and the file, or what is about to be written to it, is the object unless a call that
\* changed the object has yet to begin its save.
SavesSound ==
  ~spoilt =>
    /\ \A c, d \in Caller : Saving(c) /\ Saving(d) => c = d
    /\ \A c \in Caller : At(c, "write") => file = Empty
    /\ ~Pending => \/ \E c \in Caller : Saving(c) /\ caller[c].data = config
                   \/ (\A c \in Caller : ~Saving(c)) /\ Load = config

-----------------------------------------------------------------------------
(* The theorems. *)

\* Whatever is on disk, and wherever the program was stopped, the object in memory is a
\* whole one: MacroConfig.load turns a half-written file into the defaults.
THEOREM TypeCorrect == Spec => []TypeOK
<1> QED
  BY InitTyped, TypeStep, PTL DEF Spec

LEMMA FetchInit == Init => FetchSound
BY DEF Init, FetchSound, NoFetch, Idle, At

\* A change of the connection is made by a call that renews, and only ends renewing by
\* setting the event, or before the loop runs.
LEMMA FetchStep == TypeOK /\ FetchSound /\ [Next]_vars => FetchSound'
<1> SUFFICES ASSUME TypeOK, FetchSound, [Next]_vars PROVE FetchSound'
  OBVIOUS
<1>1. ASSUME NEW c \in Caller, CallStep(c) PROVE FetchSound'
  <2>0. caller \in [Caller -> Frame]
    BY DEF TypeOK
  <2>1. CASE SetUrl(c)
    <3>1. caller'[c].pc = "key" /\ caller'[c].renews
      BY <2>0, <2>1 DEF SetUrl, Idle
    <3>2. \A d \in Caller \ {c} : caller'[d] = caller[d]
      BY <2>0, <2>1 DEF SetUrl
    <3> QED
      BY <3>1, <3>2 DEF FetchSound, Renewing, At
  <2>2. CASE SetKey(c)
    <3>1. caller[c].renews
      BY <2>2 DEF SetKey, FetchSound
    <3>2. caller'[c].pc = "dump" /\ caller'[c].renews
      BY <2>0, <2>2, <3>1 DEF SetKey
    <3>3. \A d \in Caller \ {c} : caller'[d] = caller[d]
      BY <2>0, <2>2 DEF SetKey
    <3> QED
      BY <3>2, <3>3 DEF FetchSound, Renewing, At
  <2>3. CASE SetOther(c)
    <3>1. caller'[c].pc = "dump" /\ ~caller'[c].renews /\ ~caller[c].renews
      BY <2>0, <2>3 DEF SetOther, Call, Idle, FetchSound
    <3>2. \A d \in Caller \ {c} : caller'[d] = caller[d]
      BY <2>0, <2>3 DEF SetOther
    <3>3. config'.url = config.url /\ config'.key = config.key
      BY <2>3 DEF SetOther, TypeOK, MacroConfig
    <3>4. Renewing' <=> Renewing
      BY <3>1, <3>2 DEF Renewing
    <3> QED
      BY <2>3, <3>1, <3>2, <3>3, <3>4 DEF SetOther, FetchSound, At, disk, task, Pair
  <2>4. CASE Dump(c) \/ OpenFile(c)
    <3>0. caller[c] \in Frame
      BY <2>0
    <3>1. caller'[c].pc \in {"open", "write"} /\ caller'[c].renews = caller[c].renews
      <4>1. CASE Dump(c)
        BY <2>0, <3>0, <4>1 DEF Dump, Frame
      <4>2. CASE OpenFile(c)
        BY <2>0, <3>0, <4>2 DEF OpenFile, Frame
      <4> QED
        BY <2>4, <4>1, <4>2
    <3>2. \A d \in Caller \ {c} : caller'[d] = caller[d]
      BY <2>0, <2>4 DEF Dump, OpenFile
    <3>3. Renewing' <=> Renewing
      BY <3>1, <3>2 DEF Renewing
    <3> QED
      BY <2>4, <3>1, <3>2, <3>3 DEF Dump, OpenFile, FetchSound, At, task, Pair
  <2>5. CASE WriteFile(c)
    <3>1. /\ caller'[c].pc \in {"idle", "refresh"} /\ caller'[c].renews = caller[c].renews
          /\ caller'[c].pc = "idle" => ~caller'[c].renews
      <4>1. caller'[c] = AfterSave(c) /\ caller[c].renews \in BOOLEAN
        BY <2>0, <2>5 DEF WriteFile, Frame
      <4>2. CASE caller[c].renews
        <5>1. caller'[c] = [Idle EXCEPT !.pc = "refresh", !.renews = TRUE]
          BY <4>1, <4>2 DEF AfterSave
        <5> QED
          BY <4>1, <4>2, <5>1 DEF Idle
      <4>3. CASE ~caller[c].renews
        <5>1. caller'[c] = Idle
          BY <4>1, <4>3 DEF AfterSave
        <5>2. caller[c].renews = FALSE
          BY <4>1, <4>3
        <5>3. caller'[c].renews = FALSE /\ caller'[c].pc = "idle"
          BY <5>1 DEF Idle
        <5> QED
          BY <5>2, <5>3
      <4> QED
        BY <4>2, <4>3
    <3>2. \A d \in Caller \ {c} : caller'[d] = caller[d]
      BY <2>0, <2>5 DEF WriteFile
    <3>3. Renewing' <=> Renewing
      BY <3>1, <3>2 DEF Renewing
    <3> QED
      BY <2>5, <3>1, <3>2, <3>3 DEF WriteFile, FetchSound, At, task, Pair
  <2>6. CASE SaveFails(c)
    <3>1. caller'[c].pc = "idle" /\ ~caller'[c].renews
      BY <2>0, <2>6 DEF SaveFails, Idle
    <3>2. \A d \in Caller \ {c} : caller'[d] = caller[d]
      BY <2>0, <2>6 DEF SaveFails
    <3>3. UNCHANGED <<config, fetch, asked, refresh_now>> /\ (unheard => unheard')
      BY <2>6 DEF SaveFails, task
    <3>4. caller[c].renews => unheard'
      BY <2>6 DEF SaveFails
    <3>5. ~caller[c].renews /\ ~Renewing' => ~Renewing
      BY <3>2 DEF Renewing
    <3> QED
      BY <3>1, <3>2, <3>3, <3>4, <3>5 DEF FetchSound, At, Pair
  <2>7. CASE EndSaveConnection(c)
    <3>1. caller'[c].pc = "idle" /\ ~caller'[c].renews
      BY <2>0, <2>7 DEF EndSaveConnection, Idle
    <3>2. \A d \in Caller \ {c} : caller'[d] = caller[d]
      BY <2>0, <2>7 DEF EndSaveConnection
    <3>3. refresh_now' \/ fetch'.pc = "start"
      BY <2>7 DEF EndSaveConnection, Refreshed
    <3> QED
      BY <3>1, <3>2, <3>3 DEF FetchSound, At
  <2> QED
    BY <1>1, <2>1, <2>2, <2>3, <2>4, <2>5, <2>6, <2>7 DEF CallStep
<1>2. CASE RequestRefresh
  BY <1>2 DEF RequestRefresh, Refreshed, FetchSound, Renewing, At, Pair
<1>3. CASE Restart
  BY <1>3 DEF Restart, FetchSound, Renewing, At, Idle, NoFetch
<1>4. CASE StartLoop \/ ReadUrl \/ ReadKey \/ Wake
  <2>1. caller' = caller /\ config' = config
    BY <1>4 DEF StartLoop, ReadUrl, ReadKey, Wake
  <2>2. CASE StartLoop \/ Wake
    <3>1. fetch'.pc = "url"
      BY <2>2 DEF StartLoop, Wake, TypeOK, Fetch
    <3> QED
      BY <2>1, <3>1 DEF FetchSound, At
  <2>3. CASE ReadUrl
    <3>1. \/ fetch'.pc = "key" /\ fetch'.url = config.url
          \/ fetch'.pc = "wait" /\ asked' = Pair(config)
      BY <2>3 DEF ReadUrl, Ask, TypeOK, Fetch, NoFetch
    <3> QED
      BY <2>1, <3>1 DEF FetchSound, At, Pair
  <2>4. CASE ReadKey
    <3>1. fetch'.pc = "sent" /\ asked' = [url |-> fetch.url, key |-> config.key]
      BY <2>4 DEF ReadKey, Ask, TypeOK, Fetch
    <3>2. fetch.pc = "key" /\ UNCHANGED <<refresh_now, unheard>>
      BY <2>4 DEF ReadKey, disk
    <3> QED
      BY <2>1, <3>1, <3>2 DEF FetchSound, At, Renewing, Pair
  <2> QED
    BY <1>4, <2>2, <2>3, <2>4
<1>5. CASE ServeConfig \/ FetchAnswered \/ FetchFails
  <2>1. fetch.pc \in {"sent", "reply"} /\ fetch'.pc \in {"reply", "wait"}
    BY <1>5 DEF ServeConfig, FetchAnswered, FetchFails, EndFetch, NoFetch, TypeOK, Fetch
  <2>2. UNCHANGED <<caller, config, asked, refresh_now, unheard>>
    BY <1>5 DEF ServeConfig, FetchAnswered, FetchFails, EndFetch, disk
  <2> QED
    BY <2>1, <2>2 DEF FetchSound, At, Renewing, Pair
<1>6. CASE UpdateLink \/ ServeUpdate \/ UpdateAnswered \/ UpdateFails \/ OthersWriteLink
  <2>1. /\ UNCHANGED <<caller, config, asked, fetch, unheard>>
        /\ refresh_now' = refresh_now \/ refresh_now'
    BY <1>6 DEF UpdateLink, ServeUpdate, UpdateAnswered, UpdateFails, OthersWriteLink, disk, task
  <2> QED
    BY <2>1 DEF FetchSound, At, Renewing, Pair
<1>7. CASE UNCHANGED vars
  BY <1>7 DEF vars, FetchSound, At, Renewing, Pair, disk, task
<1> QED
  BY <1>1, <1>2, <1>3, <1>4, <1>5, <1>6, <1>7 DEF Next

\* When the config task rests and no call is under way, its last fetch used the
\* connection the window shows, unless a save_connection failed since.
THEOREM LastFetchIsCurrent == Spec => []LastFetchCurrent
<1>1. FetchSound => LastFetchCurrent
  BY DEF FetchSound, LastFetchCurrent, Quiet, Settled, Renewing
<1> QED
  BY <1>1, InitTyped, TypeStep, FetchInit, FetchStep, PTL DEF Spec

LEMMA LinksInit == Init => LinksSound
<1> SUFFICES ASSUME Init PROVE LinksSound
  OBVIOUS
<1>1. \A n \in Number : links[n] = 0 /\ acked[n] = 0
  BY DEF Init
<1>2. MaxLinks - budget.links = 0
  BY ConnectionAssumption DEF Init
<1>3. fetch.pc = "start" /\ update.pc = "idle"
  BY DEF Init, NoFetch, NoUpdate
<1> QED
  BY <1>1, <1>2, <1>3 DEF LinksSound

\* A link is written with a number above all others, so no answer overtakes it; the one
\* acknowledged sets the event for whatever the task holds at that moment.
LEMMA LinksStep == TypeOK /\ LinksSound /\ [Next]_vars => LinksSound'
<1> SUFFICES ASSUME TypeOK, LinksSound, [Next]_vars PROVE LinksSound'
  OBVIOUS
<1>0. /\ links \in [Number -> Link] /\ acked \in [Number -> Link]
      /\ fetch.key \in Number /\ update.key \in Number /\ remote.key \in Number
      /\ fetch.link \in Link /\ update.link \in Link /\ remote.link \in Link
      /\ budget.links \in Link
  BY DEF TypeOK, Fetch, Update, Budget
<1>1. ASSUME NEW c \in Caller, CallStep(c) PROVE LinksSound'
  <2>1. /\ UNCHANGED <<fetch, remote, answered, update, server>>
        /\ refresh_now => refresh_now'
    <3>1. CASE EndSaveConnection(c)
      BY <3>1 DEF EndSaveConnection, Refreshed
    <3>2. CASE UNCHANGED <<task, update, server>>
      BY <3>2 DEF task
    <3>3. CASE SetUrl(c) \/ SetKey(c) \/ SetOther(c)
      BY <3>2, <3>3 DEF SetUrl, SetKey, SetOther
    <3>4. CASE Dump(c) \/ OpenFile(c) \/ WriteFile(c) \/ SaveFails(c)
      BY <3>2, <3>4 DEF Dump, OpenFile, WriteFile, SaveFails
    <3> QED
      BY <1>1, <3>1, <3>3, <3>4 DEF CallStep
  <2>2. budget'.links = budget.links
    BY <1>1 DEF CallStep, SetUrl, SetKey, SetOther, Dump, OpenFile, WriteFile, SaveFails,
                EndSaveConnection, Call, Mishap, TypeOK, Budget
  <2> QED
    BY <2>1, <2>2 DEF LinksSound, server
<1>2. CASE RequestRefresh
  BY <1>2 DEF RequestRefresh, Refreshed, LinksSound, server
<1>3. CASE Restart
  <2>1. budget'.links = budget.links
    BY <1>3 DEF Restart, Mishap, TypeOK, Budget
  <2> QED
    BY <1>3, <2>1 DEF Restart, LinksSound, NoFetch, NoUpdate, server
<1>4. CASE StartLoop \/ ReadUrl \/ ReadKey \/ Wake
  <2>1. /\ UNCHANGED <<remote, update, server, budget>>
        /\ fetch'.pc # "reply"
        /\ fetch'.pc \in {"sent", "wait"} => answered' = FALSE
    BY <1>4 DEF StartLoop, ReadUrl, ReadKey, Wake, Ask, TypeOK, Fetch, NoFetch
  <2> QED
    BY <2>1 DEF LinksSound, server
<1>5. CASE ServeConfig
  <2>1. fetch'.pc = "reply" /\ fetch'.key = fetch.key /\ fetch'.link = links[fetch.key]
    BY <1>0, <1>5 DEF ServeConfig, TypeOK, Fetch
  <2> QED
    BY <1>0, <1>5, <2>1 DEF ServeConfig, LinksSound, Link, server
<1>6. CASE FetchAnswered
  <2>1. /\ fetch'.pc = "wait" /\ refresh_now' = refresh_now
        /\ remote'.key = fetch.key /\ remote'.link = fetch.link
    BY <1>6 DEF FetchAnswered, EndFetch, NoFetch
  <2> QED
    BY <1>6, <2>1 DEF FetchAnswered, LinksSound, server
<1>7. CASE FetchFails
  <2>1. fetch'.pc = "wait" /\ answered' = answered /\ ~answered
    BY <1>7 DEF LinksSound, FetchFails, EndFetch, NoFetch
  <2> QED
    BY <1>7, <2>1 DEF FetchFails, EndFetch, LinksSound, server
<1>8. CASE UpdateLink
  <2>1. update'.pc = "sent"
    BY <1>8 DEF UpdateLink
  <2> QED
    BY <1>8, <2>1 DEF UpdateLink, LinksSound, task, server
<1>9. CASE ServeUpdate \/ OthersWriteLink
  <2>1. PICK n \in Number : Wrote(n) /\ (ServeUpdate => n = update.key)
    BY <1>0, <1>9 DEF ServeUpdate, OthersWriteLink
  <2>2. /\ budget'.links = budget.links - 1 /\ budget.links > 0 /\ acked' = acked
        /\ links' = [links EXCEPT ![n] = NextLink]
    BY <2>1 DEF Wrote, TypeOK, Budget
  <2>3. NextLink = MaxLinks - budget'.links /\ NextLink \in Nat /\ budget'.links \in Int
    BY <1>0, <2>2, ConnectionAssumption DEF NextLink, Link
  <2>4. \A m \in Number : links[m] <= links'[m] /\ links'[m] <= MaxLinks - budget'.links
    BY <1>0, <2>2, <2>3, ConnectionAssumption DEF LinksSound, NextLink, Link
  <2>5. \A m \in Number : acked'[m] <= links'[m]
    BY <1>0, <2>2, <2>3, <2>4 DEF LinksSound, Link
  <2>6. update'.pc = "written" => update'.link <= links'[update'.key]
    <3>1. CASE ServeUpdate
      <4>1. update'.key = update.key /\ update'.link = NextLink /\ links'[update.key] = NextLink
        BY <1>0, <2>1, <2>2, <3>1 DEF ServeUpdate, TypeOK, Update
      <4> QED
        BY <2>3, <4>1
    <3>2. CASE OthersWriteLink
      BY <1>0, <2>2, <2>3, <2>4, <3>2 DEF OthersWriteLink, LinksSound, Link
    <3> QED
      BY <1>9, <3>1, <3>2
  <2>7. UNCHANGED task
    BY <1>9 DEF ServeUpdate, OthersWriteLink
  <2> QED
    BY <2>2, <2>4, <2>5, <2>6, <2>7 DEF LinksSound, task
<1>10. CASE UpdateAnswered
  <2>1. /\ refresh_now' /\ update'.pc = "idle" /\ UNCHANGED <<links, budget, fetch, answered>>
        /\ acked' = [acked EXCEPT ![update.key] = update.link] /\ update.pc = "written"
    BY <1>10 DEF UpdateAnswered, NoUpdate
  <2>2. \A n \in Number : acked'[n] <= links[n]
    BY <1>0, <2>1 DEF LinksSound
  <2> QED
    BY <2>1, <2>2 DEF LinksSound
<1>11. CASE UpdateFails
  BY <1>11 DEF UpdateFails, LinksSound, NoUpdate, task, server
<1>12. CASE UNCHANGED vars
  BY <1>12 DEF vars, LinksSound, task, server
<1> QED
  BY <1>1, <1>2, <1>3, <1>4, <1>5, <1>6, <1>7, <1>8, <1>9, <1>10, <1>11, <1>12 DEF Next

\* When the task rests after an answered fetch, the cached link is not older than the last
\* one this macro was told is saved.
THEOREM OwnLinkIsCached == Spec => []OwnLinkCached
<1>1. LinksSound => OwnLinkCached
  BY DEF LinksSound, OwnLinkCached, Settled
<1> QED
  BY <1>1, InitTyped, TypeStep, LinksInit, LinksStep, PTL DEF Spec

LEMMA SavesInit == Init => SavesSound
<1> SUFFICES ASSUME Init PROVE SavesSound
  OBVIOUS
<1>1. \A c \in Caller : caller[c].pc = "idle"
  BY DEF Init, Idle
<1>2. Load = config
  <2>1. CASE file = Empty
    BY <2>1, ConstantsTyped DEF Init, Load
  <2>2. CASE file # Empty
    <3>1. file = [url |-> 1, key |-> 1, other |-> FALSE] /\ config = file
      BY <2>2 DEF Init
    <3>2. file \in MacroConfig
      BY <3>1, ConstantsTyped DEF MacroConfig
    <3> QED
      BY <3>1, <3>2 DEF Load
  <2> QED
    BY <2>1, <2>2
<1> QED
  BY <1>1, <1>2 DEF SavesSound, Saving, At, Pending

\* A step of a call that leaves the step it is at, by what it leaves of SavesSound.
LEMMA SavesCall ==
  ASSUME TypeOK, SavesSound, NEW c \in Caller, CallStep(c)
  PROVE  SavesSound'
<1>0. caller \in [Caller -> Frame] /\ config \in MacroConfig
  BY DEF TypeOK
<1> SUFFICES ASSUME ~spoilt'
             PROVE  /\ \A d, e \in Caller : Saving(d)' /\ Saving(e)' => d = e
                    /\ \A d \in Caller : At(d, "write")' => file' = Empty
                    /\ ~Pending' =>
                         \/ \E d \in Caller : Saving(d)' /\ caller'[d].data = config'
                         \/ (\A d \in Caller : ~Saving(d)') /\ Load' = config'
  BY DEF SavesSound
<1>1. CASE SetUrl(c) \/ SetKey(c) \/ SetOther(c)
  <2>1. caller'[c].pc \in {"key", "dump"} /\ UNCHANGED disk
    <3>1. CASE SetUrl(c)
      BY <1>0, <3>1 DEF SetUrl, Idle
    <3>2. CASE SetKey(c)
      BY <1>0, <3>2 DEF SetKey, Frame
    <3>3. CASE SetOther(c)
      BY <1>0, <3>3 DEF SetOther, Idle
    <3> QED
      BY <1>1, <3>1, <3>2, <3>3
  <2>2. \A d \in Caller \ {c} : caller'[d] = caller[d]
    BY <1>0, <1>1 DEF SetUrl, SetKey, SetOther
  <2>3. Pending'
    BY <2>1 DEF Pending, At
  <2>4. ~Saving(c)' /\ ~At(c, "write")'
    BY <2>1 DEF Saving, At
  <2>5. \A d \in Caller \ {c} : Saving(d)' = Saving(d) /\ At(d, "write")' = At(d, "write")
    BY <2>2 DEF Saving, At
  <2> QED
    BY <2>1, <2>3, <2>4, <2>5 DEF SavesSound, disk
<1>2. CASE Dump(c)
  <2>1. /\ caller'[c].pc = "open" /\ caller'[c].data = config
        /\ config' = config /\ file' = file
        /\ \A d \in Caller : ~Saving(d)
    BY <1>0, <1>2 DEF Dump, Frame
  <2>2. \A d \in Caller \ {c} : caller'[d] = caller[d]
    BY <1>0, <1>2 DEF Dump
  <2>3. Saving(c)' /\ ~At(c, "write")' /\ \A d \in Caller \ {c} : ~Saving(d)' /\ ~At(d, "write")'
    BY <2>1, <2>2 DEF Saving, At
  <2> QED
    BY <2>1, <2>3
<1>3. CASE OpenFile(c)
  <2>1. /\ caller'[c].pc = "write" /\ caller'[c].data = caller[c].data /\ caller[c].pc = "open"
        /\ config' = config /\ file' = Empty /\ ~spoilt
    BY <1>0, <1>3 DEF OpenFile, Frame, At
  <2>2. \A d \in Caller \ {c} : caller'[d] = caller[d]
    BY <1>0, <1>3 DEF OpenFile
  <2>3. \A d \in Caller : Saving(d)' <=> Saving(d)
    BY <2>1, <2>2 DEF Saving
  <2>4. Pending' <=> Pending
    BY <2>1, <2>2 DEF Pending, At
  <2>5. \A d \in Caller : caller'[d].data = caller[d].data
    BY <2>1, <2>2
  <2>6. Saving(c)
    BY <2>1 DEF Saving
  <2> QED
    BY <2>1, <2>3, <2>4, <2>5, <2>6 DEF SavesSound
<1>4. CASE WriteFile(c)
  <2>1. Saving(c) /\ ~spoilt /\ At(c, "write") /\ config' = config
    BY <1>4 DEF WriteFile, Saving, At
  <2>2. file' = caller[c].data /\ file' \in MacroConfig
    BY <1>0, <1>4, <2>1 DEF WriteFile, SavesSound, Frame
  <2>3. caller'[c].pc \in {"idle", "refresh"}
    BY <1>0, <1>4 DEF WriteFile, AfterSave, Idle
  <2>4. \A d \in Caller \ {c} : caller'[d] = caller[d]
    BY <1>0, <1>4 DEF WriteFile
  <2>5. \A d \in Caller : ~Saving(d)' /\ ~At(d, "write")'
    BY <2>1, <2>3, <2>4 DEF SavesSound, Saving, At
  <2>6. ~Pending' => ~Pending
    BY <2>1, <2>4 DEF Pending, At
  <2>7. ~Pending => caller[c].data = config
    BY <2>1 DEF SavesSound
  <2>8. Load' = file'
    BY <2>2 DEF Load, MacroConfig, Number
  <2> QED
    BY <2>1, <2>2, <2>5, <2>6, <2>7, <2>8
<1>5. CASE EndSaveConnection(c)
  <2>1. /\ caller'[c].pc = "idle" /\ caller[c].pc = "refresh"
        /\ UNCHANGED <<config, file, spoilt>>
    BY <1>0, <1>5 DEF EndSaveConnection, Idle, At, disk
  <2>2. \A d \in Caller \ {c} : caller'[d] = caller[d]
    BY <1>0, <1>5 DEF EndSaveConnection
  <2>3. \A d \in Caller : (Saving(d)' <=> Saving(d)) /\ (At(d, "write")' <=> At(d, "write"))
    BY <2>1, <2>2 DEF Saving, At
  <2>4. Pending' <=> Pending
    BY <2>1, <2>2 DEF Pending, At
  <2>5. \A d \in Caller : Saving(d)' => caller'[d].data = caller[d].data
    BY <2>1, <2>2 DEF Saving
  <2>6. Load' = Load
    BY <2>1 DEF Load
  <2> QED
    BY <2>1, <2>3, <2>4, <2>5, <2>6 DEF SavesSound
<1>6. CASE SaveFails(c)
  BY <1>6 DEF SaveFails
<1> QED
  BY <1>1, <1>2, <1>3, <1>4, <1>5, <1>6 DEF CallStep

LEMMA SavesStep == TypeOK /\ SavesSound /\ [Next]_vars => SavesSound'
<1> SUFFICES ASSUME TypeOK, SavesSound, [Next]_vars PROVE SavesSound'
  OBVIOUS
<1>1. CASE \E c \in Caller : CallStep(c)
  BY <1>1, SavesCall
<1>2. CASE Restart
  <2>1. \A c \in Caller : caller'[c].pc = "idle"
    BY <1>2 DEF Restart, Idle
  <2>2. Load' = config'
    BY <1>2 DEF Restart, Load
  <2> QED
    BY <2>1, <2>2 DEF SavesSound, Saving, At, Pending
<1>3. CASE UNCHANGED <<caller, config, file, spoilt>>
  BY <1>3 DEF SavesSound, Saving, At, Pending, Load
<1> QED
  <2>1. ~Restart /\ ~(\E c \in Caller : CallStep(c)) => UNCHANGED <<caller, config, file, spoilt>>
    BY DEF Next, RequestRefresh, StartLoop, ReadUrl, ReadKey, ServeConfig, FetchAnswered,
           FetchFails, Wake, UpdateLink, ServeUpdate, UpdateAnswered, UpdateFails,
           OthersWriteLink, vars, disk
  <2> QED
    BY <1>1, <1>2, <1>3, <2>1

\* When no call is under way and the last saves neither overlapped nor failed, a restart gets back from
\* config.json the settings in memory.
THEOREM FileIsSettled == Spec => []FileSettles
<1>1. SavesSound => FileSettles
  BY DEF SavesSound, FileSettles, Quiet, Saving, At, Pending
<1> QED
  BY <1>1, InitTyped, TypeStep, SavesInit, SavesStep, PTL DEF Spec
=============================================================================
