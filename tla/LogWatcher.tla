----------------------------- MODULE LogWatcher -----------------------------
(***************************************************************************)
(* macro/biomebeacon/detection/watcher.py: the thread that tails the logs. *)
(* The Roblox clients append to the files, the UI thread pauses the watcher*)
(* and gives it another directory, and the watcher scans, one file after   *)
(* the other.                                                              *)
(*                                                                         *)
(* A line reaches the file in two halves, each of no use to the parser     *)
(* alone; the newline ends the second.  Sizes and offsets count halves.    *)
(* Log names hold a timestamp, so no two directories share one.  tainted,  *)
(* seeded and queued are history variables.                               *)
(***************************************************************************)
EXTENDS BiomeLog, SequencesExt, FiniteSets

CONSTANTS
  Dir,             \* directories the UI may choose
  FirstDir,        \* the one of the configuration
  File,            \* log file names
  DirOf,           \* [File -> Dir]
  MaxHalves,       \* bound on the halves ever written
  MaxMishaps,      \* bound on truncations and on exceptions of process_line
  MaxChanges       \* bound on set_log_dir and set_paused calls

ASSUME WatcherAssumption ==
  /\ FirstDir \in Dir /\ DirOf \in [File -> Dir]
  /\ MaxHalves \in Nat /\ MaxMishaps \in Nat /\ MaxChanges \in Nat

None == -1

VARIABLES
  content,    \* external: [File -> Seq of halves on disk]
  quiet,      \* external: files not there, or not written for ACTIVE_WINDOW seconds
  budget,     \* [halves, mishaps, changes]: how much may still happen
  log_dir,    \* log_dir
  clearing,   \* UI thread: inside set_log_dir, buffers and instances left to clear
  paused,     \* _paused
  stopped,    \* _stop
  offsets,    \* _offsets: [File -> size read, or None]
  buffers,    \* _buffers: [File -> Seq of halves]
  engine_instances, \* engine.instances: [File -> InstanceState]
  scanning,   \* inside scan_once
  active,     \* files of this scan not visited yet
  current,    \* the file being visited: seeding, and its chunk once read
  seeded,     \* history: [File -> size at the first read of this life]
  queued,     \* history: [File -> Seq of events put on events_queue in this life]
  tainted     \* history: files truncated, raised at, or hit by set_log_dir while being read

disk == <<content, quiet>>
ui == <<log_dir, clearing, paused, stopped>>
memory == <<offsets, buffers, engine_instances>>
history == <<seeded, queued, tainted>>
watcher_vars == <<disk, budget, ui, memory, scanning, active, current, history>>

Half == [line : Lines, part : {1, 2}]
Nobody == [file |-> None]
Visit == [file : File, step : {"read", "feed"}, seeding : BOOLEAN, chunk : Seq(Half)]

\* Types.
WatcherTypeOK ==
  /\ content \in [File -> Seq(Half)] /\ quiet \subseteq File
  /\ budget \in [halves : 0..MaxHalves, mishaps : 0..MaxMishaps, changes : 0..MaxChanges]
  /\ log_dir \in Dir /\ clearing \in BOOLEAN /\ paused \in BOOLEAN /\ stopped \in BOOLEAN
  /\ offsets \in [File -> {None} \cup 0..MaxHalves]
  /\ buffers \in [File -> Seq(Half)] /\ \A f \in File : Len(buffers[f]) <= 1
  /\ engine_instances \in [File -> InstanceState]
  /\ scanning \in BOOLEAN /\ active \subseteq File
  /\ current = Nobody \/ current \in Visit
  /\ seeded \in [File -> 0..MaxHalves] /\ queued \in [File -> Seq(Event)]
  /\ tainted \subseteq File

WatcherInit ==
  /\ content = [f \in File |-> <<>>] /\ quiet = File
  /\ budget = [halves |-> MaxHalves, mishaps |-> MaxMishaps, changes |-> MaxChanges]
  /\ log_dir = FirstDir /\ clearing = FALSE /\ paused = FALSE /\ stopped = FALSE
  /\ offsets = [f \in File |-> None]
  /\ buffers = [f \in File |-> <<>>]
  /\ engine_instances = [f \in File |-> Absent]
  /\ scanning = FALSE /\ active = {} /\ current = Nobody
  /\ seeded = [f \in File |-> 0]
  /\ queued = [f \in File |-> <<>>]
  /\ tainted = {}

-----------------------------------------------------------------------------
(* The Roblox clients. *)

\* A log is created, empty.
Create(f) ==
  /\ f \in quiet /\ content[f] = <<>>
  /\ quiet' = quiet \ {f}
  /\ UNCHANGED <<content, budget, ui, memory, scanning, active, current, history>>

\* Half of a line is appended: the rest of the open one, or a new one's start.
Write(f) ==
  /\ budget.halves > 0
  /\ budget' = [budget EXCEPT !.halves = @ - 1]
  /\ quiet' = quiet \ {f}
  /\ IF content[f] # <<>> /\ Last(content[f]).part = 1
     THEN content' = [content EXCEPT ![f] = Append(@, [Last(@) EXCEPT !.part = 2])]
     ELSE \E l \in Lines : content' = [content EXCEPT ![f] = Append(@, [line |-> l, part |-> 1])]
  /\ UNCHANGED <<ui, memory, scanning, active, current, history>>

\* ACTIVE_WINDOW passes without a write, or stat fails, until the next write (for an empty
\* log that changes nothing).
GoQuiet(f) ==
  /\ content[f] # <<>> /\ f \notin quiet
  /\ quiet' = quiet \cup {f}
  /\ UNCHANGED <<content, budget, ui, memory, scanning, active, current, history>>

Mishap(f) ==
  /\ budget.mishaps > 0 /\ budget' = [budget EXCEPT !.mishaps = @ - 1]
  /\ tainted' = tainted \cup {f}

\* The file is emptied or replaced, and grows anew.
Truncate(f) ==
  /\ Mishap(f) /\ content[f] # <<>>
  /\ content' = [content EXCEPT ![f] = <<>>]
  /\ quiet' = quiet \ {f}
  /\ UNCHANGED <<ui, memory, scanning, active, current, seeded, queued>>

-----------------------------------------------------------------------------
(* The UI thread. *)

Change == budget.changes > 0 /\ budget' = [budget EXCEPT !.changes = @ - 1]

SetPaused ==
  /\ Change /\ ~clearing
  /\ paused' = ~paused
  /\ UNCHANGED <<disk, log_dir, clearing, stopped, memory, scanning, active, current, history>>

StopWatcher ==
  /\ Change /\ ~clearing /\ ~stopped
  /\ stopped' = TRUE
  /\ UNCHANGED <<disk, log_dir, clearing, paused, memory, scanning, active, current, history>>

\* set_log_dir, first half: the directory and the offsets.  A scan of the other
\* thread may be anywhere.
SetLogDir(dir) ==
  /\ Change /\ ~clearing
  /\ clearing' = TRUE
  /\ log_dir' = dir
  /\ offsets' = [f \in File |-> None]
  /\ tainted' = IF scanning THEN File ELSE tainted
  /\ UNCHANGED <<disk, paused, stopped, buffers, engine_instances, scanning, active, current,
                 seeded, queued>>

\* set_log_dir, second half: the buffers and the engine's instances.
ClearMemory ==
  /\ clearing
  /\ clearing' = FALSE
  /\ buffers' = [f \in File |-> <<>>]
  /\ engine_instances' = [f \in File |-> Absent]
  /\ tainted' = IF scanning THEN File ELSE tainted
  /\ UNCHANGED <<disk, budget, log_dir, paused, stopped, offsets, scanning, active, current,
                 seeded, queued>>

-----------------------------------------------------------------------------
(* The watcher thread. *)

\* Mutant: the age test the wrong way round.
ActiveFiles_Inverted ==
  {f \in File : DirOf[f] = log_dir /\ f \in quiet}

\* glob and stat: the files of log_dir with a recent write.
ActiveFiles == {f \in File : DirOf[f] = log_dir /\ f \notin quiet}

\* Instances to forget: those the engine knows and the scan does not see.
Gone == {f \in File : engine_instances[f].known /\ f \notin ActiveFiles}

\* scan_once up to its second loop.
ScanStart ==
  /\ ~scanning /\ ~stopped /\ ~paused
  /\ scanning' = TRUE
  /\ active' = ActiveFiles
  /\ engine_instances' = [f \in File |-> IF f \in Gone THEN Absent ELSE engine_instances[f]]
  /\ offsets' = [f \in File |-> IF f \in Gone THEN None ELSE offsets[f]]
  /\ buffers' = [f \in File |-> IF f \in Gone THEN <<>> ELSE buffers[f]]
  /\ tainted' = IF clearing THEN File ELSE tainted
  /\ UNCHANGED <<disk, budget, ui, current, seeded, queued>>

\* `seeding = name not in self._offsets`
SeedCheck(f) ==
  /\ scanning /\ current = Nobody /\ f \in active
  /\ active' = active \ {f}
  /\ current' = [file |-> f, step |-> "read", seeding |-> offsets[f] = None,
                 chunk |-> <<>>]
  /\ UNCHANGED <<disk, budget, ui, memory, scanning, history>>

Shrunk(size, offset) == size < offset

\* _read_new_lines: stat, seek, read to the end.  A file shorter than what was
\* read of it is read again from its start.
ReadChunk(f) ==
  /\ current # Nobody /\ current.file = f /\ current.step = "read"
  /\ LET size == Len(content[f])
         known == IF offsets[f] = None THEN 0 ELSE offsets[f]
         reread == Shrunk(size, known)
         from == IF reread THEN 0 ELSE known
     IN  /\ current' = [current EXCEPT !.step = "feed",
                                       !.chunk = SubSeq(content[f], from + 1, size)]
         /\ offsets' = [offsets EXCEPT ![f] = size]
         /\ buffers' = IF reread THEN [buffers EXCEPT ![f] = <<>>] ELSE buffers
  /\ UNCHANGED <<disk, budget, ui, engine_instances, scanning, active, history>>

\* An OSError: this file is left for the next scan.
ReadFails(f) ==
  /\ current # Nobody /\ current.file = f /\ current.step = "read"
  /\ current' = Nobody
  /\ UNCHANGED <<disk, budget, ui, memory, scanning, active, history>>

\* The raw line that half k ends; it parses when its first half is right before it.
LineAt(halves, k) ==
  IF k > 1 /\ halves[k - 1] = [line |-> halves[k].line, part |-> 1]
  THEN halves[k].line ELSE [marker |-> "none"]

\* Mutants: the partial line is thrown away; everything read is kept.
Remainder_Dropped(halves) == <<>>
Remainder_All(halves) == halves

\* What follows the last newline.
Remainder(halves) ==
  IF halves # <<>> /\ Last(halves).part = 1 THEN <<Last(halves)>> ELSE <<>>

\* What half k adds to the state and the events: a second half ends a line, which goes
\* to process_line.
AtHalf(sofar, halves, k) ==
  LET result == ProcessLine(sofar.state, LineAt(halves, k), {}) IN
  IF halves[k].part = 1 THEN sofar
  ELSE [state |-> result.state, events |-> sofar.events \o result.events]

\* process_line for every whole line, from a state: the last state and all the events.
Replay(state, halves) ==
  LET after[k \in 0..Len(halves)] ==
        IF k = 0 THEN [state |-> state, events |-> <<>>] ELSE AtHalf(after[k - 1], halves, k)
  IN  after[Len(halves)]

\* The visit of a file ends, whatever was read; an exception ends the scan with it.
EndVisit(raises) ==
  /\ current # Nobody /\ current.step = "feed"
  /\ current' = Nobody
  /\ scanning' = IF raises THEN FALSE ELSE scanning
  /\ active' = IF raises THEN {} ELSE active

\* The rest of _read_new_lines, and the loop of scan_once that puts its events.
FeedEngine(f) ==
  /\ EndVisit(FALSE) /\ current.file = f
  /\ LET data == buffers[f] \o current.chunk
         result == Replay(engine_instances[f], data)
     IN  /\ buffers' = [buffers EXCEPT ![f] = Remainder(data)]
         /\ engine_instances' = [engine_instances EXCEPT ![f] = result.state]
         /\ queued' = [queued EXCEPT ![f] = IF current.seeding THEN <<>> ELSE @ \o result.events]
         /\ seeded' = IF current.seeding THEN [seeded EXCEPT ![f] = Len(current.chunk)] ELSE seeded
  /\ UNCHANGED <<disk, budget, ui, offsets, tainted>>

\* process_line raises at the line half k ends, as parse_line does when a part of the JSON
\* is no object: run swallows it.  The engine keeps the lines before, their events go
\* nowhere, and the offset has moved, so the rest of the chunk is not read again.
FeedFails(f) ==
  /\ EndVisit(TRUE) /\ current.file = f /\ Mishap(f)
  /\ LET data == buffers[f] \o current.chunk IN
     \E k \in 1..Len(data) :
       /\ data[k].part = 2
       /\ buffers' = [buffers EXCEPT ![f] = Remainder(data)]
       /\ engine_instances' =
            [engine_instances EXCEPT ![f] = Replay(@, SubSeq(data, 1, k - 1)).state]
  /\ UNCHANGED <<disk, ui, offsets, seeded, queued>>

\* The end of scan_once; the thread sleeps for poll_interval.
ScanEnd ==
  /\ scanning /\ active = {} /\ current = Nobody
  /\ scanning' = FALSE
  /\ UNCHANGED <<disk, budget, ui, memory, active, current, history>>

WatcherStep ==
  \/ ScanStart \/ ScanEnd
  \/ \E f \in File : SeedCheck(f) \/ ReadChunk(f) \/ FeedEngine(f)

WatcherNext ==
  \/ WatcherStep
  \/ SetPaused \/ StopWatcher \/ ClearMemory
  \/ \E dir \in Dir : SetLogDir(dir)
  \/ \E f \in File : Create(f) \/ Write(f) \/ GoQuiet(f) \/ Truncate(f)
                    \/ ReadFails(f) \/ FeedFails(f)

WatcherSpec == WatcherInit /\ [][WatcherNext]_watcher_vars

\* The thread runs, and reading a log that is there does not fail for ever.  (EndVisit
\* stands for FeedEngine and FeedFails, the only actions it is a part of.)
thread == <<scanning, active, current>>
FairWatcherSpec ==
  /\ WatcherSpec
  /\ WF_thread(\/ ScanStart \/ ScanEnd
               \/ \E raises \in BOOLEAN : EndVisit(raises)
               \/ \E f \in File : SeedCheck(f))
  /\ \A f \in File : SF_thread(ReadChunk(f))

-----------------------------------------------------------------------------
(* Properties. *)

\* The first n halves of f, replayed at once.
FromScratch(f, n) == Replay(Absent, SubSeq(content[f], 1, n))

\* Reading in chunks loses no line, doubles none and splits none, wherever the
\* polls fall: between two visits the engine's state of a file, and the events
\* put since the file was seeded, are those of reading its lines at once.
ReadsEachLineOnce ==
  \A f \in File \ tainted :
    (offsets[f] # None /\ ~clearing /\ (current # Nobody => current.file # f)) =>
      LET whole == FromScratch(f, offsets[f]) IN
      /\ offsets[f] <= Len(content[f])
      /\ engine_instances[f] = whole.state
      /\ FromScratch(f, seeded[f]).events \o queued[f] = whole.events

\* The rest s of a story: what was `learned` before it ends first, every biome ends
\* before the next one starts, and the last start is of the biome `now`.
InTurn(s, learned, now) ==
  /\ \A k \in 1..(Len(s) - 1) : s[k].type # s[k + 1].type
  /\ \A k \in 1..(Len(s) - 1) : s[k].type = "started" => s[k + 1].biome = s[k].biome
  /\ s # <<>> => /\ s[Len(s)].type = "started" /\ s[Len(s)].biome = now
                 /\ learned = NoBiome => s[1].type = "started"
                 /\ learned # NoBiome => s[1].type = "ended" /\ s[1].biome = learned
  /\ s = <<>> => now = learned

\* What the consumer of events_queue hears of a log since it was seeded: the first event
\* ends the biome that was on when the macro met the log, although its start was never
\* put, and no poll parts an end from the start that follows it.
ToldInTurn ==
  \A f \in File \ tainted :
    (offsets[f] # None /\ ~clearing /\ (current # Nobody => current.file # f)) =>
      InTurn(queued[f], FromScratch(f, seeded[f]).state.biome, engine_instances[f].biome)

\* No write stays unread: what is on disk is read in the end, unless the file goes
\* quiet first, the directory changes, or the watcher is paused or stopped.
Unread(f) == content[f] # <<>> /\ offsets[f] < Len(content[f])
CatchesUp ==
  \A f \in File :
    (Unread(f) /\ f \notin tainted)
      ~> (~Unread(f) \/ f \in tainted \/ f \in quiet
          \/ DirOf[f] # log_dir \/ paused \/ stopped)
=============================================================================
