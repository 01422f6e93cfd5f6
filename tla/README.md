# A formal model of boot-err-shim

boot-err-shim watches a server that stops at a firmware prompt when it boots.
It pings the host; when enough pings go unanswered it opens the server's iDRAC
console over VNC, looks whether the prompt it was calibrated for is on the
screen, and if so sends one key. It runs unattended, under a supervisor that
restarts it, and everything it talks to may fail half way.

This directory models that program in TLA+, checks the models with TLC on small
instances, and proves the most important results with TLAPS for every value of
the constants. Paths below are relative to `src/src/boot_err_shim/`.

## 1. The system and its parts

| Part | State it keeps | Operations | Hard because |
|---|---|---|---|
| decisions (`daemon.py`, pure half) | none | `decide_after_ping`, `may_press_key`, `decide_after_recovery` | every safety rule passes through four lines |
| daemon loop (`daemon.py`, impure half) | failure count, the console session, the sleep | `step`, `_recover`, `_press`, `_record_intervention`, `run` | host, iDRAC, clock, signals, kills and a supervisor move between any two statements |
| console session (`rfb.py`) | socket, deadline, screen size, buffer | connect, authenticate, `capture`, `send_key`, `close` | a foreign, possibly dribbling, server; one deadline over many reads; framing |
| instance lock (`lock.py`) | an open file, its flock, a pid in it | `acquire`, `release` | flock is on inodes, the pid is advisory, processes die |
| atomic replacement (`lock.py`) | a temporary file | `atomic_write_bytes` | power cuts, failures at any call, readers at any time |
| intervention history (`history.py`) | a list of times, a file of them | `load`, `record`, `prune`, `count_within`, `save` | two processes, stepped clocks, damaged files, kills between press and save |
| stop requests (`cli.py`, `SystemClock`) | a `threading.Event` | the signal handler, `sleep` | the handler runs in the thread that waits |
| command line (`cli.py`) | none of its own | `run` builds the above in order; five reporting commands | the order: logging, calibration, signals, lock, history; what fails where, and who hears of it |
| logging (`log.py`) | the logger's sinks | `setup_logging`, `_log_fatal` | three sinks, three supervisors, one copy of each event |
| service files (`init/`) | whether the service is wanted | start check, start, restart, stop | systemd and rc(8) differ in every one of them |
| configuration (`config.py`) | a file | `load_config` | every value an operator may type |
| snapshot ring (`cli.py`) | a directory | `_write_ring`, `configure.png` | eviction by modification time, several writers, failures half way |
| image files (`png.py`) | none | `encode`, `decode` | files of other tools, damaged files, files still being written |
| calibration (`calibrate.py`, `bitmap.py`) | a calibration file | `analyse`, `save`, `load`, `check_calibration` | a search that accepts the first grid without a contradiction |
| detection (`detect.py`, `bitmap.py`) | the calibration, read at start | `detect` | what is enough evidence that a screen is the prompt |
| errors, reports, DES | values | formatting, tables | pure code, covered by unit tests |

How they interact. A supervisor starts `command_run`, which loads the
configuration, sets up logging, loads the calibration, installs the signal
handlers, takes the lock, loads the history and calls `Daemon.run`. The loop owns
everything else and calls it synchronously: a probe (a child process), the
console session (a socket), the detector (a function of a frame), the snapshot
ring and the history (files, through `atomic_write_bytes`), the notifier (a
child process), the sleep (the event). Results come back as return values, and
failures as `ShimError`, which ends the cycle but not the process. Two daemons
meet only in the file system: through the lock file, the history file, the
snapshot directory. The outside acts through signals, kills, the clock, the
host's screen and the iDRAC.

What makes each part correct:

* **loop**: a key goes only to a screen that showed the prompt, and only when
  calibrated and allowed; it waits as long as the configuration says; it never
  answers a prompt twice; it does not stop trying; a stop request ends it; no
  failure short of a kill ends it; every key is recorded.
* **session**: it understands the bytes it reads as what they were sent as; no
  call outlives its deadline; a frame shows this connection's screen after the
  request for it.
* **lock**: one daemon per console, and always somebody able to have the lock.
* **files**: a reader finds a version, never a part of one; a power cut brings
  back nothing that a finished write had replaced; no litter.
* **history**: nothing that counts is forgotten; no press goes uncounted.
* **stop**: a waiting thread is told; a stop ends the process, at whatever stage.
* **start**: only a configuration that is sane runs; a service that can come up
  does; a start that fails says so where the operator looks.
* **logging**: every event arrives somewhere, and nowhere twice.
* **ring**: it stays bounded, and what it loses is the oldest.
* **image files**: a reader gets what somebody saved, or an error.
* **calibration**: what is learned is the message, on the grid it is drawn on.
* **detection**: only the configured text is matched, and it is matched
  wherever it moves to.

## 2. The modules

| Module | Models | Composition |
|---|---|---|
| `Decision` | the pure functions of `daemon.py` | extended by `Daemon` |
| `Rescue` | the promise: wait, look, press once per look, wait again | abstract specification of `Daemon` |
| `Daemon` | one daemon process after another, supervisor, host, iDRAC, clock | `R == INSTANCE Rescue` with `duty`, `wait` computed from its state |
| `Rfb` | client and server of one console connection, the wires between | the detailed view of `Daemon`'s `Connect`, `Capture`, `KeyDownArrives`, ... |
| `InstanceLock` | `SingleInstanceLock` for several processes, paths and inodes | extended by `Ledger` |
| `Ledger` | the history under the lock: several daemons, one or two files | `InstanceLock`'s actions with the history's |
| `AtomicFile` | a file that changes as a whole | abstract specification of `AtomicWrite` |
| `AtomicWrite` | `atomic_write_bytes` one system call at a time | `F == INSTANCE AtomicFile` |
| `StopEvent` | signal handler, `Event.wait`, `Event.set`, one lock operation at a time | the detailed view of `Daemon`'s `Wake`, `Leave`, `RequestStop`; extended by `Service` |
| `Config` | `load_config`: values, getters, tables, in the order of the code | extended by `Service` |
| `Service` | supervisor, start, logging, signals, stop and restart around the loop | `StopEvent`'s actions with the stages of `command_run` |
| `Png` | `encode` and `decode` on chunks and bytes | extended by `Pictures` |
| `Pictures` | pictures as other tools save them, and damage to them: the reference for `decode` | extended by `Snapshots` |
| `Snapshots` | the directory of pictures: several daemons, `configure`, readers | `_write_ring` one call at a time |
| `Bitmap` | the one-bit image, binarising, bands of ink | extended by `Calibrate` |
| `Calibrate` | the analysis: grids proposed in order, tried, one written | extended by `Detect` |
| `Detect` | console, configuration, file and daemon around one calibration | what `Daemon`'s `matched` stands for |
| `MC*` | constants for TLC | |
| `*Proofs` | theorems and proofs of the module they are named after; `LedgerProofs` has those of `InstanceLock` as well, `ServiceProofs` those of `Config`, `PngProofs` those of `Pictures` | |

Operators that are called "a plausible bug" in their comment are not part of a
specification. Each is a variation of the definition next to it, kept to show
that the property named after it in PROJECT.json does notice.

### Daemon

`pc` names the next statement of `step` / `_recover` / `_press` / `run`; a new
value begins wherever the world may move between two statements. `connected`,
`matched` and `decision` are `_recover`'s locals of those names, `failures` the
attribute, `timer` what is left of the current sleep, `console` the session
(`"broken"` when the transport died and the code does not know yet), `history`
and `saved` the number of interventions in memory and in the file. `Exit` is
the end of a process with everything the kernel takes back. The supervisor's
`Restart` finds the same command line, with or without a calibration file.
`ForgetVisit` erases locals that no longer exist.

The world follows `tests/simulation/world.py`, except that its clock is free to
advance in the middle of a cycle. The host's screen is up, at the prompt, or
anything else, and changes at will; a host at the prompt that takes the key
boots within `BootDelay`. The iDRAC is ok, refuses connections, drops sessions
or tears frames.

Three variables record what no step reads: `hold` (ticks that must pass before a
console may be opened), `moved` (the screen changed since the frame), `late`
(cycles begun after a stop).

### Rfb

Both directions are queues of messages. The client takes a message from the
wire in as many reads as the code does (a rectangle's header and its pixels are
two), and each read either finds its bytes, waits, or runs into the deadline of
the call: `Take` keeps the deadline, only `Connect` and `Capture` set it. The server is a
correct RFB server that may refuse, hang up, dribble, be silent, ring the bell,
send a colour map or a cut text, send an update in rectangles, and change its
screen between any two of them. The screen is a function from regions to what
they look like: two regions are the smallest screen that can be captured in
part.

### InstanceLock and Ledger

A lock file is an inode behind a name, because flock locks what was opened.
`Holding` are the statements at which a process is inside the lock. `Ledger`
adds, to a process that is running, the clock's time, `Load` right after the
lock is taken, press and record, and adds `Damage` of the file by others. An
entry is a press and the time the clock said; `DaySeconds` and `Retention` are
the two horizons of the code, the day of `count_within` and the retention of
`prune`.

### AtomicWrite

A file is a name and an inode with content. `disk` is the set of inodes the
directory may hold after a power cut, `kept` the contents an inode may hold;
`Fsync` and `SyncDir` shrink them, everything else lets them grow. A reader has
an inode open while writers go on.

### StopEvent

CPython runs a handler between two bytecodes on top of whatever the main thread
does. `handlers` is that stack: the main thread moves only under an empty one.
`Event` takes a lock that is not reentrant, in `wait` and in `set`.

### Config and Service

A document is what TOML makes of a file: a value or `Absent` for each key, the
tables that hold unknown keys (`stray`) or are no tables (`flat`), and what may
be wrong with the file itself (`form`). Of a string the model keeps its word,
what `float()` reads in it, its unit and its code; `Order` is the order in which
`parse_config` reads keys and closes tables, and the first failure is the
result. A result is a configuration, `ConfigError`, or `Uncaught`: an exception
that is no `ShimError` (section 4). `Loaded` is `load_config` of every document;
it is a constant only so that TLC computes it once, and `ServiceAssumption`
says what it is.

`stage` is the statement of `command_run` that comes next; below it lies
`StopEvent`, whose main thread starts when the stage is `"loop"` and whose
handlers may run from `"lock"` on. Before that a signal ends the process, as
SIGTERM does by default and KeyboardInterrupt in `main`. `sinks` are the
logger's handlers, and `Destination` says where a supervisor's operator reads
them: under systemd stderr and syslog are both the journal. `cause` and `told`
are what the last process died of and where it said so. Under rc the check
before a start runs in the foreground of `service start` and talks to its
`"caller"` (`CheckOutput`): `startup.log` is made when all of `precmd` is done, and
only daemon(8) writes to it. `CheckRefuses` is what the check finds wrong; a
restart by `daemon -r` makes no check. `FailuresAreTold` has two halves: the
reason is where the operator asked for it (`ToldWhereAsked`), and under rc the
check in sh and the start in Python agree, so that whoever asks for a start hears
of what would end it (`CallerHearsOfMistakes`). `Stop` is
`systemctl stop`, `service stop` or ^C; systemd kills a process that does not
end, rc does not. Troubles come and go, one at a time: a log file that cannot be
opened, no calibration or an odd one, a rival that holds the lock, a state
directory that cannot be used, a damaged or odd history.

### Png, Pictures and Snapshots

A file is a signature and chunks; a chunk is whole or not. `Written` is a file
in the middle of `write_bytes`: chunks of the new picture, part of one, and
beyond them what another writer of the same name has put there. Samples,
filters and palettes are numbers as in the code: `paeth`, `UnfilteredLine`,
`Sample` and `ToRGB` are its functions. `Pictures` goes the other way, from the
samples through packing and filtering to a file, as the PNG specification says.

In `Snapshots` each process goes through name, open, write, glob, sort, unlink.
`dir` maps names to files with their modification times, `linked` says whether
the file a process writes to still has its name. Names are readings of the
clock; `configure.png` is the one that is not. Each console shows frames of its
own (`Frames`). `Stops` is where a write may be found half way: any number of
chunks with or without a part of the next, except that the header is there and
nothing of the data. The whole file is one `write`, the header ends at byte 33,
and the system takes a write page by page. `spoiled` counts the files that
failures have left behind since the last clean save, `clean` the daemons in
whose save nothing has failed since their `glob`, `crossed` the daemons that
another one has been busy beside; no step reads any of the three.

### Bitmap, Calibrate and Detect

A frame has two colours, of which the model keeps the brightness; a bitmap is
its size and the set of its ink pixels. A character is a code point. The pure
functions are operators of the same names. `Proposals` is the set of grids that
`FindBands`, `CellHeightCandidates`, `CellWidthCandidates` and `Candidates` lead
to, each with its turn, and `Sooner` compares the turns as the code's sort and its
loops do; no two proposals have one turn. `Verifies` is a delta of zero;
`Analyse` takes the first proposal that verifies, and `Build` is what is written.
`Detected` is `detect`, with the name of the matcher that decided.

Around them moves what moves around the code: the console shows another screen,
the operator configures another text, runs `configure` with or without a hint,
starts the daemon again, the daemon looks. `lesson` remembers, for the
properties only, on what screen and with what text the file was learned. The
console draws text with a font of its own (`Render`, after
`tools/render_frame.py`), may be of another size, in other colours, and have
stray pixels. What a console's font and an ordinary screen are like
(`ReadableFont`, `DistinctFont`, `UnknownStandsAlone`, `OrdinaryLessons`) is
written down beside it; the theorems of section 5 have these as hypotheses, and
`MCDetect` has TLC evaluate them for its font and its screens.

The properties speak of a grid that is right: `CutsBetweenCharacters` (cells of
the font's size, lines of the grid between the characters) and `Corner` (the
grid begins at the message). The search finds such a grid for a message of two
lines that share a letter; it need not find one for a single line, nor with a
hint that is wrong, and section 4 says what follows.

## 3. The runs

| Run | Question | Result |
|---|---|---|
| `daemon` | does the loop stay safe under every fault at once, does it rescue, and stop? | `TypeOK`, `VisitIsEarned`, `MisfireNeedsARace`, `AcceptedKeyIsNotRepeated` hold, it implements `Rescue`, and `RescueHappens`, `StopIsHonoured` hold under fairness |
| `daemon_disk_full` | does a failure end the process? | yes: disagreement 1 |
| `lock` | does the lock exclude, report and come free? | `OneDaemonPerConsole`, `RefusalNamesARival`, `ConsoleIsWatched` hold |
| `ledger_one_console` | does the history keep and count, with the lock? | `NothingForgotten`, `NoPressGoesUncounted` hold |
| `atomic_write` | what can readers and power cuts see? | `ReadersSeeAllOrNone`, `NoLitter`, `ReplacedIsGone` hold, and it implements `AtomicFile` |
| `service` | what runs, what is logged where, and do starts and stops end well? | `ServiceTypeOK`, `NoSleepAfterStop`, `EventsArriveOnce`, `FailuresAreTold` hold, and `StopIsObeyed`, `ServiceComesUp` under fairness |
| `stop_event_deadlock` | can a stop be missed for ever? | yes: disagreement 2 |
| `rfb` | does the session stay in step, in time and up to date? | `InSync`, `ServerUnderstands`, `WithinDeadline`, `FrameIsFresh`, `CallsEnd` hold |
| `detect` | is the text matched, only the text, and wherever it is? | `TypeOK`, `MatchIsEvidence`, `OnlyTheMessage`, `SeenWhereverItMoves`, `VerifiedMeansSameShape` hold |
| `snapshots` | does the ring keep the newest, and are pictures read right? | `ReadsAreWhole`, `RingIsBounded`, `EvictsTheOldest`, `PicturesReadRight` hold |
| `detect_blank` | can a blank screen match? | yes: disagreement 3 |
| `detect_moved` | is a message found a line further down? | not in the first column: disagreement 4 |

### Bounds, and why they are enough

* `daemon`: `Threshold` 3 puts a miss before, between and at the
  threshold; the four intervals are 1 to 4, all different, so that a sleep
  taken for another is seen; `BootDelay` 2 is smaller than `LeadTime` (4) and
  `RecoveryInterval` (3) but not than `RetryInterval`, so that a boot overlaps
  retries and whole restarts. `FailureCap` and `HistoryCap` are one past the
  value the counters are compared with. All command lines, all faults. Liveness
  is checked on the same instance: `RescueHappens` itself excuses a process that
  is killed, or a ping command that is missing, again and again.
* the violations use the smallest instance that shows them and only the
  fault that is their cause.
* `lock`: two processes that compete and a third that does not, three inodes
  for two names, so that a name can come to mean another inode while the old
  one is still open; two kills or full disks.
* `ledger_*`: two processes, two presses, a day of 2 and a retention of 3 ticks
  of 4, so that entries leave the day and the file within a run; clock steps of
  -1, 0, 1; one kill, damage at any time.
* `atomic_write`: two writers, three inodes (two temporary files and the file,
  and one of them is used again when a reader has let it go), two versions, one
  crash; inodes are interchangeable, and declared symmetric.
* `service`: two signals, of which the second may come in the handler of the
  first; forty-odd documents, one for each branch of `Config`, the edges of the
  durations and the counts among them, and all settings of the sinks; three
  supervisors, with and without syslog's socket. Troubles do not change while the daemon is in
  its loop, where it looks at none of them.
* `snapshots`: two daemons, three files in the ring at most before eviction
  (`Keep` 2), so that the new one, the kept one and the surplus are three; two
  clock readings and one nudge, so that names collide, and collide beyond the
  nudges; one failure, kill or setback. The consoles have screens of two sizes,
  so that the chunks two overlapping writes mix do not fit each other, and no
  symmetry is used; a write may be found in the middle of its data. None of
  these bounds is in the proofs (section 5). The album has every colour type and
  depth, two pictures each, under every pair of filters: 600 pictures, each whole
  and with each flaw.
* `rfb`: two regions, two looks, both with and without a password, a deadline
  of 2 ticks, up to 2 rectangles an update and 2 messages on a wire: an update
  can be complete, partial, repeated or empty, and a message can follow one
  that is still unread.
* `detect`: a font of four letters of 3 by 4 pixels in cells of 4 by 6, the
  smallest that `MIN_CELL_WIDTH` and `MIN_CELL_HEIGHT` allow; two letters differ
  in two pixels of the last row (within the tolerance of 2 % over the region),
  and two are one letter in two cases. Screens of 4 by 3 cells hold the
  messages in every place. A text of two lines with a letter in both, where the
  search is forced to a right grid, and one of a single line with no letter
  twice, where it is not. `configure` runs on eight screens, among them others than
  the message, with reversed and too faint colours, and a stray pixel; with no
  hint, a right one, one that is right for some places only, and two whose
  origin is off the frame, at its right and beyond its corner.

### Fairness, and why the code justifies it

* `Daemon`: `WF(Cycle)`, as every blocking call of a cycle has a timeout of its
  own and the process does not wait for anything else; `WF(Restart)`, the
  supervisor (`Restart=always`, `daemon -r`); `WF(Tick)`, time;
  `WF(BootDone)`, a host that took the key boots. Nothing is assumed of
  operators, signals, faults, or the host's and iDRAC's own moves.
  `RescueHappens` is therefore stated as: it is always the case again that the
  host is not stuck or a key is on its way.
* `InstanceLock`: `WF` of each process's calls, which do not block, and of the
  supervisor that starts it again. Not of kills, and not of `Unlock`: a daemon
  may run for ever, and `ConsoleIsWatched` is content with one that does.
* `StopEvent`: `WF(Program)`, the thread is scheduled and a wait times out.
* `Service`: `WF(Startup \/ Loop \/ Leave)`, the process is scheduled;
  `WF(RestartService)`, `Restart=always` and `daemon -r`; `WF(StopTimeout)`,
  systemd kills what has not stopped in time. Nothing of signals, troubles or the
  operator: `ServiceComesUp` is about a machine that stays in order.
* `Rfb`: `WF` of the client's own steps and of time, none of the server, which
  may be silent for ever.

## 4. Where code and documents disagree

Each of these is a run whose one property says what the repository says.

1. **A full disk ends the process** (`NoFailureIsFatal`). `history.record` saves
   through `atomic_write_bytes`; its `OSError` is not a `ShimError` and `run()`
   catches nothing else. `errors.py:3-8`: "no unhandled exception, ever". The
   same happens when the notify command outlives its 30 seconds:
   `TimeoutExpired` is no `OSError` (`daemon.py:474`).
2. **A stop that is never heard** (`StopIsHeard`). The handler calls `Event.set`
   in the thread that may hold the event's lock inside `Event.wait`.
3. **A blank screen that matches** (`BlankIsNoMatch`). A grid beside the message
   finds every character blank, has no contradiction, and is written as exact;
   the region it compares is blank. It takes an `--origin` that is off the
   message: for the repository's own test message at y = 208,
   `analyse(..., cell=(9, 16), origin=(0, 0))` returns such a calibration.
   `calibrate.py:29-32`: a calibration that verifies at zero "has demonstrated it
   can reproduce the screen it came from".
4. **A message that is not found a line further down** (`SurvivesMovingALine`).
   The search starts up and left of the ink and takes the first grid that
   verifies, so a message in column 0 is learned with an origin of -1 and
   `read_screen` starts in the last pixel of the first cell. The test message,
   calibrated at x = 0, is matched at x = 0 only on its own line.
   `detect.py:11-12`: it "survives the message appearing a line higher or lower".

Others were met while modelling and are noted here without a run:

* Key-down and key-up are two messages; if the session dies between them the
  exception passes over `record`, and a key that reached the console is not on
  record (`daemon.py:438`, `tests/simulation/checker.py:166-170`). `Daemon` has
  this behaviour: `KeyFails` in `"key_up"`.
* The lock is per console and the history per target host: two daemons at two
  consoles of one host overwrite each other's file (`config.py:310`,
  `history.py:83`). `Ledger` can be instantiated so (`EndpointOf`), and
  `NothingForgotten` then fails.
* The tolerance has no part in whether a screen matches, only in what the match
  is called: the theorem `MatchesHaveEvidence`. One stray pixel inside a letter
  of the message is a non-match at any tolerance, against `detect.py:5-8`.
* `--origin` is not held against the frame. Where the region that follows is of
  negative width or height, its crop raises a ValueError and nothing is written;
  where both are negative, the area is positive, and the mask of the region is
  written with no rows (`Build`, `FromRows`). Found by the proof of `TypeOK`.
* For a message of one line the first grid that verifies may cut off the last
  row of ink, and then letters that differ only there are one.
* The host can leave the prompt between the frame and the key
  (`daemon.py:411`). `MisfireNeedsARace` says that this is the only way a key
  reaches another screen; no program on this side of the wire can close it.
* If `SafePacing` fails (a boot takes as long as a recovery interval, or as the
  threshold of a restarted process), a key half pressed is pressed again into
  the boot. The shipped defaults leave minutes of margin.
* The lock is named after `vnc.host` as it is spelled (`config.py:317-324`):
  one console under two names has two locks. The theorem assumes `OneSpelling`.
* The refusal's "held by pid" (`lock.py:134`) may name the previous holder:
  flock and the pid are two steps. It does name a process of the same lock.
* `capture` paints what an update did not cover black (`rfb.py:362-378`), and
  MAX_FRAME_BYTES bounds a rectangle, not the sum of them, nor the screen size
  a server announces.
* `boot-err-shim.service:18-19` says that a bad configuration is a failed start
  "rather than a restart loop"; `Restart=always` applies to a failed
  `ExecStartPre` as well, and `RestartService` begins with the check again. Under
  rc(8) the check is made once, by `precmd`, and what it refuses is told to the
  caller of `service start` alone.
* Not every failure is typed. `parse_duration("1e308d")` raises OverflowError
  (`config.py:90`), as does `float()` of an integer with 310 digits
  (`config.py:168`); TOML that is nested deeply enough raises RecursionError. So do
  a calibration with `glyphs = 3` (AttributeError, `calibrate.py:229`) or
  `width = inf` (OverflowError, line 232), a history nested too deep or with a
  number no float can hold (`history.py:53-58`), and a state directory that
  cannot be made (OSError, `lock.py:120`, outside the `try`). `FailuresAreTold`
  claims no more for these than a traceback on stderr, and `ServiceComesUp`
  excuses them. A string is truncated, a float is not: `"1.9"` is one second,
  `1.9` an error (`config.py:70`, `config.py:90`).
* Why a calibration is not used goes to stderr only (`cli.py:468`), not to the
  sinks; under rc(8) that is `startup.log`.
* `check-config` always says "log to stderr (discarded by daemon(8) under rc)"
  (`cli.py:198`), though `setup_logging` drops the sink and rc captures stderr
  in a file; `cli.py:608` still says that it goes to /dev/null.
* A stop that catches a stop in the handler, at any stage after the handlers are
  installed, blocks it as in 2: `StopIsObeyed` and `ServiceComesUp` excuse it,
  and systemd's patience ends it.
* The eviction that `_write_ring` makes by modification time does not survive
  a clock that is set back, although its docstring (`cli.py:534-539`) gives this
  as the reason to ask the file system: modification times come from the same
  clock. `EvictsTheOldest` excuses it, and two daemons that save at the same time
  in one directory, where a name taken or rewritten after the listing may be
  unlinked as the oldest.
* A save that failed has written a file and evicted none, so that the ring
  exceeds `screenshot_keep` by a file for each failure until a save succeeds
  (`RingIsBounded`: `Keep + spoiled`); names that
  collide after 1000 nudges, or between `exists` and `open`, are overwritten.
  Between the microseconds `int(round(x * 1e6))` may be 1000000, seven digits.
* `calibrate.py:552-556` says that a delta of zero "is only true when the grid
  is right". It is zero on any grid if no character of the message occurs
  twice: nothing then tells a right grid from a wrong one, and no property here
  does. What it does show, on a right grid, is `VerifiedMeansSameShape`.

## 5. What is proved

All proofs are checked by tlapm with no step left open, for any constants that
satisfy the modules' named assumptions.

**`DaemonProofs`** (assumptions `ConfigAssumption`, `DaemonAssumption`: what
`parse_config` enforces).

* `TypeCorrect`: `Spec => []TypeOK`.
* `VisitsAreEarned`: `Spec => []VisitIsEarned`. The property alone is not
  inductive: it says nothing of a process that sleeps. `HoldInv` bounds `hold`
  by what the process is still going to wait: `hold <= timer + Due(failures)`
  in a sleep, `hold <= Due(failures)` at the top of the loop, where `Due(f)` is
  the product (misses still needed) x (retry interval); `DueStep` and
  `MissPays` say that each miss pays for exactly one sleep. `DecisionInv` ties
  `decision` to what `EndStep` will sleep.
* `MisfiresNeedARace`: from `MisfireInv`, which follows `matched` from the frame
  to the key.
* `AcceptedKeysAreNotRepeated`, assuming `SafePacing`: from `BootInv`, which
  says that while the host boots, what the process must still wait exceeds what
  the boot can still take.
* `StopEnds`, `ConsolesAreSingle`: from `LateInv` and `ConsoleInv`, the same
  statements with what they owe to every `pc`.
* `DaemonImplementsRescue`: `Spec => R!Spec`; `Simulation` is the step, one case
  per action.

**`LedgerProofs`**, on the lock: `LockExcludes`, assuming `OneSpelling`:
`Spec => []OneDaemonPerConsole`. `LockInv`: the open handle of a process is the
inode behind its path, and a process inside the lock owns that inode. A lock
file that were ever unlinked would break the first half. `LockTypeCorrect` and
`RefusalsNameRivals` need no assumption: `NameInv` (no lock file has two names)
and `TextInv` (a pid is only ever in the file behind its process's path).

On the history: the ledger's steps are steps of the lock, so that `LockInv`
carries over. `NothingIsForgotten`, for the targets with one lock: only the
holder has a copy (`LoadedInv`), and what was recorded is in the file and in the
copy that will replace it (`KeptInv`). `EveryPressCounts`, assuming that every
target has one console: from `CountInv`, while the clock is not stepped forward.

**`AtomicWriteProofs`**: `ReadersAreSafe`, `ReplacedStaysGone`, and
`WritesAreAtomicSteps` (`Spec => F!Spec`), from `FileInv`: temporary files are
apart from each other, from the path and from what a cut may bring back, and
every inode a cut may bring back is whole in memory and on disk.
`FileTypeCorrect`, and `TempsAreCleared`: without kills and power cuts the
temporary files are exactly those of the writers still in their call.

**`RfbProofs`** (assumption `RfbAssumption`): `ClientTypeCorrect`,
`DeadlineHolds`, `ServerFollows`, `ClientKeepsStep`, `FramesAreFresh`. None of the
last three is inductive, for each is about the head of a queue. `TalkInv` is the
handshake: for every `pc`, what is in flight either way and what the server waits
for. `StreamInv` is the session: there is a run of the reader over the tokens in
flight (`Run`, with `Goes` for one token) that begins in the state of the client
(`Begins`) and ends in that of the server (`Closes`), unless something in between
ends the session; a run that has come to rest stays so, and then no request is
open. A step of the client takes a token off the front of the run (`RunTail`),
one of the server puts one or two at its end (`RunAppend`), a cut is a prefix of
it (`RunPrefix`), and a capture wakes a run at rest (`RunWoken`). Pixels in a run
are of colours the screen has shown since the request, and `PaintInv` carries
that to the frame. There is no induction over the stream: what would need one is
a part of `Run`, kept step by step.

**`ServiceProofs`**, on the configuration: `ConfigurationsAreSane`, for every
document whatever its values: what `load_config` returns is `ConfigError`,
`Uncaught`, or `Sane`. One lemma per getter bounds what it returns, and that no step of `Order` failed is
what the closing checks of the tables give. The recursion over the keys is a
choice of the first failure, so that no induction is needed.

On the service (from `ConfigurationsAreSane`, for any documents, troubles
and supervisors and any number of signals): `ServiceTypeCorrect`,
`NobodySleepsOn`, `EventsHavePlaces`, `FailuresAreReported`. The inductive
invariant is `ServiceInv`, of three parts. `EventInv` is about the event: who
holds its lock (`HandlersInv`: only the innermost handler is inside `set`, and
then the lock is taken by it alone) and what the main thread may assume where it
stands in `wait` (`WaitInv`: from the test of the flag to the block the lock is
held, so that a flag that goes up meanwhile finds a waiter). `NoSleepAfterStop`
alone is not inductive, as it says nothing of a thread that is about to block.
`StageInv` ties the stage to the configuration and the sinks: from
`"logging"` on the configuration is sane, from `"calibration"` on the sinks are
those of the settings. `DocumentInv`: the configuration of a process is still
that of the file, so that what the check would say of the machine now is about
what the process is about to fail on (`MistakesAreHeard`). It rests on a bound of
`MachineChanges`: a file that has been read does not change until the process
has ended.

**`DetectProofs`** (assumptions `AnswersDiffer`, `FontAssumption`,
`DetectAssumption`: characters are drawn inside their cells, a blank is blank,
texts, screens and hints are of their types), for any font, screens, texts, hints
and tolerance.

* `DetectTypeCorrect`: `Spec => []TypeOK`, whatever is on the screen when
  `configure` runs. The region lies in the frame, and its mask and every
  picture have the sizes they claim.
* `MatchesHaveEvidence`: `Spec => []MatchIsEvidence`; `YesIsExactOrRead` is the
  lemma about `detect` itself.
* `ZeroDeltaMeansSameShape`, if `OrdinaryLessons` and `DistinctFont`:
  `Spec => []VerifiedMeansSameShape`.
* `TheMessageIsSeen`, if `OrdinaryLessons` and `ReadableFont`:
  `Spec => []SeenWhereverItMoves`.
* `YesMeansTheMessage`, if `OrdinaryLessons`, `ReadableFont` and
  `UnknownStandsAlone`: `Spec => [](PlainView => OnlyTheMessage)`.

Two inductive invariants carry them. `LearnInv`: the file and the daemon's
calibration are each what `configure` finds for the screen and the text they were
learned from. `EvidenceInv`: the daemon's calibration is of the daemon's text, and
its answer is what `detect` says of the screen that is shown.

The rest is about the pure functions, in the order in which the code runs.

1. *The search.* `Spread` and `InOrder` are recursive functions, whose values are
   shown to exist and to be numbers (`RecursionHasValues`). The turns of the
   proposals are ordered and no two are equal, so that there is a first one.
2. *Learning.* An ordinary screen's mask is its ink (`MaskIs`), every band of ink
   begins at the left of its line (`BandBeginsAtTheLeft`), and so each line of the
   message gets the column that it has on the console (`ColumnsAreRight`). On a
   grid that is right a cell shows one character, shifted (`CellShows`), and
   that is its picture (`PictureTells`). `GoodLesson` collects this.
3. *Reading.* On such a grid any screen of the console is read as its characters,
   those that have no picture as the replacement character (`CharOfIs`,
   `ReadingIs`, `ReadsIs`).
4. *Moving.* Rows that are further right or further down are the same words
   (`NormaliseIs`, `MovedRows`), so that a line which is on the screen is in what
   is read (`LineInRows`).
5. *Saying yes.* If the region is exact, it has the ink it was learned with,
   and the message stands where it stood (`RegionCovers`, `ExactIsSameInk`,
   `MessageStands`). If the text was read, no part of it came from the
   replacement character (`PartCarries`, `ReadIsSaid`).

What the hypotheses say, and why they are met: only the blank has no ink, and
characters that look alike are one letter in two cases (`ReadableFont`) or one
character (`DistinctFont`), as in VGA fonts; U+FFFD (`detect.py:172`) is no
character of a console's font (`UnknownStandsAlone`); and a calibration
(`OrdinaryLessons`) is made on a screen that is less than half ink, from lines
without an empty row of pixels inside, that start with a character in the left
part of its cell. The last is what `calibrate.py:513` relies on when it rounds.
Not every font is so: where two letters look alike, what is read is not what
was written, and no grid can tell.

`PlainView` says that the screen has no stray pixels, that its colours are on the
same sides of the threshold as when it was learned (`Legible`), and that no
character is cut off by the frame (`InReach`). `SeenWhereverItMoves` has the
like in itself (and allows stray pixels beside the message). `OnlyTheMessage`
needs it if the font may be any: inverted, one character may look like another;
a character that is cut off is not read, and what remains may join into the
message; and stray pixels can draw a character.

**`PngProofs`**, about the reader alone, for every size, depth and byte; the only
bound is `MAX_PIXELS`, which is the code's.

* `LinesComeBack`: lines that are filtered as the PNG specification says, with
  any of its five filters each, unfilter to themselves. Bytes add and subtract
  modulo 256, and both sides predict from the same neighbours, whatever
  `paeth` makes of them.
* `FrameIsRead`: `decode` reads what `encode` writes as the frame, with or
  without its last chunk.
* `PictureIsRead`: every picture of a supported colour type and depth, under any
  filters, is read as the frame it shows. The file is brought to one form
  (`Made`: the chunks and what each contributes), the joined data to rows at
  known places, a packed sample to a shift and a mask (one case for each depth),
  and `ToRGB` to the pixel that was drawn.
* `FlawsAreRefused`: with any flaw of `Pictures` that its colour type can have, the
  same picture is refused.

The recursive functions (`FlattenSeq`, `UnfilteredLine`, `Unfilter`) would need
induction over data, in the form of theorems that take an operator. They are
reached without: each has a set of functions that satisfy its equation, a witness
is written down or chosen, and that it is unique follows from the least index at
which two of them would differ (`LeastNatural`).

**`SnapshotsProofs`** (assumption `SnapshotsAssumption`: the clock, the names and
the screens as the code has them, and an album of pictures), for any number of
daemons, ticks, nudges and faults.

* `SnapshotsTypeCorrect`: from `TypeInv`, which adds what a process between two
  statements holds: a stamp for a path, and nothing listed before `glob`.
* `RingStaysBounded`: `Spec => []RingIsBounded`. The property speaks of a ring
  that no save is busy with, and is far from inductive. `BoundInv` speaks of any
  set of daemons that evict: once these are through, whatever each may still
  unlink (`Victims`: before the sort, any so many of the files it found), the
  ring is in bounds but for a file for every other save in progress and the
  files of failures, of which a clean daemon takes account (`Allowance`). A set
  is needed since two daemons may have listed the same file, and then evict
  fewer than the sum. `LinkInv`: a file that a writer has open
  and that has not lost its name is in the directory. The proof found the property as it was first stated to be wrong: with the
  count of failures cleared at `glob` and not at the end of the save, two
  faults exceed it.
* `OldestAreEvicted`: `Spec => EvictsTheOldest`, from `OrderInv`: a daemon that
  has been alone since its save began has found and listed what is there, and
  at least `Keep` files outlive its list (`Alone`, `Younger`).
* `SnapshotsReadWhole`: `Spec => []ReadsAreWhole`, from `FileInv`: the chunks of
  every file are in their places, and if header and data are both whole they are
  of one frame (`Coherent`). The property rests on the header not being
  separable from its length: were a write to be found after the header's chunk
  alone, and the file overwritten by a frame of another size, it would be false.
* `PicturesAreReadRight`: `Spec => []PicturesReadRight`, for every album, from
  `PictureIsRead` and `FlawsAreRefused`.

Only model-checked:

* `RescueHappens`, `StopIsHonoured`, `ConsoleIsWatched`, `StopIsObeyed`,
  `ServiceComesUp`, `CallsEnd`: liveness under fairness is not within the
  prover's reach.
* `OnlyTheMessage` on a screen that is no `PlainView`. TLC checks it there too,
  with stray pixels, in other colours and out of reach, but it is the font of the
  instance that makes it true.

## 6. What is not modelled

* The Windows branch of the lock, which the source calls a development
  convenience.
* DES, deflate and CRCs, report formatting, the format of log lines, argument
  parsing, TOML's grammar: pure code without state that other parts read.
* TLS: one step that succeeds or fails.
* In `Daemon`, the screens themselves: it takes the detector's answer as given,
  which matches when the prompt is there and the frame is whole. `Detect` is
  about when that is so.
* Frames of more than two colours, `--threshold` and `--invert`, a calibration
  file that was edited by hand.
* `tools/mutate.py`, `containers/`: a developer's tool and a demonstration, which
  run this program and are no part of it.

## 7. Plan

1. (done) `Decision`, `Daemon`, `Rescue` and proofs; `InstanceLock` and proofs;
   `AtomicWrite`, `AtomicFile` and proofs; `Ledger` and proofs; `StopEvent`;
   `Rfb` and proofs.
2. (done) `Bitmap`, `Calibrate`, `Detect` and proofs. To do: frames of three
   colours.
3. (done) `Config`, `Service` and proofs; `Png`, `Pictures`, `Snapshots`.
4. (done) Proofs about `Ledger` and `Rfb`, the rest of the lock and of the files,
   `Snapshots`, `Png` and `Pictures`. Every safety property that a run checks is
   now stated by a theorem, the one of `OnlyTheMessage` for a `PlainView`.
5. `Rfb` as an implementation of the console that `Daemon` assumes.
