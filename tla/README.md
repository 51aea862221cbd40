# TLA+ models of the P350 GNSS time server

The P350 is a rack device that takes the time from one of several sources (GNSS
receivers, PTP, IRIG-B, frequency inputs), disciplines its clock by an FPGA and
hands the time on: by NTP and by output boards.  Its software is a set of C
daemons on Linux that share System V IPC objects, a SQLite database and the
FPGA's registers.  The modules of this directory describe the parts of it whose
correctness depends on the order in which things happen, or on several pieces of
code that have to agree, with TLC runs on small instances and proofs for every size.

Check everything from this directory: `tlc -config <cfg> <MC module>` for a run,
`tlapm <module>Proofs.tla` for the proofs (section 5).  `PROJECT.json` lists the runs, the
lines each definition stands for, the mutants, the findings and the hazards.

## 1. The system

| component | state | operations | modelled by |
|---|---|---|---|
| **d-manager** `dmgr_manager.c`, `dmgr_alloc.c` | the table `pid[]` of its children, `guard_flag`, `loop_flag`; it creates and removes all IPC objects | `procStart`, `procRestart`, `procStop`, SIGCHLD and exit handlers; commands (guard, reboot, update) | Supervisor (not: reboot, update, the steps of its start) |
| **d-ntp**, request pool `dntp_threadpool.c` | queue, counters, condition variable, `bExit` | `tpCreate`, `tpAddTask`, `tpDestroy`, `thread_start_routine` | NtpPool, TaskService |
| **d-ntp**, the rest `dntp_server.c`, `dntp_parser.c`, `dntp_config.c`, `ntp_gettime.c` | `ntpSta` (broadcast, version, MD5 keys, ports), `li`, sockets | receive, answer, broadcast, commands, time from the FPGA | NtpConfig (the path of a command), NtpDaemon (start, end, every setting); not: packets and time stamps |
| **configuration channel** `lib_msgQ.c`, `lib_log.c`, `lib_common.c`, each daemon's `ReadMessageQueue` | a message queue per daemon, the pid in shared memory, `notify_flag` | send, notify by signal, drain | NtpConfig |
| **d-input** `din_source.c`, `din_ctrl.c`, `din_config.c`, `din_alarm.c` | boards, alarms, schema, selected source, counters of rounds; FPGA select and validity registers | a round every 200 ms: read boards, queue, alarms; select; judge; take over the time | SourceSelect; IoBoards (rows of its boards); InputDaemon (settings) |
| **d-input, receivers** `din_satellite.c`, `din_issue.c` | what the receiver said, its counters, the leap second | parse sentences once a second, judge the reception, tell d-output the leap second | Satellite; PtpModules for the receiver's set-up |
| **d-alarm** `dalm_alarm.c`, `dalm_ctrl.c` | old and new alarms, table of current alarms, table of reports, masks | a round every 100 ms: collect, compare, enter, publish, light the LEDs | AlarmTables, AlarmDaemon (not: where an alarm comes from, LEDs) |
| **event log** `common_event.c`, `lib_sqlite.c` | current and history table, `sqlite_sequence` | every daemon writes; the manager moves at its start | EventStore |
| **d-61850** `d61850_protocol.c`, `d61850_ctrl.c` | a serial line, the error count, the address of the board | frame, ACK or EAK, at most three times | SerialLink, Iec61850Daemon |
| **d-output** `dout_*.c` | configuration of each slot in database, memory, shared memory and board; zones, delays, rates | a round every 200 ms: queue, boards pulled and pushed, class of the clock; a thread for the time of day | IoBoards, OutputDaemon, PtpModules, OutputQuality |
| **d-wg** `dwg_*.c` | ring buffer, old and new state, address of the server | main loop writes frames, a thread sends them over UDP, a timer every 5 minutes | WgDaemon (start, end, settings); not: the ring |
| **cmd** `c-input`, `c-output`, `c-sys`, `c-alarm` | none | check the arguments, read shared memory, send one message; queries | OutputCommands, InputCommands, SysCommands, AlarmCommands |
| **lib** `lib_sema.c`, `lib_timer.c`, `lib_time.c`, ... | semaphore sets, interval timers | lock, unlock, calendar arithmetic | taken to work |
| **alloc** `common_phase_perf.c` | phase tables, a copy of the event log's code | as EventStore | not modelled |
| **d-keylcd**, **d-eprom**, **d-http**, scripts, tests | menus; nothing; vendored `mini_httpd` | | not modelled: user interface, one-shot register tool, third-party code |

How they interact.  The manager creates the IPC objects, starts the daemons and
starts again whichever ends, as long as the guard is on.  Each daemon owns a
segment of shared memory (its state, its alarms), guarded by a semaphore, a
message queue for its commands and an entry for its pid.  A command program
validates its arguments against shared memory, puts a message into the queue of
the daemon and sends it SIGUSR1; the daemon reads its queue to the end at the top
of its loop.  Settings live in four places, each with an encoding of its own: the
database (survives), the daemon's memory (in force), the FPGA or the module of a
board (acts), the shared memory (shown).  The alarm daemon reads the others'
segments; the management link and the IEC 61850 board read what it publishes.
All daemons write one event log.  A daemon reacts to nearly every error by
leaving its loop; the manager's restart is its recovery.

What is hard here: signals that coincide or come between a test and the clearing
of a flag; children that die while the manager stores their pid; settings half
written when a daemon leaves; a start that has to undo just what it did; tables
that are full, ids that wrap; boards pulled between the validation of a command
and its execution; modules that are told twenty commands without an answer;
answers that come after their timeout; counters of rounds that survive what they
counted; a leap second that five places have to agree on.  The list with lines is
under "hazards" in `PROJECT.json`.

## 2. Modules

`NtpPool` follows the pool's code lock section by lock section: an action is what
a thread does between two acquisitions of the lock.  `pc[w]` is where worker `w`
stands (`waiting`: in `pthread_cond_wait`; `woken`: signalled, not yet holding
the lock), `main` where `ProcNtp` stands; a request is a number in the order of
arrival, and `req`, `frees` record who owns its memory.  Signals, the broadcast
and spurious wakeups are as POSIX has them.  The one-second poll of `tpDestroy`
is `Broadcast`/`SleepOver` over the copies `tmp` and `num` the code takes.
`TaskService` says what the pool promises without threads: a bounded backlog,
served in order, closed only when empty; `ImplementsService` is the refinement
(`open <- main # "closed"`, `status` from `req`).

`Supervisor` has the manager's main flow (`main`, `todo` for the place in
`procStart` or `procRestart`), its table `pid`, and the kernel: `owner` and
`life` of each pid, one pending bit for SIGCHLD, `told` for children sent an exit
signal.  `Fork` and `Store` are two steps since `system_run` returns the pid and
the caller assigns it later.  A freed pid may be handed out again.  p350_http is
started but not restarted, and killed by name.

`NtpConfig` is the path of a command: read the pid from shared memory, look
whether the queue has room, `msgsnd`, `kill`; and the daemon's loop: test and clear
`notify_flag`, drain the queue, for each message store the setting (memory, then
database), after it the shared memory; an error ends the daemon.  It boots from
the database.  `to[c]` is the incarnation whose pid the command read.

`EventStore` has a transaction as an action: test and halving of the history,
test of the sequence with the move of everything, test of the count with the move
of the oldest row and the insert.  Between two of them other daemons write.  A
statement list that fails in the middle is committed half-way (`WriteTorn`), as
`db_unlock` commits.  Events are numbered as they are inserted, which is what
the tables are compared with.

`SourceSelect` is a round of the input daemon in two steps (`ReadBid`, with the
message queue behind it; `Round`: alarms, selection, judgement), the operator's
`schema_set`, boards that are pulled and pushed, exit and restart.  Three source
types with their kinds of alarm stand for eleven.  `count` are the static
counters of `Time_Refresh_Strategy`, `fast` the static of `FlushTimeClockStateToLock`.
A round also meets events (`Events`): the clock goes from catching to locked, the
leap second changes, a receiver has been heard for 70 sentences again; `Reasons` says for
which of them, or for the judgement, the FPGA is made to take the time over.
`streak` is history, counted by the model from what the rounds saw.

`SerialLink` is `iec61850_send` with the line to the board and the answers that
come back; frames and answers may be lost or damaged, an answer may come after
the five seconds, a write may send a part.

`AlarmTables` is the alarm daemon's round; `CompareAlarm` goes alarm by alarm
(`at`), since each entry can fail by itself and, in the wait for the FPGA, the
failure is ignored (`bounds.ignored` remembers that, until the daemon starts again).
`log` is history.

`IoBoards` is the part of d-input and d-output that keeps the settings of the
boards.  Both poll the identifiers of the boards and act on a difference from
`oldBid`: `Empty` for a pull, `Delete`, `Copy`, `Read` and `Issue` for a push, `Read`
and `Issue` for a board that was there before the power went.  Each statement on
`TBL_IO_RUNTIME` is an action, and both daemons empty the row of any slot without a
board.  The table has no key on the slot, so `table[s]` is a sequence of rows: a late
pull empties, or doubles, what the other daemon has just written.  A setting is the
set of commands whose change it contains, so that an undone change can be seen.
`Ask` copies the slot from shared memory and `Send` sends the copy back.  `at` is
the slot in hand, `spoilt` is history: the slot was touched by the other daemon, or
by a message for a board that has gone.  `alone`, carried by a message, is history as
well: when the command read, the copies agreed and no message waited.  Kinds stand for the boards that are issued
their settings.  `ReadFails` is a daemon that finds no row: d-input looks and
leaves its loop, d-output does not look and reads what it finds (`Junk`) or ends.

`Settings` is any daemon of the device with its command program; the daemons
themselves are data.  `Programs` has the words they are written in.  A step moves a
setting from one place to another through the table of its encoding (`Load`, `Save`,
`Issue`, `Show`, `Take`, and `Move` for the rest), opens or closes something, or is a
call that may fail; `Under` and `Ignored` say to which label a failure leads.
`OutputDaemon`, `InputDaemon`, `NtpDaemon`, `AlarmDaemon`, `WgDaemon` and
`Iec61850Daemon` name, function by function of the C code, the steps of each
daemon's start, of its handlers and of its end; a definition has the name of its
function.  `OutputCommands`, `InputCommands`, `SysCommands` and `AlarmCommands`
are the rows of the parsers (p350output, p350input, p350sys, p350alm): a row says
which arguments it takes and what it does, `Sets` sends a message, `Asks` prints a
setting with the words of its table, and the lines of the help text are listed
beside them.  `Pairs` puts a daemon and its rows together; `Units` are the nine that are
run (the output daemon with three kinds of boards, the input daemon with two).  In
`Settings` the daemon goes through its steps one by one (`StepWorks`,
`StepRefuses` for a value the encoding does not have, `StepFails`), drains its queue,
is killed, told to stop, and started again; two sessions type lines of the help
text (`Type`: parse and copy the rest from shared memory; `Send`).  A table of rows (the md5 keys) has a
value for each row and 0 where there is none: `Within` is a step that finds room for so
many of them only, `Counting` one that stores their number, as `md5_key_read` does.  The
memory has two places for keys instead of ten, so that a third key meets the limit.
`Forgotten` reads a program instead of running it: what the steps that leave to a label
may have opened and the steps behind that label do not close.  `Pairs` lists under `leaks` where
that is not empty, with the lines of C.  A setting is
followed at a time: no handler of one setting touches another, which is why
`setting` is chosen in `Init`.  `spoilt` is history: a fault came into a handler or a
turn, two sessions copied the same state, or a start counted the keys anew behind a command's back,
and what is shown may then be any of what was asked for.

`Satellite` is the receiver's second.  `Second` takes the chunks of the receiver's
buffer through `STA_Parser`, `GGA_Parser`, `GSV_Parser` and `LPS_Parser` (each chunk an
operator from the record `rcv` to the next), judges the reception, takes the
source and its quiet as a round of `SourceSelect` may find them, and ends with what
`Time_Refresh_Strategy` does about the leap second: compare, tell d-output
(`IssueLeapForecast`, which may send nothing; its result is not looked at), write the register.  d-output's thread of messages, `p350sys leap`,
the database and the starts of both daemons are the other actions.  `hist` is history.

`PtpModules` has the boards with a computer of their own.  A dialogue is a
sequence of commands built from the settings as the code builds it (`todo`), of
which each step hands one to the module; the module takes what it hears and knows
nothing else.  `at` is where the daemon is in its loop.  Boards are pushed and
pulled, the daemon ends and starts, at any point.  `OutputQuality` holds what d-output says about the clock:
`SetOutBoardClockClass` in its loop, the time of day message in its thread, the
test whether the system's time may be set; the clock, its source and its
grade change between any two reads.

`NtpConfig`, `EventStore` and `Settings` have names of their own for the parts every
machine has (`ConfigInit`, `StoreNext`, `SettingsSpec`, ...), since each shares a module of
proofs with another machine.  The guards of every CASE are disjoint, or the last is OTHER, so
that the provers see one value where TLC takes the first.

A definition preceded by one marked *Fault* has, in the latter, a plausible slip
of the same lines: `PROJECT.json` lists which property notices which.

## 3. Runs

| run | instance | shows |
|---|---|---|
| `ntp_pool` | 3 workers (as in the code), 2 places, 5 requests; 147 739 states | owners, freed once, no lost wakeup, drained at the end, implements `TaskService` (in order, bounded); accepted requests are served, `tpDestroy` returns |
| `supervisor` | 3 daemons, one of them not restarted; 3 deaths, 1 failing fork; 145 450 states | no daemon forgotten or orphaned; the dead are restarted, the stop completes |
| `ntp_config` | 3 commands, queue of 2, 2 starts; 1 549 075 states | the three copies agree, what was acknowledged is read |
| `event_store` | 3 writers, tables of 2 and 4 rows, ids up to 4, 14 events, 2 power failures; 80 620 states | one gapless run of the latest events; the history keeps its size within a bounded overrun |
| `source_select` | 2 slots, 3 alarms, 2 swaps, 1 command, 2 starts; 385 919 states | register, judgement and selection agree; the free schema takes the best; judged by rounds; loss and health are declared |
| `serial_link` | 3 frames, 3 faults, late and doubled answers; 161 112 states | order, at most thrice, success means received while answers are timely, and is backed always; the call returns |
| `alarm_tables` | 3 alarms, tables of 2, ids up to 5, 7 changes, 2 starts, 1 failing write, in the wait for the FPGA too; 732 658 states | what is listed, what is to be reported and what ended are what they are for; what settles is shown |
| `io_boards` | 1 slot for a board of either daemon, 2 pulls or pushes, 2 commands, 1 kill; 1 587 999 states | memory, table, shared memory and FPGA agree at the top of the loop; no command undoes another; every board is served in the end |
| `settings` | 9 units, each of their settings; 2 sessions, 2 lines (3 for the md5 keys, with room for 2 keys), 1 fault (failing step, kill or stop); 557 553 states | a restart changes nothing, nothing is shown that is not saved, queries print what was asked for, every label of an end undoes what came before it, but for three named leaks, and nothing else is left open, the help text is understood and no line of it ends the daemon, no setting keeps it from coming back |
| `satellite` | 5 worlds: 2 exchanges of the board; all sources with 1 command; 2 restarts and 1 command; a receiver with 1 restart and 2 commands; the same with 1 command and a second that loses its messages; counts of 60 are 1 and 3; 1 095 310 states | the reception is judged by what lasts; one leap second in five places; the announcement ends |
| `ptp_modules` | 7 worlds: 2 commands with an exchange or an end of the daemon for each of five kinds of board, both twice; up to 3 changes of the clock, of its source and grade; 1 923 745 states | a module has what the daemon believes it has, its peers and no other; grade, class and message follow the clock and agree; in the end the module has what the database has |
| `satellite_degraded` | as `satellite` | *violated*: what alloc.h says of `satellite_state` |

A run checks the safety and the liveness of its module together, under the
specification with fairness.  Where a property joins several statements of the
module (`EndsServed`, `FpgaFollows`, `SuccessMeansReceived`, ...) each is defined, and
explained, on its own above it.  `TypeOK` is defined in every machine and in no run: the
proofs of section 5 show it of all but `Settings`, whose values come out of the daemons' tables.

Bounds.  Every bound that the code does not have is a constant with "bound:" in its
comment.  Limits of the code (1200 requests, 100 messages, 20 rows, 50 alarms, 2^32
ids, 60 rounds) are constants set so small that they are reached: the pool fills
while all workers are busy, the queue overflows with a third command, the history
is halved several times, ids wrap, the counters run out and start again.
Two starts show a start after a crash; two
pulled boards show a swap and the swap back; three commands show one in each
place of the race (reading the pid, sending, notifying); two lines show one that
overtakes, or undoes, another, a third one the key without a place, and one fault in every
step shows what each failure leaves.  The worlds of `Satellite` and `PtpModules` separate surroundings that do not
meet: a behaviour with a bound of its own for each, instead of the product of all.
In `Settings` the first line may be any of the help text, the second one is taken from
`Together`, lines that meet the first one's setting in its other entries and values; a number
stands for its kind (the ends of its range and one between).  Symmetry is used
only for the writers of `EventStore`, which are alike, where no liveness is checked.
Where deadlock is not checked the bounds make the system stop.

Fairness.  Weak fairness only, of processes the scheduler runs: the loop of a
daemon, a worker, the manager.  Nothing is assumed of commands, boards, faults, deaths
or arrivals.  In `NtpPool` each worker and the main thread are fair, not the
arrival of requests; a mutex that is free is taken in the end, which weak
fairness of whole lock sections says.  In `Supervisor` a child that was told to
end ends.  In `SourceSelect`, `AlarmTables`, `Settings` and `PtpModules` the start of the daemon is fair,
which is the manager's restart (`RestartsThenStops`) with the guard on; the number of crashes is
bounded.  In `SerialLink` the five seconds pass.  A round of `SourceSelect` is two fair
actions, and its liveness is stated under `[]<>(phase # "msgs")`: a queue that is
filled for ever would keep the daemon in it.  In `IoBoards` each step of each
daemon is fair, the start among them; kills are bounded.  `Satellite` states safety
only.

## 4. What the code does not keep

`satellite_degraded` is a run of its own: `initializeContext` of d-input sets
`satellite_state` to 3 and, 35 lines further down, fills the slots with zeros again,
four times the size of another structure; after every start the signal counts as
degraded until the first sentence of stars was read.  `PROJECT.json` quotes both.

Four more statements are in the modules, each taken from a comment or a name, and fail.
To see it, put the statement alone under INVARIANT (PROPERTY for `ValidIsEarned`)
of the module's cfg:

* `Supervisor!ExitedPidIsReclaimed`: SIGCHLD between fork and the assignment to
  `pid[]` leaves a reaped pid in the table.
* `SourceSelect!ValidIsEarned`: the free schema changes the source without restarting
  the count of quiet rounds (`din_ctrl.c:408`), which the comment says it does.
* `SerialLink!OkMeansReceived`: an answer later than five seconds counts for the
  next frame.
* `Settings!TotalIsCounted`: `totalKey`, "the total of the md5 keys" (`alloc.h:423`), is set when
  d-ntp starts and by no handler (`dntp_config.c:54`); `ntp m -q` prints it in front of a list of
  another length.

The properties of the runs name what they leave out: where one speaks of a state
that is not `spoilt`, `hist.behind`, `bounds.ignored` or `Outgrown`, of a module that is not
`hist.later`, or of a handler that is not `Overtaken`, the comment says which code makes the exception.  What was met while
translating, and is no property of a run:

* `p350output <slot> delay` and `signal ntp` for an NTP board print Success and store
  nothing (`dout_config.c:3178`, `cout_set.c:922`); PTPF boards take levels,
  priorities and types and ignore them; delays lose what is no multiple of ten.
* A command whose signal fails prints Failure although its message stays in the
  queue.  Two commands within a turn of d-input copy the same shared memory, and the
  later one undoes the earlier: `Settings` calls this `spoilt`.
* A new physical address of an NTP port, or of the device, reaches the database and is
  shown after the next start only; two sessions that add or delete one key end d-ntp's
  loop; `ntp p N monitor E` is lost when d-alarm ends.
* The limit of ten md5 keys is tested against `totalKey` (`csys_parser.c:2425`,
  `dntp_parser.c:355`), that is, against the number at the last start.  An eleventh key finds no
  place in the memory (`dntp_parser.c:376`) and goes into the table all the same: the command
  prints Success, no query shows the key and no request is answered with it.  Adding it once more ends the daemon's
  loop, as its row is there already; after a delete and a restart it may come into the memory in the
  place of the deleted one.  A start with more than ten rows writes behind `mKey`
  (`dntp_config.c:56`), which is undefined; in the model such rows are only not in the memory.  The commands
  refuse to add a key as long as the count of the start is the limit, also when keys were deleted since; with
  more rows than that the command, which tests for equality, lets an add through, and the daemon's refusal ends its loop.
* An error of the database in the loop in which d-alarm waits for the FPGA is ignored
  (`dalm_ctrl.c:218`): the changes entered before it are found, and entered, once more.
* What `IssueLeapForecast` returns is ignored and `lp_old` set all the same (`din_ctrl.c:490`, `:514`): after
  a full queue or a failing semaphore d-output and the database keep the old leap second until
  the next change.
* The time is taken over on two events without a look at the judgement of the source: the clock
  goes from catching to locked (`din_ctrl.c:233`), and a receiver, selected or not, has been heard for 70
  sentences again (`din_satellite.c:664`).
* d-alarm shows a new mask, selection or threshold before it is in the table; ALMINX in
  its help text is off by one; the help text of `leap` and of the broadcast interval has other
  ranges than the parser.
* Three things are left open, and named by `leaks`: `ProcNtp` returns without its cleanup when the alarm it is
  to switch off is not in the index (`dntp_server.c:1070`), and never ends the thread of the time; `ProcInput`
  does not free the index of alarms when the FPGA cannot be opened (`din_ctrl.c:705`).  `ProcManager` closes its databases in the start and again at its end.
* The mask and the gateway of the device may fail in `ethn_add` and are written to the
  table all the same (`dwg_parser.c:543`); `ReadipFromTable` returns 0 for a failure and its
  caller tests for -1; `wg ip` and `61850` take any text for an address; `set61850_network` reads the name of
  the column and uses nothing.
* d-input starts in the belief that the leap second is not forced
  (`din_alloc.c:86, 196`): when the operator leaves a forced one to the source again
  before the first second after a restart, d-input finds no difference and tells nobody.
* An announced leap second that the receiver takes back early stays announced
  (`din_ctrl.c:961`); negative ones are never announced; those of an IRIG-B source never
  pass (`din_ctrl.c:276`); a leap second of 0 is told to d-output and not
  stored (`dout_parser.c:153`).
* A PTP board pushed later is told the class of the clock at its next change only; the
  engine of a module stays off when the daemon ended in the dialogue for a command
  that came before the board was in the table; two PTP boards hear each other's
  settings (one set of registers, `addr.h:540-563`); `pps_state` is not initialised when
  the clock is locked on NTP or on no source; the system's time is set in free run
  although the comment at `dout_time.c:979` says it is not.
* A source that was forced and whose board is swapped is judged by an alarm nobody
  refreshes (`din_ctrl.c:399`); a saved forced source with a board without ports in its
  slot keeps d-input from starting (`din_config.c:852`); a board exchanged between two looks of its daemon
  keeps settings the table has lost (`din_ctrl.c:635`).
* The ring of d-wg is changed by two threads without a lock (`dwg_parser.c:180`); early
  returns in `common_phase_perf.c` leave a transaction open; a name that cannot
  be parsed leaves the database locked in `read_virtual_eth` (`dntp_config.c:596`).

## 5. Proofs

Every theorem is about a module's specification (`Spec`, `ConfigSpec`, `StoreSpec`,
`SettingsSpec`) and holds for all values of the constants that satisfy the module's
`ASSUME`.  The bounds of the runs are
among these constants, so that a theorem about any `MaxSwaps` or `MaxFaults` is one about
behaviours of any length.  In parentheses the property of a run a theorem states, where the
names do not tell.

| module | about | theorems |
|---|---|---|
| `NtpProofs` | NtpPool | `TypeCorrect`; `OwnershipHolds`; `CountsHold` (`NoLostWakeup`); `DrainedHolds` (`DrainedWhenClosed`); `FifoHolds` (in no run); `ImplementsServiceHolds` |
| | NtpConfig | `ConfigTypeCorrect`; `CopiesAgreeHolds`; `NotStrandedHolds` (in no run: the safety behind `AckedIsRead`) |
| `DaemonProofs` | Supervisor | `TypeCorrect`; `NoneForgottenHolds`; `NoOrphansHolds`; `OneInstanceHolds` (in no run) |
| | Settings | `NothingStaysOpen` (the half of `ClosesWhatItOpened` that is about behaviours) |
| `AlarmProofs` | AlarmTables | `TypeCorrect`; `ListIsCurrentHolds`; `LogsHoldLatestHolds` |
| | EventStore | `StoreTypeCorrect`; `LogIsSuffixHolds`; `HistoryKeepsItsLimitHolds`; `IdsFollowAgeHolds` (in no run) |
| `SourceSelectProofs` | SourceSelect | `TypeCorrect`; `FpgaFollowsHolds`; `FreeTakesTheBestHolds`; `JudgedByRoundsHolds`, an action property |
| `SerialLinkProofs` | SerialLink | `TypeCorrect`; `InOrderAtMostThriceHolds`; `SuccessMeansReceivedHolds` |
| `IoBoardsProofs` | IoBoards | `TypeCorrect`; `FourCopiesAgreeHolds`; `OthersAreKeptHolds` |
| `SatelliteProofs` | Satellite | `TypeCorrect`; `JudgedByWhatLasts` (`ReceptionIsJudged`); `RegisterKeepsUp` (`RegisterHolds`); `OneMind` (`OneLeapSecond`); `AnnouncementEnds` (`ForecastEnds`) |
| `PtpModulesProofs` | PtpModules | `TypeCorrect`; `AllRegisters` (`RegistersAreSet`); `PeersAreGiven` (`OnlyItsPeers`) |
| | OutputQuality within it | `GradeFollows` (`SsmFollows`); `ClassAndTodAgree` (`OutputsAgree`); `FreeRunSetsOnce` (`FreeTimeOnce`) |

The arguments have one shape: an invariant (`IInv` in most modules), a conjunction of named parts
with `TypeOK` first, is shown to hold in `Init` and to be kept by each action, one
lemma for each part; the theorems follow from it.  Why the properties are not
inductive as they stand, and what is added:

**NtpPool.**  `curTasks <= MaxTasks` needs that `curTasks` is the
length of the queue, `curThreads >= 0` that it counts threads, `frees <= 1` that
nothing is freed twice.  The argument is therefore layered.  `WeakType /\ Phase` has
the types without bounds and what each state of the main thread implies (`tmp`
and `num` set, all workers created).  On it `Ownership /\ QueueAccounting` is
inductive: who takes a request takes it from exactly one place.  Next come
the counts, with three lemmas about the cardinality of the set of workers in
given states (`AtCount`, `AtMove`, `Positions`): moving one worker changes a count
by one.  `NoLostWakeup` is inductive together with `ThreadAccounting`: a queued
request adds one to the queue and, if anybody waits, one to the workers on the way.
`ClosingInv` says what `bExit` and the copies `tmp` and `num` mean in each state of
`tpDestroy`: zero threads counted means that all workers have left and, as a
worker leaves only with the queue empty and the main thread adds nothing any
more, that the queue is empty for good.  From it follow `DrainedWhenClosed` and
the bounds of `TypeOK`.  The refinement rests on all of them: `InitIsServiceInit` for the
initial states, then one lemma for each kind of step, which maps it to the step of
`TaskService` that changes `status` and `open` the same way, or to none (a lock
taken, a poll of `tpDestroy`).

**Supervisor.**  A child is not in the table between the return of `system_run` and
the store: `OnlyTheNew` says that then no other process is that daemon.  `procStart`
does not look at the table, so `Unstarted` says that the daemons it has left are
not in it.  `AllTold` is `NoOrphans` from the moment `procStop` has run.

**NtpConfig.**  `CopiesByPosition` says how far memory, table and shared memory have
come at each step of the start and of a message.  `NotStranded` needs `PidsAreOld`, that
the pid a command holds is of an incarnation that was there and not of one that has
not yet published its own, and `Unsent`.

**EventStore.**  Everything rests on the ids: `IdsGrow` makes the row with the least id
the first one, so that "the oldest row" of the SQL is the oldest event, also
after the sequence was reset.  `NoGaps` is the suffix seen from both tables at once, so that
moving a row from one to the other changes nothing.  The bound of the history is a potential:
`RowsAreBounded` adds to the rows one for each writer that has tested and not yet
moved, and `MaxCurrent` for every torn list still to come; only a test that finds room
increases the sum.

**SourceSelect.**  `FpgaFollows` and `FreeTakesTheBest` are inductive with the types.
`JudgedByRounds` speaks of two states: `CountsAreSeen` ties the static counters of
`Time_Refresh_Strategy`, which nothing resets at a change of the source, to rounds that were seen,
`QuietIsValid` covers the time between the two thresholds.

**SerialLink.**  `InOrder` adds the frames on the line to those received.  `FewCopies`
counts both together against what has been written (`Written`), which bounds the
copies though nobody knows how many are lost.  `OneAtATime` is why an answer within its five
seconds is about the last frame; `Backed` pairs each success, and each ACK on its
way, with a frame of its own, whatever is late.

**AlarmTables.**  In the middle of a comparison the table holds the new alarms up to
`at` and the old ones behind it (`Awaited`).  Entries are written over by place,
so `UploadFollows` says which change each of them has; `Place` is shown to return
the least id.  Each part has the exception of the property: once the loop that waits for the FPGA
has ignored an error (`bounds.ignored`) nothing is known of the list until the next start.

**IoBoards.**  A slot is followed through the pass.  `Handled` are the slots the pass,
or the one before, has dealt with, `Placed` which copies of the identifiers agree
at each point of the loop, and `HandledAreServed` that a handled board has its
settings everywhere but in a register that is about to be written.  For the table
that needs `OneOwnRow`: rows of the other daemon may stand beside, but there is
one row at most for the boards of this one, although both delete and insert in
transactions of their own.  `OwnRowsStep` is the lemma about it: in a step
of anybody the own rows stay, get a message's settings, are gone with a trace (`spoilt`,
no board, or about to be copied), or are the default.  `OthersAreKept` needs that a message given
alone covers the memory and the row from the moment it was read (`AskedIsSound`,
`QueueIsSound`), and what the shared memory of either daemon is worth
(`ShownIn`: at the top of the loop; `ShownOut`: always).

**Settings.**  The steps are data, and the theorem has no hypothesis about what a program opens
and closes: it says that what is open when a daemon is gone is at most what the program forgets at the
label it left by (`Forgotten`), whichever sequence of messages, failures, kills and orders to stop led
there.  That this is nothing, but for the three `leaks`, is a fact about each program, which the run checks of all of
them as the other half of `ClosesWhatItOpened`.  The theorem uses `ProgramsAssumption` (labels exist,
an end only closes things and makes calls), which TLC evaluates for the programs of `Pairs`.
The invariant `HeldIsClosed` says at each place what may be open: in
the start what the steps so far have opened, in the loop what all of them have, in the end what
the label forgets and what the rest of its steps will close.

**Satellite.**  A second folds the sentences of a burst into the receiver and into the
history.  Bursts have any length, and the library's induction theorems cannot be used
with an operator; `NatSetInduction` and `FoldExists` do the induction with sets of numbers, and
`ReadOneByOne` and `NoteOneByOne` unroll the two folds together, sentence by sentence, so that
`Judged` has to be kept by one sentence only.  It ties `valid` to the runs of good and
bad sentences: the counters of the receiver are the history of its sentences.  The announcement is
bounded by what `pps_count` counts (`AnnouncementIsCounted`).  For `OneLeapSecond` the
chain from d-input to the database is followed backwards: `TellsLast`, the last message on its
way says what d-input believes; `StoreFollows`, with no message on its way the database has
what d-output has in force.

**OutputQuality.**  The grade of the 2 Mbit output depends on the last two rounds, on a remembered
grade and on the source before the present one.  `GradeSaid` is what was said for the state
and the source d-output *knows*, `RoundsSee` when these are the clock's own, `SecondRoundPasses`
that the second round passes on the grade of the source, `SaidIsKnown` and `SourceIsTraced` what the
static variables are worth in between.  `ClassIsHeard` adds the class in the modules of the boards,
across exchanges and ends of the daemon; `TodFits` the thread's message.

**PtpModules.**  Settings are arbitrary and the lists of peers have any length, so a
dialogue is not unrolled.  `Block(s, S)` says that the sequence `s` tells exactly the commands
in `S`, in an order that `Wrong` does not forbid: the login comes first, peers are
deleted before others are added or remembered, the list of addresses is remembered after its last peer
was told, the physical address before, the engine goes on after it went off.  One
lemma composes two blocks, and one for each dialogue of the code names its set (`PtpInSet`,
`ForeignSet`, `CnSet`, ...), which says what it tells, and for which registers, at any length.
`Structure` (types, what the daemon may have in hand at each point of its
loop, what a dialogue may contain) is inductive by itself.  On it rest `LoginFirst` (a module
with a login has it, or is told it first), `EngineReturns`, `NetIsSent` and `SatIsFixed`, each about a
command that is only told when something has changed, and `ModuleAgrees`: of the module in hand
each register is as the settings in memory have it, or is still to be told.  `OnlyItsPeers`
needs where a peer may be that a module has: `PeersGiven`, those of the settings in memory are
there or still to be added; `PeersKnown`, any other is remembered and will be deleted, is about to
be remembered, or was forgotten by a daemon that ended (`hist.left`).

Three changes of models came from the proofs.  `OthersAreKept` was stated with a
condition on the slot at the time the message is handled, and is false that way with
two kinds of boards of one daemon, three commands and three restarts, more than the run
has: a late message for another kind is stored, a command reads what it left, the
daemon restarts from the table and the command undoes an earlier one.  The
condition belongs to the moment of reading, which is what `alone` now says; the property has
none left.  In `EventStore` the oldest row is named by its place.  `OneLeapSecond` did not hold
after a restart with a forced leap second (section 4), which the run, with one command,
could not reach: `hist.behind` now names the ways in which d-input has a wrong
idea of what d-output knows (two at a start, and a message that was not sent), and the fourth world of the run
has the two commands it takes.

Each invariant was checked with TLC on the instance of its run before it was proved.

Only model-checked:

* every liveness property (`EndsServed`, `RestartsThenStops`, `AckedIsRead`, `LastingIsDeclared`,
  `SendReturns`, `SettledIsShown`, `BoardsAreServed`, `ComesBack`, `Recovers`), which needs fairness and
  `ENABLED` and is beyond the prover;
* `ReadsBack`, `RestartChangesNothing` and `HelpIsHandled` of `Settings`, and the first half of
  `ClosesWhatItOpened`: they are facts about the tables of each daemon and of each command, entry by entry.  The run
  goes through all of them; a proof would go through the same cases one by one and say
  nothing more, as the tables are no parameters.

No module declares a RECURSIVE operator.

## 6. Not modelled

Packets, digests and time stamps of the NTP daemon; the manager's `reboot` and
`update`, and the single steps of its start; the ring of d-wg, of which a model would only
restate the race; the phase measurements and their tables; accounts of users
(`csys_user.c`, each a few transactions of the command itself); where each alarm
comes from; LEDs; SQL text; all wording.  Semaphores are taken to exclude: a section
under `sema_lock` is part of one action, although `sema_unlock` reads and posts in two
system calls.  A transaction that `db_lock` gave up waiting for is not modelled,
nor is what a start of d-ntp overwrites when the table has more than ten keys; the order in which that table gives
its rows is one fixed order (`KeyIds`).  The attachment of a daemon to its shared memory is not among
what is opened and closed.  d-keylcd, d-eprom, d-http,
scripts and test programs have no logic of this kind.  In `PROJECT.json` a component is
"partly" modelled when some operation of it is left out, which its note names.

Some definitions are stated in modules and proved, and not in a run's list: `QueueAccounting`,
`ThreadAccounting` and `FifoDispatch` of `NtpPool`; `NotStranded` of `NtpConfig`, `OneInstance` of
`Supervisor` and `IdsFollowAge` of `EventStore`.

## 7. Plan

Every safety property the runs check is proved but for the facts about tables named in
section 5.  What would be next is model: the ring of d-wg once it has a lock to model,
the manager's `reboot` and `update`, the sources of the alarms (which a round of d-alarm
takes as they come), and the phase tables, whose code repeats the event log's.
