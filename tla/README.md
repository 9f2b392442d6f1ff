# SyslogAgent in TLA+

SyslogAgent is a Windows service that reads the Windows event logs and the log
files of applications and sends what it finds to a syslog server, and perhaps to
a mirror of it. Its README makes one promise that a test hardly reaches:
nothing is sent while the server cannot be reached, and "when it does become
available, all the accumulated event logs are transmitted". Five threads, some
unlocked globals, one value in the registry and a network that comes and goes
decide whether that is so. Around them stand the configuration program, which
changes the agent's settings value by value while it runs, and the logs of
applications, which are rotated while they are read. The modules here model those
parts, TLC checks them on small instances, and TLAPS proves the safety properties
that matter most for every instance.

Source lines are given as file:line of `src/SyslogAgent`; NTSyslogCtrlDlg.cpp,
ConfigLogging.cpp and ConfAppl.cpp are in `src/SyslogAgentConfig`,
common_registry.cpp in `src/Syslogserver`.

## 1. The system

### Threads

| thread | starts in | does |
|---|---|---|
| service thread | `service_main` (service.cpp:369), `ntsl_run` (ntsl.cpp:200) | starts the service, scans the event logs once per poll interval, asks `service_halting` every second |
| AppWatchMain | `ntsl_run` | starts the output thread and one thread per application log, and ends |
| output thread | `outputMain` (output.cpp:497) | takes messages out of the queue and sends them; commits a scan |
| AppWatch threads | `AppWatch` (appWatch.cpp:121) | follow one application log each |
| control thread | Windows, `service_ctrl` (service.cpp:452) | stop, shutdown and interrogation |

### What they share

| variable | writers | protection |
|---|---|---|
| `messQueue` | all (push), output thread (pop) | `SyslogQueueMutex` around push, front and pop; `size()` and `empty()` are read without it, and it does not exist before `outputMain` has made it |
| `ReadMoreFromRegistry`, `thisrun` | service thread, output thread | none: a handshake |
| `LastRun` (registry) | output thread; read by each scan | survives the process |
| `LastTransmitOK` | output thread | none; read by the AppWatch threads |
| `ErrorCount` | all, through `logger` | none |
| `ServiceStop`, `LastWaitForSingleObjectTime` | all, through `service_halting` | none |
| `service_status` | service thread, control thread, any thread that stops the service | none |
| `LoadedLibrary` | service thread, control thread | none |
| the agent's registry key and the keys below it | configuration program, `SyslogAgent -install`, the agent (what is missing) | each value by itself |
| the state of the service | configuration program, service control panel, `-install`, `-remove`, the agent | the service control manager, call by call |

### Components, their state and what makes them correct

- **Event log scan and commit** (eventlog.cpp 885-1157, output.cpp 557-610).
  State: `LastRun`, `thisrun`, `ReadMoreFromRegistry`, the position in each log.
  A scan reads the window from LastRun to now of every log and queues it; the
  output thread writes the window's end to LastRun when the scan is over and
  the queue empty. Correct if every record below LastRun was sent, none below it
  is sent again, LastRun moves forward, and every record is sent in the end.
- **Output queue** (output.cpp 17-90, 557-667). Lines wait for room (250), the
  agent's own notices are dropped when there is none (260) and suppressed after
  five in one outage. Correct if the queue is bounded, the threads exclude each
  other, the output thread never pops an empty queue and never waits for itself.
- **Transport** (output.cpp 92-493). State: two sockets, the count of
  WSAStartup, `LastTransmitOK`, the time of the last ping. Correct if Winsock is
  up and a socket there when one is used, no handle outlives its socket, and
  each message leaves the queue only after it was handed over, in order.
- **Event log reader** (eventlog.cpp 733-1053). State: `recordOffset` and
  `verificationTime` of each log. A search by halves finds the start after a
  restart; a log may be written, overwritten and cleared meanwhile. Correct if
  no record of the window is stepped over or passed on twice.
- **Application log watcher** (appWatch.cpp 39-345). State: file position,
  creation time, the part of a line it has. Correct if across a rotation every
  line is sent once, whole and in order.
- **Service control** (service.cpp 369-551, 757-864). Correct if a stop is
  noticed by the service thread, nothing else is taken for one, and Windows is
  told the states in their order.
- **Message library cache, SID cache, event read buffer** (eventlog.cpp 431-491,
  581-707, 803-881, 1367-1437). Two tables that are emptied when full, one of them
  by the control thread as well, and a buffer that grows on demand. Correct if a
  message is looked up in a library that is loaded and is the right one, an
  account belongs to its SID, the buffer is there and large enough whenever it is
  used, and a poll always ends.
- **Application message parsing** (AppParse.cpp 333-751). Each field of a line is taken
  by the code a header gave it or by its looks. Correct if nothing of the line is lost
  that is read and that a message has room for, and the number in front of the message
  says what its word says.
- **Start of the application log threads** (appWatch.cpp 347-484) and the dialog of
  an application (ConfAppl.cpp). State: six values of a registry key. Correct if
  the thread follows the log the administrator chose last.
- **Configuration program** (NTSyslogCtrlDlg.cpp, ConfigLogging.cpp): a window with
  three timers, boxes that let the timers go on, a dialog for each event log, the
  control of the service. Correct if edits are saved, an agreed restart comes
  about, and an agent with old settings has a reason the user knows of.
- **Registry settings** (RegistrySettings.cpp, common_registry.cpp) and **service
  installation** (service.cpp 557-690). Correct if the dialog and the agent
  understand a key alike, also one that was written in part.
- **Event formatting** (event.cpp, engine.cpp), **linked list** (list.cpp),
  **service wrapper** (NTService.cpp), **error handling**: see section 5.

### What is hard

Two threads that meet in unlocked globals; a process that is killed between the
send, the pop and the write of LastRun; failures in the middle of a scan; a queue
that its own consumer feeds; a network library that counts its users; event logs
that change while they are searched; files that are renamed while they are read;
a stop request that all threads look for through one variable; settings that are
written one value at a time, with writes that fail, and read one value at a time;
boxes that wait for an answer while the world goes on.
`PROJECT.json` lists each hazard with its line and the property that would catch
it.

## 2. The modules

| module | models | abstract specification | proofs |
|---|---|---|---|
| `Forwarding` | scan, queue, commit, kill and restart | `EventDelivery` | `ForwardingProofs` |
| `OutputQueue` | the queue statement by statement | | `OutputQueueProofs` |
| `Transport` | the output thread's way to the network | `Courier` | `MessageProofs`, first part |
| `EventLogReader` | the position in one log | | `EventLogReaderProofs` |
| `EventResources` | library table, SID table and read buffer of a scan | | `EventResourcesProofs` |
| `AppWatch` | one application log thread | | `AppWatchProofs` |
| `ApplicationLine` | one line of an application log, as operators | | `MessageProofs`, second part |
| `ApplicationSettings` | the settings of an application log, written and read | | `MessageProofs`, third part |
| `ServiceControl` | start, stop and `service_halting` | | `ServiceControlProofs` |
| `LoggingSettings` | the registry key of an event log, as operators | | `ConfigurationProofs` |
| `Configuration` | the configuration program, the service and the starting agent | | `ConfigurationProofs` |

`ApplicationSettings` extends `ApplicationLine` and `Configuration` extends
`LoggingSettings`. The specification of `ApplicationSettings` is `SettingsSpec`, with
`SettingsInit`, `SettingsNext` and `settingsVars`, so that one module can prove about it
and about `Transport`.

Each takes one boundary of the system and abstracts the others. `Forwarding` has
atomic pushes and a send that works or not; `OutputQueue` takes the push apart
and forgets what is pushed; `Transport` takes the send apart. `Forwarding` reads
each log from a position it knows or does not know; `EventLogReader` takes that
position apart. In all of them a variable that is a C++ variable has its name,
`pc`, `rpc`, `opc` or `stack` says where a thread is, and a variable marked
"history" in its comment is not in the code: it records what a property or a
refinement mapping needs and no guard reads it.

### Forwarding and EventDelivery

One action per statement of the scan and of the output loop that another thread
or a crash can come between. `Poll` is `eventlog_check_events` up to its loop,
with its two failures `PollNoKey` and `PollNoValue`; `OpenLog`, `ReadBuffer`,
`QueueRecord`, `DropRecord`, `IgnoreRecord`, `EndOfLog` and the failures
`OpenFails`, `ReadFails`, `StopReading`, `RecordException` are
`eventlog_read_events`; `ScanDone` clears `ReadMoreFromRegistry`. The output
thread goes through `Look`, `Send`, `Pop` and, with an empty queue, `SeeScan`
(the flag is read), `Recheck` (the queue is looked at again), `WriteLastRun`,
`Release` and `Pause`. `Kill` and `Start` may happen between any two steps;
`evlog` and `lastRun` alone survive. A record is its log, number, time and
whether the settings select it. Application logs appear as `AppMessage`, which
pushes an anonymous message.

The records that a scan leaves behind because of one of the modelled failures
are collected in `abandoned`. `EventDelivery` states the promise without any of
the mechanism: records are written, delivered, forfeited; `committed` moves
forward and never past a promised record that is neither delivered nor
forfeited; nothing below `committed` is delivered again. `Implements` maps
`committed` to LastRun and `forfeited` to `abandoned`.

### OutputQueue

Each thread passes through the unlocked comparison, the wait for the mutex, the
use of the queue and the release. `logger` compares `ErrorCount` (`Accept`, `Ignore`),
and its increment is a read (`Load`) and a write (`Store`): other increments in between
are lost, and a reset is undone. Before `CreateMutex` a wait does not wait. Only the
number of messages is kept. The history variables `noticed` and `stored` count, since
the last reset, the notices by the value they found and the stores of each value.

### Transport and Courier

`ReadyToSendMessage`, `initNetworkSettings`, `TransmitMessage`, `Slumber` and the
rest of the loop, with the sockets and the count of Winsock. "stale" is a handle
whose socket the last WSACleanup has closed. `mode` and `mirror` are settings,
chosen at the start. WSAEWOULDBLOCK is a send that has not happened yet.
`Courier` is the promise: handed over in order, removed only after that; without a
mirror exactly once. (With one, the failure of the mirror repeats a message to
the primary, which `Courier` then allows.)

### EventLogReader

One log with its oldest and newest record number. `FindMin`, `FindMax`, `Halve`
and `Found` are the loop of `FindFirstReadPos`, one read of the log each. Its
positions are unsigned: if the log was cleared between the reads of its two ends, the
first probe is beyond every record (`Beyond`) and the search is over at once.
`Position`, `Eject`, `StartFromScratch`, `ReadBuffer` and `EndOfLog` are
`eventlog_read_events`. `Restart` forgets the position as a new process does.
A record has two times, which need not be equal: `written` decides whether it is in the
window, `generated` whether it is the one remembered. The history variable `disturbed`
says that records were overwritten during this poll, `confused` that the log was cleared
during a poll, and `mistaken` that in this poll a record of a log cleared before was taken
for the one remembered, because it has its number and its TimeGenerated.

### EventResources

The service thread goes through a poll of one log by the places that use the two
tables and the buffer: `Call`, `ReadEventLog` and `Grow` are `ernoReadEventLog`
(a record is its size); `Found`, `First` and `Following` are the three places
that call it and look at the result; `ParseLibs`, `Search`, `Compare`,
`LoadLibraryEx`, `Name` and `FormatMessage` are the text of an event,
`eventlog_set_user` its account. `Unload` is `ernoUnloadLoadLibrary`, slot by
slot, and is run by both threads: `ScanUnloads` and, after `RequestStop`,
`ControlUnloads`, which may come between any two steps of the scan. Windows counts
the users of a library in `references`. `longKnown` is a history variable: a SID
that does not fit into a slot was entered.

### AppWatch

One thread with one file, the newest file of a directory, or a rotating file. A line has
two pieces, so that the end of the file may be in its middle; the pieces are numbered,
and `log` has for each file how many were written before it began. The first line of a
file may be a header. The application rotates in two steps: `Rename` takes the current
file away, over the file that was rotated before, and `NewFile` creates it again (in a
directory `NewFile` alone adds one). A file that is open cannot be renamed (`_SH_DENYNO`
allows no delete); `fp` is the file the thread has open, and `leaked` those it opened
and forgot. `Restart` is the code after `RestartLocation`, and `End` the place where it
begins: the end of the file, or, in a UNICODE file of `Block` or more, beyond it.
`Wait`, which closes what is open, and `Resume` lead there after an outage; `Stat` and
`Open` are for a rotating file, `Look` for one that stays open; `ReadPiece` and
`ReadLine` read, `EndOfFile` and `EndOfRotated` end a reading, `Search` is
`getLatestLogFileName`. `initLogFile` is the function of that name, with the codes of
the header (`Codes`) and the ignored first lines (`Skipped`); `initLogFileFails` stands
for its error paths, each of which ends the thread, also where the file was renamed and
there is no new one yet (`RestartFails`, `OpenFails`, `SearchFails`). `first` is the
number of pieces in front of the place where the thread began. `raced` says that new
files came faster than the thread looks, or as it looked; `late` collects the files that
were opened before their first line was complete.

### ApplicationLine and ApplicationSettings

A field of a line is its kind, which is what the recognisers tell apart, and a message
holds the index of each field. `Field` is the chain of conditions in the code, in its
order, and `Parsed` the message after each number of fields, a recursive function;
`parseMessage` takes its last value and does the rest (`Finish`). Two limits cut a line:
31 fields are read (`FieldLimit`, `FieldsOf`), and a message has 1024 characters, of
which the text of the fields is the last (`Room`, `Cut`; a field is one unit of it).
`OnBnClickedSuggestsettings` parses a line with every flag set and keeps the flags that
found something.

`ApplicationSettings` is the key of one application: `OpenNew`, `OpenEdit`,
`ClickRadio`, `Enter`, `OnBnClickedOk`, `Write` and `Close` are the dialog,
`StartAgent`, `GoTo` and `Read` are `AppWatchMain`, one value each, in the order of
the code and with its conditions (`Following`). `Unset` is the empty text.
`chosen` and `disturbed` are history variables.

### LoggingSettings and Configuration

`LoggingSettings` has the values of an event log's key in the order in which they
are written, the three that write them (`initEventLogTypeEntry`, `OnDefaults`, the
dialog) and the two that read them (`OnInitDialog`, `eventlog_read_reg`).

In `Configuration` the program's thread is a stack: a box or a dialog on top waits for
the user, and the timers (`OnTimer1` to `OnTimer3`) go on below it, so that a second
question may open on the first. `Poll` is the loop that waits for the service to stop,
which has no message loop and no other way out. The agent starts in the order of the
code, from `SyslogHostInRegistryOK` to `StartApplications`, and what it has read is
`agent.loaded`, compared with `InRegistry`, what it would read now: the settings, and of
the logs those that have a key. If such a key cannot be opened, `ntsl_die` asks for a
stop while the start goes on to report that it runs (`NtslDie`). Others start, stop,
install and remove the service at any time. Two variables are histories: `reasons`, why
the agent may have other settings than the registry, and `edited`, what the user last
entered and whether the program gave it up: `Install` fills the window from the registry
again, and a window that is closed while a question is planned does not save.
`EditsSaved` looks at the registry: what was entered comes there, unless it was
replaced, given up in one of these two ways, or the program waits in vain.

### ServiceControl

Each thread has a stack of labels, because `service_stop` and
`service_report_status` are called from several places and other threads come
between their statements. `Fill` writes `service_status`, `SetServiceStatus`
hands it over. `Ask`, `Wait`, `Assign` and `Return` are `service_halting`:
`ServiceStop` is read, the event waited for, `ServiceStop` assigned and read
again. `meddled` says that more than one thread may report a stop (a second stop,
an interrogation, a failed start, an exception).

## 3. What the runs check

| run | shows | bounds |
|---|---|---|
| `forwarding_traffic` | pop of what was sent, stable window | 2 logs, one of them captured, 2 records each, clock to 2, application messages at any step |
| `forwarding_faults` | CommitSafe, no second delivery below LastRun and the refinement of EventDelivery, with all failures, a kill at any step and a restart | 1 log, 2 records, clock to 3, two lives, LastRun 0 at first |
| `forwarding_live` | nothing lost, every record sent, LastRun reaches the present | 1 log, 2 records, clock to 3, two lives of the process |
| `forwarding_stop` | *violated*: a graceful stop loses records | as above, stop only |
| `queue` | limits with their overshoot, exclusion, no self-deadlock | 2 producers and the output thread, limits 1 and 2, one notice before the last, one producer and the output thread report |
| `transport` | leak bounded by outages, no stale socket, connected when sending, Courier, every message sent | all modes, mirror or not, 2 messages, 2 outages, Winsock count to 4, a minute of 3 |
| `reader` | nothing stepped over, the window read (with the exceptions of `WindowRead`), nothing twice, the poll ends | 5 records in a log for 3, 1 clear, a record is written up to 1 s after it was made, search ends at distance 2, 2 records a read |
| `resources` | a library is loaded when it is used, an account is its own, the buffer is there, every poll ends | 3 libraries and a table of 3, 3 SIDs and a table of 1, records of 4 sizes, 2 libraries a source, 1 read of each kind |
| `appwatch` | lines in order and none twice, parsed by their own header, ignored lines not sent, every line sent unless the thread ends | all three ways to find a log, 3 lines of 2 pieces, 1 new file in two steps, 1 outage, a failure of every opening, `Block` 3 |
| `applications` | nothing of a line lost, priority and word agree, suggested settings fit; the source chosen last is followed | every line of 3 fields, of which 2 are read and 1 fits the text, with 8 codes and all flags; 2 visits of the dialog, 1 start, every write may fail |
| `service` | no false stop, states in order, a stop noticed | service, control and one worker thread, every failure, clock set back once by 1 s |
| `configuration` | half-written keys read alike, old settings have a reason, edits come to the registry, an agreed restart comes about | 1 event log with 2 types, 3 values of the edited fields, 1 application, 3 inputs |

Why the bounds are enough for the cases that matter:

- Two records and a clock of three seconds give a record before, in and after
  the second that bounds a window, and a record written during a scan. A limit
  of 0 or 1 makes producers wait, as 250 does. Two lives show what a restart
  repeats; two logs show the scan's order and a log that is not captured.
- Two producers pass the same comparison together, which is what overshoots; the
  proofs cover more of them. The limits 1 < 2 keep the order of 250 < 260. Two threads
  that report (`Reporters`) lose increments of each other and undo a reset; with all
  three, the safety properties hold too, but liveness takes too long.
- Two outages put one failure into the recovery from another; a count of four
  is above any that the checked bound on leaks allows. A minute of three seconds
  with an interval of one keeps the wrap of `GetSeconds`.
- Five records in a log for three overwrite during the search, the read and
  between polls. Distance 2 makes the search halve at least once; in the code it
  ends at 200. The proofs hold for every distance of at least 2.
- The table of libraries is full with two (the code empties it one slot early), so
  three libraries, two of them with one name inside the other, fill it twice in a
  poll. Sizes are in units of the standard buffer: 1 fits, 3 grows to 4, 9 to a
  buffer that ReadEventLog refuses (16 > 10), 33 is rejected (64 > 58); these two
  limits are the real ones. One read in each of the two loops suffices to meet
  every size with every buffer, because a poll begins with the buffer of the one
  before.
- Three lines in two files put a line before, into and after a change of files. With
  an outage between them a second rotation is possible, otherwise the first leaves a
  file open (see below); a second new file of a directory that
  comes before the first was found is what `raced` excludes. The invariants were also
  checked with two new files and a `Block` of two. A UNICODE log of three pieces or more
  is one of `Block` or more, and what is written up to the place where the thread begins
  still leaves lines to be sent.
- Two fields that are read are one for each of two codes that meet (date and host, the
  two kinds of status, computer name and address); the chain looks at no third field.
  The third field of a line is one that is not read, and a text of two fields one that
  is cut. Two visits of the dialog are a source and its change into each other one.
- Answers to boxes and timers are not counted as inputs: three inputs are an edit or
  a click, a second one while its question is planned or in the dialog it opened, and
  a third by the user or by others who meanwhile use the service. Types "Success" (with
  its late introduction) and "Warning" (like all the rest) are the two cases of
  both readers.

Bounds are constants: `MaxTime`, `MaxRecords`, `MaxStarts` (Forwarding), `Reporters`
(OutputQueue), `Messages`, `Outages`, `Startups`, `Minute` (Transport), `Writes`,
`Clears`, `Delay`, `MaxTime` (EventLogReader), `Block`, `Lines`, `Rotations`, `Outages`
(AppWatch), `Back` (ServiceControl), `Reads`, `Lists`, `Batch` (EventResources),
`MaxClicks` (Configuration), `FieldLimit`, `Room`, `MaxFields`, `MaxVisits`, `MaxStarts`
(ApplicationSettings). `age` in ServiceControl stops at 2, beyond which the code does
not distinguish. In Transport ages that show the same seconds part are one age, and
Winsock's count stops at `Startups` because a failing mirror with udp raises it for
ever.

Deadlock is checked by `queue`, `forwarding_live` and `forwarding_traffic`. The
others can really stop: a service that was stopped, a clock, a number of records,
lines or inputs that is used up.

The type invariants are theorems (section 4); the runs spend their time on other
properties, and `TypeOK` is there to be added to the `.cfg`.

### Fairness

- `Forwarding`: weak fairness of the clock, of the restart (the service starts
  with Windows), of the service thread and of the output thread as a whole.
  `Send` is an action of the output thread, so its fairness says that the network
  comes back in the end, without which nothing can be promised.
- `OutputQueue`: every thread runs; the mutex is granted in the end (strong
  fairness of `Lock`, as Windows queues the waiters); the network comes back
  (strong fairness of `Sent`). Nothing forces a thread to have anything to log.
- `Transport`: the thread runs and what failed is repaired. Outages are finitely
  many by their bound.
- `EventLogReader`, `AppWatch`: the thread runs, in AppWatch until an opening fails, which
  ends it (`EveryLineSent` names that case). Nothing is assumed of the
  writer, the clock or the network. `OpenFails` and `FindFails` are not fair: the poll
  has to end without the help of a failure.
- `EventResources`: the scan and the control thread run; whether a stop is
  requested, and what Windows returns, is open.
- `ServiceControl`: every thread runs and time goes by. No failure is fair.
- `Configuration`: the program's thread, its timers and the agent run. The user
  need not answer, and nobody need click. `ApplicationSettings` has no liveness.

### What the runs and the README of the agent disagree about

- *Graceful stop* (run `forwarding_stop`): `eventlog_read_events` returns in the
  middle of a log when the service stops (eventlog.cpp:960),
  `eventlog_check_events` ignores that and clears `ReadMoreFromRegistry`, and the
  output thread, if it still runs, commits the window. The unread records are
  never sent. The same happens when a log does not open (914) or an exception is
  raised (1043, where the message says "Will reattempt reading"):
  `AllAccumulatedSent` with `Faults` set to `{"open"}` or `{"exception"}`.

Other disagreements are stated in the modules or excluded by name in a property;
they have no run of their own:

- *Queue limit*: output.cpp:650 says "no more" than 260; with n threads it is n
  more at most (`NoticeLimitKept` against `QueueBounded`, which is proved).
- *Reports halted* (output.cpp:80): an increment of `ErrorCount` that was begun before a
  reset is stored after it, and reports are halted, or said to be, although none was
  made since the last message got through (`HaltedAfterReports`, violated).
- *Recent ping*: `GetSeconds` (output.cpp:450) is the seconds part of the span
  (`ReadyIsPinged`). And with pings `ReadyToSendMessage` may say ready without a
  socket (470; `ReadyIsConnected`).
- *Steady application logs*: they keep the queue from being empty, and no scan is
  ever committed (output.cpp:592): with `AppTraffic` and fair threads
  `EveryRecordSent` fails.
- *Rotated file*: it stays open (appWatch.cpp:288) unless the thread sees an outage
  just then (192-196), and no later rotation can
  rename over it (`RotationHasAChance`); a rotation between `_stat64` and the
  opening loses the end of the old file (`RotationFollowed`). A thread that wakes after
  the renaming and before there is a new file cannot open it and ends for good
  (appWatch.cpp:54-58; `OutlivesRotation`).
- *Long UNICODE logs*: the place 64 KB before the end is computed in bytes
  (appWatch.cpp:167) and taken for characters (89). From 128 KB on it is beyond the end, and
  what is written up to it is not sent (`BeginsAtEnd`).
- *After an outage* half a line is joined with what comes next (appWatch.cpp:204;
  `OneLineEach`); a header that half a line was joined with is not recognised.
- *Headers*: one that is written after its file was opened is not found unless lines
  with the prefix are ignored (and is half skipped if first lines are ignored);
  `parseFieldCodes` empties only the first code when there is no header, and a
  line that ends in LF alone lets it read past the end of the header
  (AppParse.cpp:482).
- *Severity*: without an sc-status a Win32 status changes the word in the brackets
  but not the priority (AppParse.cpp:662, where a comment says "For severity, two
  fields are interesting!"); `SeverityAgrees` excepts it. `s-sitename` is compared
  as a pointer, and `fieldCodeProcessIsPresent` is not initialised: the module
  takes the flag as free.
- *Long lines*: what follows the 31st field of a line is dropped (AppParse.cpp:598),
  and so is what a message of 1024 characters has no room for (AppParse.cpp:744);
  nothing reports it. `NothingLost` excepts both by name.
- *Comment prefix*: the ranges of characters that are not suggested as a prefix
  leave out 0, 9, A, Z, a and z (`NoPrefix`).
- *Removed application*: the start of the agent creates its key again and watches
  the default directory (`RemovedNotStarted`).
- *Closing the window*: if a question is planned, what was edited since is not saved
  (NTSyslogCtrlDlg.cpp:1054; `QuitSaves`), nor is it if the Install button is clicked
  before the timer (841, 293-345); both are `lost` in `edited`. And nobody asks about
  what the timer saved during the last question ("closed" in `reasons`).
- *Libraries*: a library whose name is part of another's is taken for it
  (eventlog.cpp:470); after a stop request the scan may use a freed one.
- *Buffer*: a record above 1.6 MB is rejected, what is behind it in its log is
  never read and yet committed; ReadEventLog refuses the buffer of 16 units that a
  record of more than 8 gets, and a poll that returns before `FreeBigBuffer` leaves
  it to the other logs. A first read that is rejected is taken for one that
  succeeded (eventlog.cpp:931; "dead" in `EventResources`).
- *Accounts*: a SID longer than its slot leaves the SID of another account there
  with its own name (eventlog.cpp:1433); `UserRight` excepts it by `longKnown`.
- *Cleared log*: "same id as before, but new time" (eventlog.cpp:948) compares seconds. A
  record with the number and the TimeGenerated of the one remembered passes for it, and
  what the new log has before it is not read (`ClearNoticed`, violated).
- *Overwritten record*: it ends the poll as if the log were empty (eventlog.cpp:931;
  `SurvivorsRead`).
- *Status after the end*: a second thread that stops the service reports
  SERVICE_STOP_PENDING after SERVICE_STOPPED (`StoppedIsLast`).

## 4. What is proved

All proofs are of the specifications the runs check, for every value of the
constants that satisfies the named assumption of the module.

- **ForwardingProofs**, from `ConstantsAssumption`. `IInv` is the inductive
  invariant: `Handshake` (who may change the flag, and that a scan is over when
  the output thread waits to commit), `Positions` and `Times` (where the cursor
  and the window are), `QueueOK` (what is queued is in the window), and
  `PositionsCovered` and `ScanCovered` (every promised record behind the cursor
  is delivered, queued or abandoned). CommitSafe alone is not inductive: at the
  commit one has to know that the records of the window went through the queue,
  which only the coverage of the scan tells. From it: `TypeOK`, `CommitSafe`,
  `NoResend`, `PopsWhatItSent`, `CommitForward`, `WindowStable`, and `Implements`
  by a step lemma for each action. Without failures (`Faults` empty, but any number
  of kills) nothing is ever abandoned, which gives `AllAccumulatedSent`.
- **OutputQueueProofs**, from `QueueAssumption`. `QInv` counts the threads that have
  compared the size as if they had pushed (`Overshoot`): the limit then grows by one per
  thread and not more. For the notices, `OneNoticeEach` says that from one store of a
  value of `ErrorCount` to the next each thread makes one notice at most (it is then a
  reader of the value), and `OneStoreEach` the same of the stores of the next value;
  only those who read before the reset come in addition. Together they bound the stores
  of a value by `Visits`, a recursive function (`VisitsUnfold`, `StoresBounded`), and
  the notices by it (`NoticesBounded`). With `OneConsumer` (only the output thread
  removes, and what it found) and `Guarded` (who is at the queue owns the mutex, or came
  before it) it gives `QueueBounded`, `Exclusive` and `TypeOK`.
- **MessageProofs**. First part, Transport, from `TransportAssumption`. The invariant
  ties the count of Winsock to the program counter and to `LastTransmitOK`, and the
  number handed over to the number removed; it gives `WinsockUp` and the refinement of
  Courier (`KeepsPromise`). A second invariant on the sockets gives `SendsConnected` and
  `NoStaleSocket`. A third (`Leak`), that one of the calls was undone before WSAStartup
  is called again or an outage is still to be answered, gives `LeakNeedsOutage`. Second
  part, one line of an application log, for lines of any length, any codes, all flags
  and any limits. `Parsed` is what its recursive definition says (`ParsedUnfolds`), and
  an invariant of the fields holds at the end of the line (`LineInduction`): both from
  `Induction`, which takes the induction as a set of numbers and finds the least one
  outside it with `WFMin`, so that no operator is a parameter. `NothingLost`: every
  field so far is accounted for, and what is not found yet is no field, so nothing is
  lost when it is found (`Accounted`); the text is in the order of the line
  (`ParsedOrdered`), so that what is cut off is its end (`TextCut`). `SeverityAgrees`:
  severity and letter change together, and an error without a severity is due to a Win32
  status (`Severity`). `SuggestionFits` compares two runs of `parseMessage` over the
  same line, with all flags and with those suggested: what is found only grows, so a
  flag that is not suggested closes only branches that no field takes; both take the
  same branch for every field (`SameWay`), and the two messages stay alike in all that
  is looked for (`Alike`). `ApplicationLineAssumption` is used only for the length of a
  line and the two limits to be numbers. Third part, `SourceAgrees`: what OK wants is in
  the key or still to be written (`KeyFollows`), and what the agent has read is what was
  wanted (`AgentFollows`). No assumption is needed: it holds for any texts, and for
  dialogs and starts in any order.
- **EventLogReaderProofs**, from `ReaderAssumption`. The invariant says of each place of
  the reader which records are behind it: below `minPos` nothing of the window, below
  `recordCounter` only what was passed on, below `recordOffset` only what is older, if
  the log was not cleared since (`Remembered`), and that times of writing grow with
  record numbers; nothing is assumed of times of generation. It gives
  `NothingSteppedOver`, `WindowRead`, `NotTwice` and `TypeOK`, for every distance,
  buffer and capacity. A second invariant, `Inside`, says that the probe is strictly
  inside its interval or of no record. With it `ReaderDescends` gives the argument
  behind `PollEnds`: every step of the reader in a poll goes onward in a list of eight
  places, narrows the search, reads a later record, or is the one start from scratch;
  the log and its writers do not move the reader. The search needs the distance to be at
  least 2, which `ReaderAssumption` says. What is left to TLC is that fairness makes the
  steps happen, and that the writer stops.
- **ServiceControlProofs**, from `ServiceControlAssumption`. `NoFalseStop` rests
  on the event never being reset. The invariant tells the time before
  `CreateEvent` (`Early`: the stacks have one of five forms, nobody asks) from
  the time after (`Late`: no label leads back), and gives `NoFalseStop` and
  `TypeOK` for any number of threads. `StatusForward` rests on who is about to report
  and on what he reports (`OneStops`): the service thread starts, runs or ends; at
  most one thread is in `service_stop` (`Lone`), it sets the event last, and before
  each report Windows was told the one before (`Told`); workers are there only while
  the service runs. This holds as long as nothing has meddled.
- **EventResourcesProofs**, from `ResourcesAssumption`. `BufferInv`: a buffer is
  allocated exactly if its size is not 0, and from a read that succeeded until the
  next one it holds the record; the scan keeps that read also while it frees a full
  table (`event.dll # None`), but not when it frees at the start of a poll.
  `UserInv`: a valid slot has the account of its own SID, until a long one is
  entered. `LibraryInv`, as long as the service is not being stopped: the slots with
  a name follow each other, each with a library of its own that is loaded
  (`TableInv`; while the slots are freed from the first on, those that are left),
  and the scan knows the names it has compared (`SearchInv`). That the names differ
  is needed: a library with two slots would be freed twice. `IndexInv` keeps the
  scan within the table; the last slot is never used. They give `BufferThere`,
  `UserRight`, `LibraryLive` and `TypeOK` for any libraries, SIDs and sizes of the
  tables and the buffer.

- **AppWatchProofs**, from `AppWatchAssumption`. A thread may be in any of three files
  and opens them again and again, so the proofs count: `Reached` is the number of pieces
  in front of the place where it reads, from the beginning of the first file. `Shape`
  says what holds of the files and of the place in any case, `Follows` that the thread
  is at most one file behind unless `raced`. A thread that began beyond the end
  (`Beyond`) has reached the end, which moves as the file grows, and `Since` says that
  only what comes before `first` passes so. Every step then stands still, begins, lets a
  piece pass, skips the first line of a file or reads a piece (lemma `Moves`), and what
  was taken is exactly what is between `first` and `Reached` (`TakenAll`), also when the
  thread has ended. This gives `LinesInOrder`; with what is known of a file when it is
  opened, it gives `FirstLinesIgnored` and `HeaderKept` (`HeadersRead`: the codes in use
  are those of the file being read, or its header came late), and `TypeOK`. For any
  `Block`, any number of lines, files and outages, and all three ways to find the log.
- **ConfigurationProofs**, from `ConfigurationAssumption` and
  `LoggingSettingsAssumption`. `StaleExplained`: unless there is a reason, what the
  agent has read is in the registry, or a question about it is open or planned, or it
  has not read that value yet (`Fresh`); this needs the shape of the stack, where at
  most one frame is not part of a question (`Nested`), because a timer may ask while the
  program asks. `ReadersAgree`: what the writers can leave in a key, wherever a series
  of writes ended (`RightKeys`), what the open dialog holds (`DialogOK`), and that both
  readers agree on all of that. `TypeOK`: at most three questions are open, because an
  open one, one that is planned and an edit to ask about are three together (`Few`). For
  any logs, texts, applications and number of inputs, and whatever others do with the
  service.

Model-checked only:

- The liveness properties (`EveryRecordSent`, `CatchesUp`, `KeepsSending`,
  `EveryMessageSent`, `PollEnds`, `EveryLineSent`, `StopNoticed`, `ScanReturns`,
  `EditsSaved`, `RestartEnds`), which are beyond the prover; for `PollEnds` the
  descent is proved (`ReaderDescends`).
- `parseFieldCodes`, and what the flags of the dialog do to other lines than the one
  it looked at: no property speaks of them.

Proofs about strings avoid the empty one, which the SMT backend does not take
(`Unset` in `ApplicationSettings`).

## 5. What is not modelled

- The text of messages: the layout of a syslog message (event.cpp, engine.cpp), the
  look-up of error codes in it (`ParseWindowsErrorCodes`), the table of audit texts,
  the forms of a date that `identifyDate` accepts. No property here is about them.
- A host or a process so long that the word in the brackets has no room in the message,
  and a word of more than 1023 characters, which `parseMessage` reads as two.
- A read of a byte 0xFF, which `ernogetc` cannot tell from the end of the file, and
  the contents of UNICODE files.
- A read error of a log file, after which it is closed and opened again at the same place
  (appWatch.cpp:265-276), and an exception in the thread.
- The look-up of the server's name, the choice between icmp.dll and the newer
  function, and the time after which an idle tcp connection is closed.
- list.cpp: the agent fills one list before its threads start and walks through it
  from one thread.
- NTService.cpp: each method of CNTServiceControl is one call of Windows, and
  stands as that call in `Configuration`. Of the framework CNTService only `Install` is
  used, by the Install button (NTSyslogCtrlDlg.cpp:835), and is part of that action.
- In the configuration program: the TCP button, which is hidden
  (NTSyslogCtrlDlg.cpp:282), the choice of another computer, the About box.
- The permissions of the registry key, crash dumps.
- A peer that keeps a tcp connection and never reads: the thread stays in the
  WSAEWOULDBLOCK loop (output.cpp:366).

## 6. The plan

Done, in this order: Forwarding and EventDelivery; OutputQueue; Transport and
Courier; EventLogReader; AppWatch; ServiceControl; LoggingSettings and
Configuration; ApplicationLine and ApplicationSettings; AppWatch in directory mode,
with headers; EventResources.

Proved since: `StatusForward`, `LeakNeedsOutage`, `AllAccumulatedSent`,
`ReadersAgree`, `StaleExplained`, `LinesInOrder`, `HeaderKept`, `FirstLinesIgnored`,
`SourceAgrees`, `NothingLost`, `SeverityAgrees`, `SuggestionFits`: every safety property
of the runs.

Next: a composition of AppWatch, OutputQueue and Transport through `LastTransmitOK`.
