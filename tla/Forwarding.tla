------------------------------ MODULE Forwarding ------------------------------
(***************************************************************************)
(* The core of the service: the main thread scans the Windows event logs   *)
(* and puts the selected records on the output queue (ntsl.cpp,            *)
(* eventlog.cpp); the output thread sends the queue and, once a scan is    *)
(* complete and everything it queued is sent, writes the scan's end time   *)
(* to the registry (output.cpp).  The two meet in three unlocked globals:  *)
(* the queue, thisrun and ReadMoreFromRegistry.                            *)
(*                                                                         *)
(* The process can be killed and started again at any point; only the      *)
(* event logs and the registry survive.                                    *)
(***************************************************************************)
EXTENDS Naturals, Sequences, FiniteSets

CONSTANTS
  NLogs,       \* number of event logs in eventlog_list
  Captured,    \* the logs whose captureFlags are not EVENTLOG_NO_FLAGS
  QueueLimit,  \* a producer waits while the queue is longer (250 in the code)
  Faults,      \* which of the failures below the environment may produce
  AppTraffic,  \* whether application log watchers feed the same queue
  Install,     \* LastRun in the registry when the agent is first started
  MaxTime,     \* bound on the clock
  MaxRecords,  \* bound on the records of one log
  MaxStarts    \* bound on the number of times the process is started

FaultKinds == {"stop",       \* the service is told to stop
               "open",       \* OpenEventLog fails
               "read",       \* ReadEventLog fails inside a log
               "exception",  \* formatting a record raises an SEH exception
               "registry"}   \* a registry call fails

ASSUME ConstantsAssumption ==
  /\ NLogs \in Nat \ {0}
  /\ Captured \subseteq 1..NLogs
  /\ QueueLimit \in Nat
  /\ Faults \subseteq FaultKinds
  /\ AppTraffic \in BOOLEAN
  /\ MaxTime \in Nat \ {0}
  /\ Install \in 0..1
  /\ MaxRecords \in Nat
  /\ MaxStarts \in Nat

VARIABLES
  clock,      \* time(), in seconds
  evlog,      \* [Logs -> Seq(Record)], the event logs
  lastRun,    \* the registry value LastRun
  starts,     \* how often the process was started
  running,    \* the process exists
  halting,    \* service_halting() would return true
  rpc,        \* where the main thread is
  lr,         \* its local copy of LastRun
  thisrun,    \* global: end of the scan's window
  cur,        \* position in eventlog_list
  cursor,     \* recordCounter
  bufEnd,     \* record number of the last record in the event buffer
  initial,    \* ThisIsInitialLoop
  offset,     \* [Logs -> Nat]: recordOffset of each log, 0 is "unknown"
  readMore,   \* global: ReadMoreFromRegistry
  queue,      \* global: messQueue
  opc,        \* where the output thread is
  mess,       \* its copy of the queue's front
  delivered,  \* history: the records handed to the network
  abandoned,  \* history: the records a scan walked away from
  since       \* history: the first non-zero LastRun

world  == <<clock, evlog>>
reader == <<rpc, lr, thisrun, cur, cursor, bufEnd, initial, offset>>
output == <<opc, mess>>
disk   == <<lastRun, since>>
life   == <<starts, running>>
ghost  == <<delivered, abandoned>>
vars   == <<world, reader, output, disk, life, ghost, halting, readMore, queue>>

Logs == 1..NLogs

\* ok: the record passes eventlog_check_event and the event id filter.
Record == [time : 1..MaxTime, ok : BOOLEAN]

\* What the queue holds: a record's log and number, or an application message.
App == <<0, 0>>
Entry == (Logs \X Nat) \cup {App}

At(e) == evlog[e[1]][e[2]]

Queued == {queue[k] : k \in 1..Len(queue)}

Init ==
  /\ clock = 1
  /\ evlog = [l \in Logs |-> <<>>]
  /\ lastRun = Install
  /\ since = Install
  /\ starts = 0
  /\ running = FALSE
  /\ halting = FALSE
  /\ rpc = "down" /\ lr = 0 /\ thisrun = 0 /\ cur = 1 /\ cursor = 1
  /\ bufEnd = 0 /\ initial = FALSE /\ offset = [l \in Logs |-> 0]
  /\ readMore = FALSE
  /\ queue = <<>>
  /\ opc = "down" /\ mess = App
  /\ delivered = {}
  /\ abandoned = {}
-----------------------------------------------------------------------------
(* The environment: the clock, the event log service, the other threads.   *)

Tick ==
  /\ clock < MaxTime
  /\ clock' = clock + 1
  /\ UNCHANGED <<evlog, reader, output, disk, life, ghost, halting, readMore, queue>>

WriteRecord(l, ok) ==
  /\ Len(evlog[l]) < MaxRecords
  /\ evlog' = [evlog EXCEPT ![l] = Append(@, [time |-> clock, ok |-> ok])]
  /\ UNCHANGED <<clock, reader, output, disk, life, ghost, halting, readMore, queue>>

\* An AppWatch thread calls insertIntoOutputQueue.
AppMessage ==
  /\ AppTraffic
  /\ running
  /\ Len(queue) <= QueueLimit
  /\ queue' = Append(queue, App)
  /\ UNCHANGED <<world, reader, output, disk, life, ghost, halting, readMore>>

\* The service control manager asks the service to stop.
RequestStop ==
  /\ "stop" \in Faults
  /\ running
  /\ ~halting
  /\ halting' = TRUE
  /\ UNCHANGED <<world, reader, output, disk, life, ghost, readMore, queue>>
-----------------------------------------------------------------------------
(* Process start and end: globals are zero, queue and buffers are empty.   *)

Start ==
  /\ ~running
  /\ starts < MaxStarts
  /\ starts' = starts + 1
  /\ running' = TRUE
  /\ rpc' = "poll"
  /\ opc' = "init"
  /\ UNCHANGED <<world, lr, thisrun, cur, cursor, bufEnd, initial, offset, mess,
                 disk, ghost, halting, readMore, queue>>

\* All that is in memory is gone.
Vanish ==
  /\ running' = FALSE
  /\ halting' = FALSE
  /\ rpc' = "down" /\ lr' = 0 /\ thisrun' = 0 /\ cur' = 1 /\ cursor' = 1
  /\ bufEnd' = 0 /\ initial' = FALSE /\ offset' = [l \in Logs |-> 0]
  /\ readMore' = FALSE
  /\ queue' = <<>>
  /\ opc' = "down" /\ mess' = App
  /\ UNCHANGED <<world, disk, starts, ghost>>

\* Power loss, or the process is terminated; the last life is not cut short.
Kill == running /\ starts < MaxStarts /\ Vanish

\* ntsl_run returns, service_main ends, and with it every other thread.
ProcessExit == rpc = "exit" /\ Vanish
-----------------------------------------------------------------------------
(* The main thread: ntsl_run, eventlog_check_events, eventlog_read_events. *)

\* Mutant of InWindow: the window's first second is left out.
InWindowAfter(e, from) == At(e).time > from /\ At(e).time < thisrun

InWindow(e, from) == At(e).time >= from /\ At(e).time < thisrun

\* Mutant of Eligible: only the end of the window is tested.
EligibleAnyAge(e) == At(e).ok /\ At(e).time < thisrun

\* A record the scan puts on the queue.
Eligible(e) == At(e).ok /\ InWindow(e, lr)

\* The scan goes on with the next log of the list.
NextLog ==
  /\ rpc' = IF cur < NLogs THEN "open" ELSE "done"
  /\ cur' = IF cur < NLogs THEN cur + 1 ELSE cur
  /\ initial' = TRUE

\* The scan leaves the current log before its end; the caller ignores the -1.
LeaveLog(from) ==
  /\ NextLog
  /\ abandoned' = abandoned \cup
       {e \in {cur} \X (from..Len(evlog[cur])) : InWindow(e, lr)}

\* A query error of the registry value is taken for the value 0, and 0 for a
\* new installation: no log is read.
Poll ==
  /\ rpc = "poll"
  /\ IF ~readMore
       THEN rpc' = "sleep" /\ UNCHANGED <<lr, thisrun, cur, initial>>
       ELSE /\ thisrun' = clock
            /\ lr' = lastRun
            /\ cur' = 1
            /\ initial' = TRUE
            /\ rpc' = IF lastRun > 0 THEN "open" ELSE "done"
  /\ UNCHANGED <<world, cursor, bufEnd, offset, output, disk, life, ghost,
                 halting, readMore, queue>>

\* RegOpenKeyEx fails: the scan is put off.
PollNoKey ==
  /\ "registry" \in Faults
  /\ rpc = "poll" /\ readMore
  /\ thisrun' = clock
  /\ rpc' = "sleep"
  /\ UNCHANGED <<world, lr, cur, cursor, bufEnd, initial, offset, output, disk,
                 life, ghost, halting, readMore, queue>>

\* RegQueryValueEx fails: LastRun is taken for 0 and the window is skipped.
PollNoValue ==
  /\ "registry" \in Faults
  /\ rpc = "poll" /\ readMore
  /\ thisrun' = clock
  /\ lr' = 0
  /\ rpc' = "done"
  /\ abandoned' = abandoned \cup
       {e \in Logs \X (1..MaxRecords) :
          /\ e[2] <= Len(evlog[e[1]])
          /\ At(e).time >= lastRun /\ At(e).time < clock}
  /\ UNCHANGED <<world, cur, cursor, bufEnd, initial, offset, output, disk,
                 life, delivered, halting, readMore, queue>>

\* FindFirstReadPos: some record that no record of the window precedes.
ReadPositions(l) ==
  {p \in 1..Len(evlog[l]) : \A i \in 1..(p - 1) : evlog[l][i].time < lr}

OpenLog ==
  /\ rpc = "open"
  /\ cur \in Captured
  /\ ~halting
  /\ IF offset[cur] = 0 /\ evlog[cur] = <<>>
       THEN NextLog /\ UNCHANGED <<cursor, offset>>
       ELSE /\ rpc' = "read"
            /\ cursor' \in IF offset[cur] = 0 THEN ReadPositions(cur) ELSE {offset[cur]}
            /\ offset' = [offset EXCEPT ![cur] = cursor']
            /\ UNCHANGED <<cur, initial>>
  /\ UNCHANGED <<world, lr, thisrun, bufEnd, output, disk, life, ghost, halting,
                 readMore, queue>>

\* captureFlags is EVENTLOG_NO_FLAGS.
SkipLog ==
  /\ rpc = "open"
  /\ cur \notin Captured
  /\ NextLog
  /\ UNCHANGED <<world, lr, thisrun, cursor, bufEnd, offset, output, disk, life,
                 ghost, halting, readMore, queue>>

\* The service is stopping, or OpenEventLog or the very first read fails.
OpenFails ==
  /\ rpc = "open"
  /\ cur \in Captured
  /\ halting \/ "open" \in Faults
  /\ LeaveLog(IF offset[cur] = 0 THEN 1 ELSE offset[cur])
  /\ UNCHANGED <<world, lr, thisrun, cursor, bufEnd, offset, output, disk, life,
                 delivered, halting, readMore, queue>>

\* The buffer holds one or more records, as many as fit.
ReadBuffer ==
  /\ rpc = "read"
  /\ cursor <= Len(evlog[cur])
  /\ ~halting
  /\ bufEnd' \in cursor..Len(evlog[cur])
  /\ initial' = FALSE
  /\ rpc' = "record"
  /\ UNCHANGED <<world, lr, thisrun, cur, cursor, offset, output, disk, life,
                 ghost, halting, readMore, queue>>

EndOfLog ==
  /\ rpc = "read"
  /\ cursor > Len(evlog[cur])
  /\ NextLog
  /\ UNCHANGED <<world, lr, thisrun, cursor, bufEnd, offset, output, disk, life,
                 ghost, halting, readMore, queue>>

\* The stop flag is looked at after each successful read of the log.
StopReading ==
  /\ rpc = "read"
  /\ cursor <= Len(evlog[cur])
  /\ halting
  /\ LeaveLog(cursor)
  /\ UNCHANGED <<world, lr, thisrun, cursor, bufEnd, offset, output, disk, life,
                 delivered, halting, readMore, queue>>

\* Before any record of the log was read, a failing read means that the log was
\* cleared: its position is forgotten and the log opened again, once.
ReadFails ==
  /\ "read" \in Faults
  /\ rpc = "read"
  /\ cursor <= Len(evlog[cur])
  /\ \/ /\ initial
        /\ initial' = FALSE
        /\ offset' = [offset EXCEPT ![cur] = 0]
        /\ rpc' = "open"
        /\ UNCHANGED <<cur, abandoned>>
     \/ /\ ~initial
        /\ LeaveLog(cursor)
        /\ UNCHANGED offset
  /\ UNCHANGED <<world, lr, thisrun, cursor, bufEnd, output, disk, life,
                 delivered, halting, readMore, queue>>

\* Mutant of Advance: the position moves over records of the current second.
AdvanceAlways ==
  /\ cursor' = cursor + 1
  /\ rpc' = IF cursor < bufEnd THEN "record" ELSE "read"
  /\ offset' = [offset EXCEPT ![cur] = cursor]
  /\ UNCHANGED <<world, lr, thisrun, cur, bufEnd, initial, output, disk, life,
                 delivered, halting, readMore>>

\* The read position moves to the record if it is older than the window's end.
Advance ==
  /\ cursor' = cursor + 1
  /\ rpc' = IF cursor < bufEnd THEN "record" ELSE "read"
  /\ offset' = IF evlog[cur][cursor].time < thisrun
                 THEN [offset EXCEPT ![cur] = cursor] ELSE offset
  /\ UNCHANGED <<world, lr, thisrun, cur, bufEnd, initial, output, disk, life,
                 delivered, halting, readMore>>

\* engine_process_event and insertIntoOutputQueue; waits for room.
QueueRecord ==
  /\ rpc = "record"
  /\ Eligible(<<cur, cursor>>)
  /\ Len(queue) <= QueueLimit
  /\ queue' = Append(queue, <<cur, cursor>>)
  /\ Advance
  /\ UNCHANGED abandoned

\* insertIntoOutputQueue gives up waiting for room when the service stops.
DropRecord ==
  /\ rpc = "record"
  /\ Eligible(<<cur, cursor>>)
  /\ Len(queue) > QueueLimit
  /\ halting
  /\ abandoned' = abandoned \cup {<<cur, cursor>>}
  /\ Advance
  /\ UNCHANGED queue

IgnoreRecord ==
  /\ rpc = "record"
  /\ ~Eligible(<<cur, cursor>>)
  /\ Advance
  /\ UNCHANGED <<queue, abandoned>>

\* The handler of eventlog_read_events leaves the log.
RecordException ==
  /\ "exception" \in Faults
  /\ rpc = "record"
  /\ Eligible(<<cur, cursor>>)
  /\ LeaveLog(cursor)
  /\ UNCHANGED <<world, lr, thisrun, cursor, bufEnd, offset, output, disk, life,
                 delivered, halting, readMore, queue>>

\* The end of eventlog_check_events: the output thread may commit.
ScanDone ==
  /\ rpc = "done"
  /\ readMore' = FALSE
  /\ rpc' = "sleep"
  /\ UNCHANGED <<world, lr, thisrun, cur, cursor, bufEnd, initial, offset, output,
                 disk, life, ghost, halting, queue>>

\* The poll interval; a stop ends the loop.
Sleep ==
  /\ rpc = "sleep"
  /\ rpc' = IF halting THEN "exit" ELSE "poll"
  /\ UNCHANGED <<world, lr, thisrun, cur, cursor, bufEnd, initial, offset, output,
                 disk, life, ghost, halting, readMore, queue>>
-----------------------------------------------------------------------------
(* The output thread: outputMain.                                          *)

OutputInit ==
  /\ opc = "init"
  /\ readMore' = TRUE
  /\ opc' = "loop"
  /\ UNCHANGED <<world, reader, mess, disk, life, ghost, halting, queue>>

\* Mutant of Look: the newest message is sent first.
LookAtBack ==
  /\ opc = "loop"
  /\ IF queue # <<>>
       THEN mess' = queue[Len(queue)] /\ opc' = "send"
       ELSE UNCHANGED mess /\ opc' = "idle"
  /\ UNCHANGED <<world, reader, disk, life, ghost, halting, readMore, queue>>

\* The first, unlocked look at the queue.
Look ==
  /\ opc = "loop"
  /\ IF queue # <<>>
       THEN mess' = Head(queue) /\ opc' = "send"
       ELSE UNCHANGED mess /\ opc' = "idle"
  /\ UNCHANGED <<world, reader, disk, life, ghost, halting, readMore, queue>>

\* ReadyToSendMessage and TransmitMessage succeed; retries are in Transport.
Send ==
  /\ opc = "send"
  /\ opc' = "pop"
  /\ delivered' = IF mess = App THEN delivered ELSE delivered \cup {mess}
  /\ UNCHANGED <<world, reader, mess, disk, life, abandoned, halting, readMore, queue>>

\* The network is down and Slumber notices the stop: the thread ends.
GiveUp ==
  /\ opc = "send"
  /\ halting
  /\ opc' = "gone"
  /\ UNCHANGED <<world, reader, mess, disk, life, ghost, halting, readMore, queue>>

Pop ==
  /\ opc = "pop"
  /\ queue' = Tail(queue)
  /\ opc' = "loop"
  /\ UNCHANGED <<world, reader, mess, disk, life, ghost, halting, readMore>>

\* ReadMoreFromRegistry is read first ...
SeeScan ==
  /\ opc = "idle"
  /\ opc' = IF readMore THEN "pause" ELSE "recheck"
  /\ UNCHANGED <<world, reader, mess, disk, life, ghost, halting, readMore, queue>>

\* Mutant of Recheck: the queue is not looked at a second time.
RecheckSkipped ==
  /\ opc = "recheck"
  /\ opc' = "commit"
  /\ UNCHANGED <<world, reader, mess, disk, life, ghost, halting, readMore, queue>>

\* Mutant of Recheck: the main thread is released before LastRun is written.
RecheckReleases ==
  /\ opc = "recheck"
  /\ opc' = IF queue = <<>> THEN "commit" ELSE "pause"
  /\ readMore' = (queue = <<>>)
  /\ UNCHANGED <<world, reader, mess, disk, life, ghost, halting, queue>>

\* ... and the queue once more after it.
Recheck ==
  /\ opc = "recheck"
  /\ opc' = IF queue = <<>> THEN "commit" ELSE "pause"
  /\ UNCHANGED <<world, reader, mess, disk, life, ghost, halting, readMore, queue>>

\* Mutant of WriteLastRun: the current time is written.
WriteLastRunNow ==
  /\ opc = "commit"
  /\ lastRun' = clock
  /\ since' = IF lastRun = 0 THEN thisrun ELSE since
  /\ opc' = "release"
  /\ UNCHANGED <<world, reader, mess, life, ghost, halting, readMore, queue>>

\* eventlog_write_lastrun.
WriteLastRun ==
  /\ opc = "commit"
  /\ lastRun' = thisrun
  /\ since' = IF lastRun = 0 THEN thisrun ELSE since
  /\ opc' = "release"
  /\ UNCHANGED <<world, reader, mess, life, ghost, halting, readMore, queue>>

\* RegOpenKeyEx fails, which nobody is told; or RegSetValueEx does, and
\* ntsl_die stops the service.
WriteLastRunFails ==
  /\ "registry" \in Faults
  /\ opc = "commit"
  /\ halting' \in {halting, TRUE}
  /\ opc' = "release"
  /\ UNCHANGED <<world, reader, mess, disk, life, ghost, readMore, queue>>

\* Mutant of Release: the main thread is not told that the commit is done.
ReleaseForgotten ==
  /\ opc = "release"
  /\ opc' = "pause"
  /\ UNCHANGED <<world, reader, mess, disk, life, ghost, halting, readMore, queue>>

Release ==
  /\ opc = "release"
  /\ readMore' = TRUE
  /\ opc' = "pause"
  /\ UNCHANGED <<world, reader, mess, disk, life, ghost, halting, queue>>

Pause ==
  /\ opc = "pause"
  /\ opc' = IF halting THEN "gone" ELSE "loop"
  /\ UNCHANGED <<world, reader, mess, disk, life, ghost, halting, readMore, queue>>
-----------------------------------------------------------------------------
Environment == \/ Tick
               \/ \E l \in Logs, ok \in BOOLEAN : WriteRecord(l, ok)
               \/ AppMessage
               \/ RequestStop
               \/ Start
               \/ Kill

MainThread == \/ Poll \/ PollNoKey \/ PollNoValue
              \/ OpenLog \/ SkipLog \/ OpenFails
              \/ ReadBuffer \/ EndOfLog \/ StopReading \/ ReadFails
              \/ QueueRecord \/ DropRecord \/ IgnoreRecord \/ RecordException
              \/ ScanDone \/ Sleep \/ ProcessExit

OutputThread == \/ OutputInit \/ Look \/ Send \/ GiveUp \/ Pop
                \/ SeeScan \/ Recheck \/ WriteLastRun \/ WriteLastRunFails
                \/ Release \/ Pause

Next == Environment \/ MainThread \/ OutputThread

Spec == Init /\ [][Next]_vars

\* The threads are scheduled by Windows, the clock ticks, the service control
\* manager restarts the service, and the network does not stay down for ever
\* (Send is part of OutputThread).
Fairness == /\ WF_vars(Tick)
            /\ WF_vars(Start)
            /\ WF_vars(MainThread)
            /\ WF_vars(OutputThread)

FairSpec == Spec /\ Fairness

\* The main thread is not starved by the watchers when it waits for room.
StrongFairSpec == FairSpec /\ SF_vars(QueueRecord)
-----------------------------------------------------------------------------
RpcValues == {"down", "poll", "open", "read", "record", "done", "sleep", "exit"}
OpcValues == {"down", "init", "loop", "send", "pop", "idle", "recheck", "commit",
              "release", "pause", "gone"}

Flags ==
  /\ running \in BOOLEAN /\ halting \in BOOLEAN /\ initial \in BOOLEAN
  /\ readMore \in BOOLEAN /\ rpc \in RpcValues /\ opc \in OpcValues

Numbers ==
  /\ clock \in 1..MaxTime /\ lr \in 0..MaxTime /\ thisrun \in 0..MaxTime
  /\ lastRun \in 0..MaxTime /\ since \in 0..MaxTime /\ starts \in 0..MaxStarts

LogTypes ==
  /\ evlog \in [Logs -> Seq(Record)]
  /\ \A l \in Logs : Len(evlog[l]) <= MaxRecords

ScanTypes ==
  cur \in Logs /\ cursor \in Nat /\ bufEnd \in Nat /\ offset \in [Logs -> Nat]

QueueTypes ==
  /\ queue \in Seq(Entry) /\ mess \in Entry
  /\ delivered \subseteq Entry /\ abandoned \subseteq Entry

\* Every variable has its type: the main thread stays inside the list of logs
\* and both threads at a known place.
TypeOK == Flags /\ Numbers /\ LogTypes /\ ScanTypes /\ QueueTypes

\* A record the agent was asked to forward.
Promised(l, i) ==
  /\ l \in Captured /\ i \in 1..Len(evlog[l])
  /\ evlog[l][i].ok /\ evlog[l][i].time >= since

\* Whatever the registry claims to be done was handed to the network, across
\* kills, restarts and records written during a scan, unless a scan walked
\* away from it (the handshake of eventlog_check_events and outputMain).
CommitSafe ==
  \A l \in Logs : \A i \in 1..Len(evlog[l]) :
    Promised(l, i) /\ evlog[l][i].time < lastRun
      => <<l, i>> \in delivered \cup abandoned

\* Nothing at all is lost: the README's "all the accumulated event logs are
\* transmitted", for the records the registry claims to be done.
AllAccumulatedSent ==
  \A l \in Logs : \A i \in 1..Len(evlog[l]) :
    Promised(l, i) /\ evlog[l][i].time < lastRun => <<l, i>> \in delivered

\* No record is sent again once LastRun has passed it: a restart repeats at
\* most the window that was not committed.
NoResend ==
  \A e \in Queued \ {App} : At(e).time >= lastRun

\* The output thread removes the entry it sent, although others append to the
\* queue between front() and pop().
PopsWhatItSent ==
  opc \in {"send", "pop"} => queue # <<>> /\ Head(queue) = mess

\* The window is not touched between the end of a scan and its commit
\* (thisrun is written by the main thread and read by the output thread).
WindowStable ==
  [][opc = "commit" /\ running' => thisrun' = thisrun /\ ~readMore']_vars

\* LastRun moves forward, and only to a time that is over.
CommitForward ==
  [][lastRun' # lastRun => lastRun' > lastRun /\ lastRun' <= clock]_vars

\* Every record the agent was asked for is sent in the end, however often the
\* process is killed (records of the last second stay in the open window).
EveryRecordSent ==
  \A l \in Captured, i \in 1..MaxRecords :
    (Promised(l, i) /\ evlog[l][i].time < MaxTime)
      ~> (~Promised(l, i) \/ <<l, i>> \in delivered)

\* LastRun catches up with the clock: no scan waits for ever for its commit.
CatchesUp == <>[](lastRun = MaxTime)

-----------------------------------------------------------------------------
(* The inductive invariant of the handshake.                               *)

Scanning == rpc \in {"open", "read", "record"}

\* A scan is complete and waits for the output thread.
Pending == opc \notin {"down", "init"} /\ ~readMore

Covered(l, i) == <<l, i>> \in delivered \cup abandoned \cup Queued

\* The scan in progress is past record i of log l.
Scanned(l, i) ==
  \/ l < cur
  \/ l = cur /\ rpc \in {"read", "record"} /\ i < cursor

\* Which thread may be where: the two never hold the window together.
Handshake ==
  /\ Scanning \/ rpc = "done" => readMore
  /\ opc \in {"init", "recheck", "commit", "release"} => ~readMore
  /\ running <=> rpc # "down"
  /\ running <=> opc # "down"
  /\ ~running \/ opc = "init" => \A l \in Logs : offset[l] = 0
  /\ ~running => ~readMore /\ ~halting

\* Read positions stay inside their logs.
Positions ==
  /\ \A l \in Logs : offset[l] <= Len(evlog[l])
  /\ rpc \in {"read", "record"} => cursor > 0 /\ cur \in Captured
  /\ rpc = "record" => cursor <= bufEnd /\ bufEnd <= Len(evlog[cur])

\* Clock, records, window and registry are ordered in time.
Times ==
  /\ \A l \in Logs : \A i, j \in 1..Len(evlog[l]) :
       i <= j => evlog[l][i].time <= evlog[l][j].time
  /\ \A l \in Logs : \A i \in 1..Len(evlog[l]) : evlog[l][i].time <= clock
  /\ since <= lastRun /\ lastRun <= clock /\ thisrun <= clock
  /\ Scanning \/ rpc = "done" \/ Pending => lastRun <= thisrun /\ thisrun > 0
  /\ Scanning => lr = lastRun /\ lastRun > 0
  /\ lastRun = 0 => \A l \in Logs : offset[l] = 0

\* What is on the queue is a selected record of the open window, or not a record.
QueueOK ==
  /\ \A e \in Queued \ {App} :
       /\ e[1] \in Captured /\ e[2] \in 1..Len(evlog[e[1]])
       /\ At(e).ok /\ At(e).time >= lastRun
  /\ opc = "commit" => Queued \subseteq {App}
  /\ PopsWhatItSent
  /\ opc = "pop" => mess \in delivered \cup {App}

\* Records the main thread is past are covered: by its positions, by the scan
\* in progress, and by a complete scan.
PositionsCovered ==
  \A l \in Logs : \A i \in 1..Len(evlog[l]) :
    Promised(l, i) /\ i < offset[l] /\ evlog[l][i].time >= lastRun => Covered(l, i)

ScanCovered ==
  \A l \in Logs : \A i \in 1..Len(evlog[l]) :
    /\ Promised(l, i) /\ lastRun > 0
    /\ evlog[l][i].time >= lastRun /\ evlog[l][i].time < thisrun
    /\ \/ Scanning /\ Scanned(l, i)
       \/ rpc = "done"
       \/ Pending
    => Covered(l, i)

IInv ==
  /\ TypeOK /\ Handshake /\ Positions /\ Times /\ QueueOK
  /\ CommitSafe /\ PositionsCovered /\ ScanCovered
-----------------------------------------------------------------------------
\* The abstract promise.
Abstract == INSTANCE EventDelivery
              WITH Times <- 1..MaxTime, committed <- lastRun, forfeited <- abandoned
Implements == Abstract!Spec
=============================================================================
