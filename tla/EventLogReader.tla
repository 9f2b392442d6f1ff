----------------------------- MODULE EventLogReader ----------------------------
(***************************************************************************)
(* Reading one Windows event log (eventlog.cpp): FindFirstReadPos looks    *)
(* for a place to start with a search by halves, eventlog_read_events      *)
(* reads from there to the end, and the next poll goes on from the record  *)
(* it remembers. Meanwhile the log is written, its oldest records are      *)
(* overwritten, and somebody may clear it, after which record numbers      *)
(* start from 1 again.                                                     *)
(*                                                                         *)
(* What becomes of the records that are read, and of the commit of         *)
(* LastRun, is in Forwarding.                                              *)
(***************************************************************************)
EXTENDS Integers, FiniteSets

CONSTANTS
  Near,        \* the search ends when its ends are nearer (200 in the code)
  Buffer,      \* how many records one ReadEventLog returns at most
  Capacity,    \* how many records the log keeps
  Writes,      \* bound on the number of records written
  Clears,      \* bound on the number of times the log is cleared
  Delay,       \* bound on the time from the making of a record to its writing
  MaxTime      \* bound on the clock

ASSUME ReaderAssumption ==
  /\ Near \in Nat /\ Near >= 2
  /\ Buffer \in Nat \ {0} /\ Capacity \in Nat \ {0}
  /\ Writes \in Nat /\ Clears \in Nat /\ Delay \in Nat /\ MaxTime \in Nat

VARIABLES
  now,               \* time()
  oldest, newest,    \* the records of the log are oldest..newest
  written,           \* TimeWritten of each of them: the window goes by it
  generated,         \* TimeGenerated: a record is recognised by it
  writes, clears,    \* how often the log was written and cleared
  lastrun, thisrun,  \* the window of the poll
  recordOffset,      \* where the next poll goes on, 0: not known
  verificationTime,  \* TimeGenerated of that record
  pc,                \* where the reader is
  initial,           \* ThisIsInitialLoop
  minPos, maxPos, probe,   \* FindFirstReadPos
  recordCounter,     \* where to read next; before that, FindFirstReadPos's result
  queued,            \* history: the records of this log and this process passed on
  twice,             \* history: one of them more than once
  disturbed,         \* history: records were overwritten in this poll
  confused,          \* history: the log was cleared during a poll
  cleared,           \* history: the log was cleared since recordOffset was set
  mistaken           \* history: in this poll another record was taken for the one
                     \* remembered, which had its number and its TimeGenerated

clock    == <<now, lastrun, thisrun>>
records  == <<oldest, newest, written, generated, writes, clears>>
position == <<recordOffset, verificationTime>>
search   == <<minPos, maxPos, probe>>
history  == <<queued, twice, disturbed, confused, cleared, mistaken>>
vars     == <<clock, records, position, pc, initial, search, recordCounter, history>>

Log == oldest..newest

Init ==
  /\ now = 0 /\ lastrun = 0 /\ thisrun = 0
  /\ oldest = 1 /\ newest = 0 /\ written = << >> /\ generated = << >>
  /\ writes = 0 /\ clears = 0
  /\ recordOffset = 0 /\ verificationTime = 0
  /\ pc = "idle" /\ initial = TRUE
  /\ minPos = 0 /\ maxPos = 0 /\ probe = 0 /\ recordCounter = 0
  /\ queued = {} /\ twice = FALSE /\ disturbed = FALSE /\ confused = FALSE
  /\ cleared = FALSE /\ mistaken = FALSE
-----------------------------------------------------------------------------
(* The log and the process.                                                *)

Tick ==
  /\ now < MaxTime
  /\ now' = now + 1
  /\ UNCHANGED <<lastrun, thisrun, records, position, pc, initial, search,
                 recordCounter, history>>

\* A record is written; in a full log the oldest makes room.
Write ==
  /\ writes < Writes
  /\ writes' = writes + 1
  /\ newest' = newest + 1
  /\ oldest' = IF Cardinality(Log) < Capacity THEN oldest ELSE oldest + 1
  /\ written' = [n \in oldest'..newest' |-> IF n = newest' THEN now ELSE written[n]]
  /\ \E delay \in 0..Delay :
       /\ delay <= now
       /\ generated' =
            [n \in oldest'..newest' |-> IF n = newest' THEN now - delay ELSE generated[n]]
  /\ disturbed' = (disturbed \/ (pc # "idle" /\ oldest' # oldest))
  /\ UNCHANGED <<clock, clears, position, pc, initial, search, recordCounter,
                 queued, twice, confused, cleared, mistaken>>

Clear ==
  /\ clears < Clears
  /\ clears' = clears + 1
  /\ oldest' = 1 /\ newest' = 0 /\ written' = << >> /\ generated' = << >>
  /\ queued' = {}
  /\ confused' = (confused \/ pc # "idle")
  /\ cleared' = TRUE
  /\ UNCHANGED <<clock, writes, position, pc, initial, search, recordCounter,
                 twice, disturbed, mistaken>>

\* The process ends and starts again; only LastRun survives.
Restart ==
  /\ pc' = "idle"
  /\ recordOffset' = 0 /\ verificationTime' = 0
  /\ minPos' = 0 /\ maxPos' = 0 /\ probe' = 0 /\ recordCounter' = 0
  /\ queued' = {} /\ confused' = FALSE /\ cleared' = FALSE
  /\ UNCHANGED <<clock, records, initial, twice, disturbed, mistaken>>
-----------------------------------------------------------------------------
(* A poll.                                                                 *)

Poll ==
  /\ pc = "idle"
  /\ thisrun' = now
  /\ initial' = TRUE
  /\ disturbed' = FALSE /\ mistaken' = FALSE
  /\ pc' = "open"
  /\ UNCHANGED <<now, lastrun, records, position, search, recordCounter,
                 queued, twice, confused, cleared>>

\* LabelForResettedEventLog
OpenLog ==
  /\ pc = "open"
  /\ recordCounter' = recordOffset
  /\ pc' = IF recordOffset = 0 THEN "findmin" ELSE "read"
  /\ UNCHANGED <<clock, records, position, initial, search, history>>

OpenFails ==
  /\ pc = "open"
  /\ pc' = "failed"
  /\ UNCHANGED <<clock, records, position, initial, search, recordCounter, history>>
-----------------------------------------------------------------------------
(* FindFirstReadPos                                                        *)

\* It returns n, and its variables are gone.
Return(n) ==
  /\ recordCounter' = n
  /\ minPos' = 0 /\ maxPos' = 0 /\ probe' = 0
  /\ pc' = "position"
  /\ UNCHANGED <<clock, records, position, initial, history>>

FindMin ==
  /\ pc = "findmin"
  /\ Log # {}
  /\ minPos' = oldest
  /\ pc' = "findmax"
  /\ UNCHANGED <<clock, records, position, initial, maxPos, probe, recordCounter, history>>

\* The number of no record.
Beyond == 0

\* maxPos - minPos is unsigned: in a log cleared in between the first probe is
\* beyond every record.
FindMax ==
  /\ pc = "findmax"
  /\ Log # {}
  /\ maxPos' = newest
  /\ probe' = IF minPos <= newest THEN minPos + (9 * (newest - minPos)) \div 10
                                 ELSE Beyond
  /\ pc' = "search"
  /\ UNCHANGED <<clock, records, position, initial, minPos, recordCounter, history>>

\* The log is empty: "just go from the beginning".
FindNothing ==
  /\ pc \in {"findmin", "findmax"}
  /\ Log = {}
  /\ Return(0)

\* The log cannot be opened or read.
FindFails ==
  /\ pc \in {"findmin", "findmax", "search"}
  /\ Return(0)

\* maxPos - minPos is unsigned: of a log cleared in between it is not small.
NearEnough == minPos <= maxPos /\ maxPos - minPos < Near

\* The probe may be gone from the log.
Found ==
  /\ pc = "search"
  /\ NearEnough \/ probe \notin Log
  /\ Return(minPos)

\* Mutant of Halve: a record of the very second of lastrun counts as older.
HalveLater ==
  /\ pc = "search"
  /\ ~NearEnough /\ probe \in Log
  /\ IF written[probe] > lastrun
       THEN maxPos' = probe /\ UNCHANGED minPos
       ELSE minPos' = probe /\ UNCHANGED maxPos
  /\ probe' = (minPos' + maxPos') \div 2
  /\ UNCHANGED <<clock, records, position, pc, initial, recordCounter, history>>

Halve ==
  /\ pc = "search"
  /\ ~NearEnough /\ probe \in Log
  /\ IF written[probe] >= lastrun
       THEN maxPos' = probe /\ UNCHANGED minPos
       ELSE minPos' = probe /\ UNCHANGED maxPos
  /\ probe' = (minPos' + maxPos') \div 2
  /\ UNCHANGED <<clock, records, position, pc, initial, recordCounter, history>>
-----------------------------------------------------------------------------
(* eventlog_read_events                                                    *)

\* The record to start from, at first.
First == IF recordCounter = 0 THEN oldest ELSE recordCounter

Position ==
  /\ pc = "position"
  /\ First \in Log
  /\ recordCounter' = First
  /\ recordOffset' = First
  /\ verificationTime' = generated[First]
  /\ cleared' = FALSE
  /\ pc' = "read"
  /\ UNCHANGED <<clock, records, initial, search, queued, twice, disturbed, confused, mistaken>>

\* "totally empty eventlog, or error; eject"
Eject ==
  /\ pc = "position"
  /\ First \notin Log
  /\ pc' = "done"
  /\ UNCHANGED <<clock, records, position, initial, search, recordCounter, history>>

\* Mutant of Changed: the number alone is compared.
ChangedNumber == initial /\ recordCounter \notin Log

\* The record at recordOffset is not the one remembered, or is gone.
Changed == initial /\ (recordCounter \in Log => generated[recordCounter] # verificationTime)

\* The log was cleared, and this cannot be told by the record at recordOffset.
Mistaken == initial /\ cleared /\ generated[recordCounter] = verificationTime

\* Mutant of StartFromScratch: nothing remembers that it was done.
StartForEver ==
  /\ pc = "read"
  /\ Changed
  /\ pc' = "open"
  /\ UNCHANGED <<clock, records, position, initial, search, recordCounter, history>>

StartFromScratch ==
  /\ pc = "read"
  /\ Changed
  /\ recordOffset' = 0
  /\ initial' = FALSE
  /\ pc' = "open"
  /\ UNCHANGED <<clock, records, verificationTime, search, recordCounter, history>>

\* Mutant of InWindow: the window includes its last second.
InClosedWindow(n) == lastrun <= written[n] /\ written[n] <= thisrun

InWindow(n) == lastrun <= written[n] /\ written[n] < thisrun

\* The records up to last are read and gone through.
Read(last) ==
  LET batch == recordCounter..last
      seen  == {n \in batch : written[n] < thisrun}
      pass  == {n \in batch : InWindow(n)}
  IN  /\ queued' = queued \cup pass
      /\ twice' = (twice \/ pass \cap queued # {})
      /\ IF seen = {}
           THEN UNCHANGED <<position, cleared>>
           ELSE /\ \E n \in seen :
                     /\ \A other \in seen : other <= n
                     /\ recordOffset' = n
                     /\ verificationTime' = generated[n]
                /\ cleared' = FALSE
      /\ recordCounter' = last + 1

ReadBuffer ==
  /\ pc = "read"
  /\ ~Changed
  /\ \E last \in Log :
       /\ recordCounter <= last /\ last < recordCounter + Buffer
       /\ recordCounter \in Log
       /\ Read(last)
  /\ initial' = FALSE
  /\ mistaken' = (mistaken \/ Mistaken)
  /\ UNCHANGED <<clock, records, pc, search, disturbed, confused>>

EndOfLog ==
  /\ pc = "read"
  /\ ~initial
  /\ recordCounter \notin Log
  /\ pc' = "done"
  /\ UNCHANGED <<clock, records, position, initial, search, recordCounter, history>>

\* What was read is sent, and the window is committed, even if it was not read.
Commit ==
  /\ pc \in {"done", "failed"}
  /\ lastrun' = thisrun
  /\ recordCounter' = 0
  /\ pc' = "idle"
  /\ UNCHANGED <<now, thisrun, records, position, initial, search, history>>
-----------------------------------------------------------------------------
Environment == Tick \/ Write \/ Clear \/ Restart

FindFirstReadPos == FindMin \/ FindMax \/ FindNothing \/ Found \/ Halve

\* What the reader does while the log can be opened and read.
Reader == \/ Poll \/ OpenLog
          \/ FindFirstReadPos
          \/ Position \/ Eject \/ StartFromScratch \/ ReadBuffer \/ EndOfLog
          \/ Commit

Failure == OpenFails \/ FindFails

Next == Environment \/ Reader \/ Failure

Spec == Init /\ [][Next]_vars

\* The reader's thread runs; nothing has to fail.
FairSpec == Spec /\ WF_vars(Reader)
-----------------------------------------------------------------------------
\* Every variable has its type.
TypeOK ==
  /\ now \in Nat /\ lastrun \in Nat /\ thisrun \in Nat
  /\ oldest \in Nat \ {0} /\ newest \in Nat /\ newest >= oldest - 1
  /\ written \in [Log -> Nat] /\ generated \in [Log -> Nat]
  /\ writes \in Nat /\ clears \in Nat
  /\ recordOffset \in Nat /\ verificationTime \in Nat
  /\ pc \in {"idle", "open", "findmin", "findmax", "search", "position", "read", "done",
            "failed"}
  /\ initial \in BOOLEAN
  /\ minPos \in Nat /\ maxPos \in Nat /\ probe \in Int /\ recordCounter \in Nat
  /\ queued \in SUBSET Nat
  /\ twice \in BOOLEAN /\ disturbed \in BOOLEAN /\ confused \in BOOLEAN
  /\ cleared \in BOOLEAN /\ mistaken \in BOOLEAN

\* FindFirstReadPos never steps over a record of the window, however the log
\* grows while it searches.
NothingSteppedOver ==
  pc \in {"findmax", "search"} /\ ~confused =>
    \A n \in Log : n < minPos => written[n] < lastrun

\* When the poll is over every record of the window that is in the log was passed on,
\* whatever was overwritten or cleared before it: a log that was cleared is noticed by the
\* record at recordOffset, unless that has the TimeGenerated of the one remembered.
WindowRead ==
  pc = "done" /\ ~disturbed /\ ~confused /\ ~mistaken =>
    \A n \in Log : InWindow(n) => n \in queued

\* "same id as before, but new time": the same without the exception. The code does not
\* keep this: the time is one of a second.
ClearNoticed ==
  pc = "done" /\ ~disturbed /\ ~confused => \A n \in Log : InWindow(n) => n \in queued

\* "all the accumulated event logs are transmitted": the same, whatever is
\* overwritten or cleared during the poll. The code does not keep this.
SurvivorsRead ==
  pc = "done" => \A n \in Log : InWindow(n) => n \in queued

\* No record is passed on twice by the same process.
NotTwice == ~twice

\* The poll comes to an end while the log is written.
PollEnds == (pc = "open") ~> pc \in {"done", "failed", "idle"}
=============================================================================
