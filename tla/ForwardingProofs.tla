-------------------------- MODULE ForwardingProofs --------------------------
(***************************************************************************)
(* Proofs about Forwarding, for any number of logs and records, any queue  *)
(* limit, any selection of failures and any number of restarts.            *)
(***************************************************************************)
EXTENDS Forwarding, TLAPS

\* What an append does to the entries of a sequence.
LEMMA AppendElements ==
  ASSUME NEW S, NEW q \in Seq(S), NEW e \in S, NEW r, r = Append(q, e)
  PROVE  {r[k] : k \in 1..Len(r)} = {q[k] : k \in 1..Len(q)} \cup {e}
<1>1. Len(r) = Len(q) + 1 /\ Len(q) \in Nat /\ r[Len(q) + 1] = e
  OBVIOUS
<1>2. \A k \in 1..Len(q) : r[k] = q[k]
  OBVIOUS
<1>3. 1..Len(r) = 1..Len(q) \cup {Len(q) + 1}
  BY <1>1
<1>4. QED BY <1>1, <1>2, <1>3

\* What removing the front does to them.
LEMMA TailElements ==
  ASSUME NEW S, NEW q \in Seq(S), q # <<>>, NEW r, r = Tail(q)
  PROVE  /\ {r[k] : k \in 1..Len(r)} \subseteq {q[k] : k \in 1..Len(q)}
         /\ {q[k] : k \in 1..Len(q)} \subseteq {r[k] : k \in 1..Len(r)} \cup {Head(q)}
<1>1. Len(q) \in Nat \ {0} /\ Len(r) = Len(q) - 1
  OBVIOUS
<1>2. \A k \in 1..Len(r) : r[k] = q[k + 1] /\ k + 1 \in 1..Len(q)
  BY <1>1
<1>3. \A k \in 1..Len(q) : q[k] = Head(q) \/ (k - 1 \in 1..Len(r) /\ q[k] = r[k - 1])
  BY <1>1, <1>2
<1>4. {r[k] : k \in 1..Len(r)} \subseteq {q[k] : k \in 1..Len(q)}
  BY <1>2
<1>5. {q[k] : k \in 1..Len(q)} \subseteq {r[k] : k \in 1..Len(r)} \cup {Head(q)}
  BY <1>3
<1>6. QED BY <1>4, <1>5

USE DEF vars, world, reader, output, disk, life, ghost
-----------------------------------------------------------------------------
(* Which steps change what.                                                *)

\* Only Windows appends to an event log.
LEMMA LogFrame ==
  ASSUME [Next]_vars
  PROVE  evlog' = evlog \/ \E l \in Logs, ok \in BOOLEAN : WriteRecord(l, ok)
BY DEF Next, Environment, MainThread, OutputThread, Tick, WriteRecord,
       AppMessage, RequestStop, Start, Kill, Poll, PollNoKey, PollNoValue,
       OpenLog, SkipLog, OpenFails, ReadBuffer, EndOfLog, StopReading,
       ReadFails, QueueRecord, DropRecord, IgnoreRecord, RecordException,
       ScanDone, Sleep, ProcessExit, NextLog, LeaveLog, Advance, OutputInit,
       Look, Send, GiveUp, Pop, SeeScan, Recheck, WriteLastRun,
       WriteLastRunFails, Release, Pause, Vanish

\* Only the output thread writes LastRun.
LEMMA DiskFrame ==
  ASSUME [Next]_vars, ~WriteLastRun
  PROVE  lastRun' = lastRun /\ since' = since
BY DEF Next, Environment, MainThread, OutputThread, Tick, WriteRecord,
       AppMessage, RequestStop, Start, Kill, Poll, PollNoKey, PollNoValue,
       OpenLog, SkipLog, OpenFails, ReadBuffer, EndOfLog, StopReading,
       ReadFails, QueueRecord, DropRecord, IgnoreRecord, RecordException,
       ScanDone, Sleep, ProcessExit, NextLog, LeaveLog, Advance, OutputInit,
       Look, Send, GiveUp, Pop, SeeScan, Recheck, WriteLastRunFails, Release,
       Pause, Vanish

\* Only time moves the clock.
LEMMA ClockFrame ==
  ASSUME [Next]_vars, ~Tick
  PROVE  clock' = clock
BY DEF Next, Environment, MainThread, OutputThread, WriteRecord, AppMessage,
       RequestStop, Start, Kill, Poll, PollNoKey, PollNoValue, OpenLog,
       SkipLog, OpenFails, ReadBuffer, EndOfLog, StopReading, ReadFails,
       QueueRecord, DropRecord, IgnoreRecord, RecordException, ScanDone, Sleep,
       ProcessExit, NextLog, LeaveLog, Advance, OutputInit, Look, Send, GiveUp,
       Pop, SeeScan, Recheck, WriteLastRun, WriteLastRunFails, Release, Pause,
       Vanish

\* Only a start counts the starts.
LEMMA StartsFrame ==
  ASSUME [Next]_vars, ~Start
  PROVE  starts' = starts
BY DEF Next, Environment, MainThread, OutputThread, Tick, WriteRecord,
       AppMessage, RequestStop, Kill, Poll, PollNoKey, PollNoValue, OpenLog,
       SkipLog, OpenFails, ReadBuffer, EndOfLog, StopReading, ReadFails,
       QueueRecord, DropRecord, IgnoreRecord, RecordException, ScanDone, Sleep,
       ProcessExit, NextLog, LeaveLog, Advance, OutputInit, Look, Send, GiveUp,
       Pop, SeeScan, Recheck, WriteLastRun, WriteLastRunFails, Release, Pause,
       Vanish

\* What was handed over or walked away from stays so.
LEMMA HistoryFrame ==
  ASSUME [Next]_vars
  PROVE  delivered \subseteq delivered' /\ abandoned \subseteq abandoned'
BY DEF Next, Environment, MainThread, OutputThread, Tick, WriteRecord,
       AppMessage, RequestStop, Start, Kill, Poll, PollNoKey, PollNoValue,
       OpenLog, SkipLog, OpenFails, ReadBuffer, EndOfLog, StopReading,
       ReadFails, QueueRecord, DropRecord, IgnoreRecord, RecordException,
       ScanDone, Sleep, ProcessExit, NextLog, LeaveLog, Advance, OutputInit,
       Look, Send, GiveUp, Pop, SeeScan, Recheck, WriteLastRun,
       WriteLastRunFails, Release, Pause, Vanish

\* The steps by which a scan walks away from records.
LEMMA AbandonedFrame ==
  ASSUME [Next]_vars, ~PollNoValue, ~OpenFails, ~StopReading, ~ReadFails,
         ~RecordException, ~DropRecord
  PROVE  abandoned' = abandoned
BY DEF Next, Environment, MainThread, OutputThread, Tick, WriteRecord,
       AppMessage, RequestStop, Start, Kill, Poll, PollNoKey, OpenLog, SkipLog,
       ReadBuffer, EndOfLog, QueueRecord, IgnoreRecord, ScanDone, Sleep,
       ProcessExit, NextLog, LeaveLog, Advance, OutputInit, Look, Send, GiveUp,
       Pop, SeeScan, Recheck, WriteLastRun, WriteLastRunFails, Release, Pause,
       Vanish

\* Two producers, one consumer.
LEMMA QueueFrame ==
  ASSUME [Next]_vars, ~AppMessage, ~QueueRecord, ~Pop, ~Vanish
  PROVE  queue' = queue
BY DEF Next, Environment, MainThread, OutputThread, Tick, WriteRecord,
       RequestStop, Start, Kill, Poll, PollNoKey, PollNoValue, OpenLog,
       SkipLog, OpenFails, ReadBuffer, EndOfLog, StopReading, ReadFails,
       DropRecord, IgnoreRecord, RecordException, ScanDone, Sleep, ProcessExit,
       NextLog, LeaveLog, Advance, OutputInit, Look, Send, GiveUp, SeeScan,
       Recheck, WriteLastRun, WriteLastRunFails, Release, Pause

\* The read positions belong to the main thread.
LEMMA OffsetFrame ==
  ASSUME [Next]_vars, ~OpenLog, ~ReadFails, ~QueueRecord, ~DropRecord,
         ~IgnoreRecord, ~Vanish
  PROVE  offset' = offset
BY DEF Next, Environment, MainThread, OutputThread, Tick, WriteRecord,
       AppMessage, RequestStop, Start, Kill, Poll, PollNoKey, PollNoValue,
       SkipLog, OpenFails, ReadBuffer, EndOfLog, StopReading, RecordException,
       ScanDone, Sleep, ProcessExit, NextLog, LeaveLog, Advance, OutputInit,
       Look, Send, GiveUp, Pop, SeeScan, Recheck, WriteLastRun,
       WriteLastRunFails, Release, Pause

\* The position in the scan belongs to it too.
LEMMA ScanFrame ==
  ASSUME [Next]_vars, ~MainThread, ~Start, ~Vanish
  PROVE  UNCHANGED reader
BY DEF Next, Environment, OutputThread, Tick, WriteRecord, AppMessage,
       RequestStop, Kill, Poll, PollNoKey, PollNoValue, OpenLog, SkipLog,
       OpenFails, ReadBuffer, EndOfLog, StopReading, ReadFails, QueueRecord,
       DropRecord, IgnoreRecord, RecordException, ScanDone, Sleep, ProcessExit,
       NextLog, LeaveLog, Advance, OutputInit, Look, Send, GiveUp, Pop,
       SeeScan, Recheck, WriteLastRun, WriteLastRunFails, Release, Pause

\* The scan's window is set when the scan begins.
LEMMA WindowFrame ==
  ASSUME [Next]_vars, ~Poll, ~PollNoKey, ~PollNoValue, ~Vanish
  PROVE  thisrun' = thisrun /\ lr' = lr
BY DEF Next, Environment, MainThread, OutputThread, Tick, WriteRecord,
       AppMessage, RequestStop, Start, Kill, OpenLog, SkipLog, OpenFails,
       ReadBuffer, EndOfLog, StopReading, ReadFails, QueueRecord, DropRecord,
       IgnoreRecord, RecordException, ScanDone, Sleep, ProcessExit, NextLog,
       LeaveLog, Advance, OutputInit, Look, Send, GiveUp, Pop, SeeScan,
       Recheck, WriteLastRun, WriteLastRunFails, Release, Pause

\* The output thread's place is its own.
LEMMA OutputFrame ==
  ASSUME [Next]_vars, ~OutputThread, ~Start, ~Vanish
  PROVE  opc' = opc /\ mess' = mess
BY DEF Next, Environment, MainThread, Tick, WriteRecord, AppMessage,
       RequestStop, Kill, Poll, PollNoKey, PollNoValue, OpenLog, SkipLog,
       OpenFails, ReadBuffer, EndOfLog, StopReading, ReadFails, QueueRecord,
       DropRecord, IgnoreRecord, RecordException, ScanDone, Sleep, ProcessExit,
       NextLog, LeaveLog, Advance, OutputInit, Look, Send, GiveUp, Pop,
       SeeScan, Recheck, WriteLastRun, WriteLastRunFails, Release, Pause
-----------------------------------------------------------------------------
(* Types.                                                                  *)

\* The flags and the places of the two threads keep their types.
LEMMA FlagsStep == ASSUME Flags, [Next]_vars PROVE Flags'
<1>1. CASE Vanish
  BY <1>1 DEF Vanish, Flags, RpcValues, OpcValues
<1>2. CASE ~Vanish /\ Environment
  BY <1>2, ZenonT(30) DEF Environment, Tick, WriteRecord, AppMessage, RequestStop, Start, Kill,
              Flags, RpcValues, OpcValues
<1>3. CASE ~Vanish /\ MainThread
  BY <1>3 DEF MainThread, Poll, PollNoKey, PollNoValue, OpenLog, SkipLog, OpenFails,
              ReadBuffer, EndOfLog, StopReading, ReadFails, QueueRecord, DropRecord,
              IgnoreRecord, RecordException, ScanDone, Sleep, ProcessExit, NextLog,
              LeaveLog, Advance, Flags, RpcValues
<1>4. CASE OutputThread
  BY <1>4 DEF OutputThread, OutputInit, Look, Send, GiveUp, Pop, SeeScan, Recheck,
              WriteLastRun, WriteLastRunFails, Release, Pause, Flags, OpcValues
<1>5. CASE UNCHANGED vars
  BY <1>5 DEF Flags
<1>6. QED BY <1>1, <1>2, <1>3, <1>4, <1>5 DEF Next

\* Times and counters stay in range: lr and thisrun are copies of
\* LastRun and of the clock.
LEMMA NumbersStep == ASSUME TypeOK, [Next]_vars PROVE Numbers'
<1> USE ConstantsAssumption DEF TypeOK, Numbers
<1>1. clock' \in 1..MaxTime
  BY ClockFrame DEF Tick
<1>2. starts' \in 0..MaxStarts
  <2>1. CASE Start
    BY <2>1 DEF Start
  <2>2. QED BY <2>1, StartsFrame
<1>3. lr' \in 0..MaxTime /\ thisrun' \in 0..MaxTime
  <2>1. CASE Poll
    BY <2>1 DEF Poll
  <2>2. CASE PollNoKey
    BY <2>2 DEF PollNoKey
  <2>3. CASE PollNoValue
    BY <2>3 DEF PollNoValue
  <2>4. CASE Vanish
    BY <2>4 DEF Vanish
  <2>5. QED BY <2>1, <2>2, <2>3, <2>4, WindowFrame
<1>4. lastRun' \in 0..MaxTime /\ since' \in 0..MaxTime
  BY DiskFrame DEF WriteLastRun
<1>5. QED BY <1>1, <1>2, <1>3, <1>4

\* The event logs stay sequences of records.
LEMMA LogTypesStep == ASSUME TypeOK, [Next]_vars PROVE LogTypes'
<1>1. ASSUME NEW l \in Logs, NEW ok \in BOOLEAN, WriteRecord(l, ok)
      PROVE  LogTypes'
  <2> DEFINE r == [time |-> clock, ok |-> ok]
  <2>1. r \in Record
    BY DEF Record, TypeOK, Numbers
  <2>2. evlog[l] \in Seq(Record) /\ Len(evlog[l]) < MaxRecords
    BY <1>1 DEF WriteRecord, TypeOK, LogTypes
  <2>3. Append(evlog[l], r) \in Seq(Record) /\ Len(Append(evlog[l], r)) <= MaxRecords
    BY <2>1, <2>2, ConstantsAssumption
  <2>4. evlog' = [evlog EXCEPT ![l] = Append(evlog[l], r)]
    BY <1>1 DEF WriteRecord
  <2> HIDE DEF r
  <2>5. QED BY <2>3, <2>4 DEF TypeOK, LogTypes
<1>2. QED BY <1>1, LogFrame DEF TypeOK, LogTypes

\* eventlog_check_events stays inside eventlog_list.
LEMMA ScanTypesStep == ASSUME TypeOK, [Next]_vars PROVE ScanTypes'
<1> USE ConstantsAssumption DEF TypeOK, ScanTypes, Logs
<1>1. ASSUME NEW p \in ReadPositions(cur) PROVE p \in Nat
  BY <1>1 DEF ReadPositions, LogTypes
<1>2. CASE Start
  BY <1>2 DEF Start
<1>3. CASE Vanish
  BY <1>3 DEF Vanish
<1>4. ASSUME MainThread PROVE ScanTypes'
  <2>1. CASE Poll \/ PollNoKey \/ PollNoValue \/ ScanDone \/ Sleep
    BY <2>1 DEF Poll, PollNoKey, PollNoValue, ScanDone, Sleep
  <2>2. CASE OpenLog
    <3>1. cursor' \in Nat
      BY <1>1, <2>2 DEF OpenLog
    <3>2. QED BY <2>2, <3>1 DEF OpenLog, NextLog
  <2>3. CASE SkipLog \/ OpenFails \/ EndOfLog \/ StopReading \/ RecordException
    BY <2>3, SMTT(30) DEF SkipLog, OpenFails, EndOfLog, StopReading, RecordException, NextLog,
                LeaveLog
  <2>4. CASE ReadBuffer
    BY <2>4 DEF ReadBuffer, LogTypes
  <2>5. CASE ReadFails
    <3>1. cur' \in Logs
      BY <2>5 DEF ReadFails, LeaveLog, NextLog
    <3>2. offset' \in [Logs -> Nat]
      BY <2>5 DEF ReadFails
    <3>3. QED BY <2>5, <3>1, <3>2 DEF ReadFails
  <2>6. CASE QueueRecord \/ DropRecord \/ IgnoreRecord
    <3>1. Advance
      BY <2>6 DEF QueueRecord, DropRecord, IgnoreRecord
    <3>2. QED BY <3>1 DEF Advance
  <2>7. CASE ProcessExit
    BY <2>7, <1>3 DEF ProcessExit
  <2>8. QED BY <1>4, <2>1, <2>2, <2>3, <2>4, <2>5, <2>6, <2>7 DEF MainThread
<1>5. QED BY <1>2, <1>3, <1>4, ScanFrame DEF reader

\* A set of records of one log, as walking away from it adds to the history.
LEMMA LeaveLogTypes ==
  ASSUME TypeOK, NEW from \in Nat, LeaveLog(from)
  PROVE  abandoned' \subseteq Entry
<1>1. {cur} \X (from..Len(evlog[cur])) \subseteq Entry
  BY DEF TypeOK, ScanTypes, LogTypes, Entry
<1>2. QED BY <1>1 DEF LeaveLog, TypeOK, QueueTypes

\* What is abandoned are entries.
LEMMA AbandonedStep == ASSUME TypeOK, [Next]_vars PROVE abandoned' \subseteq Entry
<1> USE ConstantsAssumption DEF TypeOK, QueueTypes, ScanTypes
<1>1. CASE PollNoValue
  BY <1>1 DEF PollNoValue, Entry, Logs
<1>2. CASE OpenFails
  <2>1. (IF offset[cur] = 0 THEN 1 ELSE offset[cur]) \in Nat
    OBVIOUS
  <2>2. QED BY <1>2, <2>1, LeaveLogTypes DEF OpenFails
<1>3. CASE StopReading
  BY <1>3, LeaveLogTypes DEF StopReading
<1>4. CASE ReadFails
  BY <1>4, LeaveLogTypes DEF ReadFails
<1>5. CASE RecordException
  BY <1>5, LeaveLogTypes DEF RecordException
<1>6. CASE DropRecord
  BY <1>6 DEF DropRecord, Entry
<1>7. QED BY <1>1, <1>2, <1>3, <1>4, <1>5, <1>6, AbandonedFrame

\* The queue stays a sequence of entries: pop() never meets an empty one.
LEMMA QueueTypesStep ==
  ASSUME TypeOK, PopsWhatItSent, [Next]_vars
  PROVE  QueueTypes'
<1> USE DEF TypeOK, QueueTypes
<1>1. CASE AppMessage
  <2>1. App \in Entry
    BY DEF Entry
  <2>2. QED BY <1>1, <2>1 DEF AppMessage
<1>2. CASE QueueRecord
  <2>1. <<cur, cursor>> \in Entry
    BY DEF Entry, ScanTypes
  <2>2. QED BY <1>2, <2>1 DEF QueueRecord, Advance
<1>3. CASE Pop
  <2>1. Tail(queue) \in Seq(Entry)
    BY <1>3 DEF Pop, PopsWhatItSent
  <2>2. QED BY <1>3, <2>1 DEF Pop
<1>4. CASE Vanish
  BY <1>4 DEF Vanish, Entry
<1>5. CASE Look
  <2>1. queue # <<>> => Head(queue) \in Entry
    OBVIOUS
  <2>2. QED BY <1>5, <2>1 DEF Look
<1>6. CASE Send
  BY <1>6 DEF Send
<1>7. delivered' = delivered \/ Send
  BY DEF Next, Environment, MainThread, OutputThread, Tick, WriteRecord,
         AppMessage, RequestStop, Start, Kill, Poll, PollNoKey, PollNoValue,
         OpenLog, SkipLog, OpenFails, ReadBuffer, EndOfLog, StopReading,
         ReadFails, QueueRecord, DropRecord, IgnoreRecord, RecordException,
         ScanDone, Sleep, ProcessExit, NextLog, LeaveLog, Advance, OutputInit,
         Look, GiveUp, Pop, SeeScan, Recheck, WriteLastRun, WriteLastRunFails,
         Release, Pause, Vanish
<1>8. mess' = mess \/ Look \/ Vanish
  BY DEF Next, Environment, MainThread, OutputThread, Tick, WriteRecord,
         AppMessage, RequestStop, Start, Kill, Poll, PollNoKey, PollNoValue,
         OpenLog, SkipLog, OpenFails, ReadBuffer, EndOfLog, StopReading,
         ReadFails, QueueRecord, DropRecord, IgnoreRecord, RecordException,
         ScanDone, Sleep, ProcessExit, NextLog, LeaveLog, Advance, OutputInit,
         Send, GiveUp, Pop, SeeScan, Recheck, WriteLastRun, WriteLastRunFails,
         Release, Pause
<1>9. QED BY <1>1, <1>2, <1>3, <1>4, <1>5, <1>6, <1>7, <1>8, QueueFrame, AbandonedStep

\* TypeOK is kept.
LEMMA TypeStep == ASSUME TypeOK, PopsWhatItSent, [Next]_vars PROVE TypeOK'
BY FlagsStep, NumbersStep, LogTypesStep, ScanTypesStep, QueueTypesStep DEF TypeOK

-----------------------------------------------------------------------------
(* The handshake, the positions and the order of times.                    *)

\* ReadMoreFromRegistry keeps the threads apart: Handshake is kept.
LEMMA HandshakeStep ==
  ASSUME TypeOK, Handshake, [Next]_vars
  PROVE  Handshake'
<1> USE DEF TypeOK, Flags, ScanTypes, Handshake, Scanning
<1>1. CASE Vanish
  BY <1>1 DEF Vanish
<1>2. CASE ~Vanish /\ Environment
  <2>1. CASE Start
    BY <2>1 DEF Start
  <2>2. CASE ~Start
    <3>1. ~Kill
      BY <1>2 DEF Kill
    <3>2. UNCHANGED <<rpc, opc, running, readMore, offset>>
      BY <1>2, <2>2, <3>1 DEF Environment, Tick, WriteRecord, AppMessage, RequestStop
    <3>3. halting' = halting \/ running
      BY <1>2, <2>2, <3>1 DEF Environment, Tick, WriteRecord, AppMessage, RequestStop
    <3>4. QED BY <3>2, <3>3
  <2>3. QED BY <2>1, <2>2
<1>3. CASE ~Vanish /\ MainThread
  <2>1. readMore /\ (Scanning \/ rpc = "done") => opc \notin {"init",
         "recheck", "commit", "release"}
    OBVIOUS
  <2>2. UNCHANGED <<opc, running, halting>>
    BY <1>3 DEF MainThread, Poll, PollNoKey, PollNoValue, OpenLog, SkipLog, OpenFails,
              ReadBuffer, EndOfLog, StopReading, ReadFails, QueueRecord, DropRecord,
              IgnoreRecord, RecordException, ScanDone, Sleep, ProcessExit, Advance
  <2>3. CASE Poll \/ PollNoKey \/ PollNoValue \/ ScanDone \/ Sleep
    BY <2>3, <2>2 DEF Poll, PollNoKey, PollNoValue, ScanDone, Sleep
  <2>4. CASE ~(Poll \/ PollNoKey \/ PollNoValue \/ ScanDone \/ Sleep)
    <3>1. Scanning /\ readMore' = readMore /\ rpc' \in {"open", "read", "record", "done"}
      BY <1>3, <2>4 DEF MainThread, OpenLog, SkipLog, OpenFails,
              ReadBuffer, EndOfLog, StopReading, ReadFails, QueueRecord, DropRecord,
              IgnoreRecord, RecordException, ProcessExit, Advance, NextLog, LeaveLog
    <3>2. QED BY <3>1, <2>1, <2>2
  <2>5. QED BY <2>3, <2>4
<1>4. CASE OutputThread
  <2>1. UNCHANGED <<rpc, offset, running>> /\ opc # "down" /\ opc' \notin {"down", "init"}
    BY <1>4 DEF OutputThread, OutputInit, Look, Send, GiveUp, Pop, SeeScan, Recheck,
              WriteLastRun, WriteLastRunFails, Release, Pause
  <2>2. (~Scanning /\ rpc # "done") \/ readMore'
    BY <1>4 DEF OutputThread, OutputInit, Look, Send, GiveUp, Pop, SeeScan, Recheck,
              WriteLastRun, WriteLastRunFails, Release, Pause
  <2>3. opc' \in {"recheck", "commit", "release"} => ~readMore'
    BY <1>4 DEF OutputThread, OutputInit, Look, Send, GiveUp, Pop, SeeScan, Recheck,
              WriteLastRun, WriteLastRunFails, Release, Pause
  <2>4. running
    BY <2>1
  <2>5. QED BY <2>1, <2>2, <2>3, <2>4
<1>5. CASE UNCHANGED vars
  BY <1>5
<1>6. QED BY <1>1, <1>2, <1>3, <1>4, <1>5 DEF Next

\* The read positions stay inside the logs.
LEMMA PositionsStep ==
  ASSUME TypeOK, Handshake, Positions, [Next]_vars
  PROVE  Positions'
<1> USE DEF TypeOK, Positions, ScanTypes, LogTypes
<1>1. \A l \in Logs : Len(evlog[l]) \in Nat /\ Len(evlog'[l]) \in Nat
                      /\ Len(evlog[l]) <= Len(evlog'[l])
  <2>1. ASSUME NEW l \in Logs, NEW ok \in BOOLEAN, WriteRecord(l, ok),
               NEW m \in Logs
        PROVE  Len(evlog[m]) \in Nat /\ Len(evlog'[m]) \in Nat
               /\ Len(evlog[m]) <= Len(evlog'[m])
    BY <2>1 DEF WriteRecord
  <2>2. QED BY <2>1, LogFrame
<1>2. CASE Vanish
  BY <1>2, <1>1 DEF Vanish
<1>3. CASE Start
  BY <1>3 DEF Start
<1>4. ASSUME MainThread, ~Vanish PROVE Positions'
  <2>1. CASE Poll \/ PollNoKey \/ PollNoValue \/ ScanDone \/ Sleep
    BY <2>1 DEF Poll, PollNoKey, PollNoValue, ScanDone, Sleep
  <2>2. CASE OpenLog
    <3>1. ReadPositions(cur) \subseteq 1..Len(evlog[cur])
      BY DEF ReadPositions
    <3>2. QED BY <2>2, <3>1 DEF OpenLog, NextLog
  <2>3. CASE SkipLog \/ OpenFails \/ EndOfLog \/ StopReading \/ RecordException
    BY <2>3 DEF SkipLog, OpenFails, EndOfLog, StopReading, RecordException, NextLog,
                LeaveLog
  <2>4. CASE ReadBuffer
    BY <2>4, <1>1 DEF ReadBuffer
  <2>5. CASE ReadFails
    <3>1. rpc' \in {"open", "done"} /\ evlog' = evlog
      BY <2>5 DEF ReadFails, LeaveLog, NextLog
    <3>2. \A l \in Logs : offset'[l] <= Len(evlog[l])
      BY <2>5, <1>1 DEF ReadFails
    <3>3. QED BY <3>1, <3>2
  <2>6. CASE QueueRecord \/ DropRecord \/ IgnoreRecord
    <3>1. Advance /\ rpc = "record"
      BY <2>6 DEF QueueRecord, DropRecord, IgnoreRecord
    <3>2. cursor \in 1..Len(evlog[cur])
      BY <3>1, <1>1
    <3>3. QED BY <3>1, <3>2 DEF Advance
  <2>7. QED BY <1>4, <2>1, <2>2, <2>3, <2>4, <2>5, <2>6 DEF MainThread, ProcessExit
<1>5. CASE UNCHANGED reader
  BY <1>1, <1>5
<1>6. QED BY <1>2, <1>3, <1>4, <1>5, ScanFrame

\* A commit is pending only since the end of the scan it is for.
LEMMA PendingStep ==
  ASSUME TypeOK, Handshake, [Next]_vars, Pending'
  PROVE  (Pending \/ rpc = "done") /\ thisrun' = thisrun
<1> USE DEF TypeOK, Scanning, Pending
<1>1. CASE Vanish \/ Start
  BY <1>1 DEF Vanish, Start
<1>2. ASSUME MainThread, ~Vanish, Pending'
      PROVE  (Pending \/ rpc = "done") /\ thisrun' = thisrun
  BY <1>2 DEF MainThread, Poll, PollNoKey, PollNoValue, OpenLog, SkipLog, OpenFails,
            ReadBuffer, EndOfLog, StopReading, ReadFails, QueueRecord, DropRecord,
            IgnoreRecord, RecordException, ScanDone, Sleep, ProcessExit, Advance
<1>3. ASSUME ~MainThread, ~Vanish, ~Start, Pending' PROVE Pending /\ thisrun' = thisrun
  <2>1. thisrun' = thisrun
    BY <1>3, ScanFrame
  <2>2. CASE Environment \/ UNCHANGED vars
    <3>1. ~Kill
      BY <1>3 DEF Kill
    <3>2. UNCHANGED <<opc, readMore>>
      BY <1>3, <2>2, <3>1 DEF Environment, Tick, WriteRecord, AppMessage, RequestStop
    <3>3. QED BY <1>3, <2>1, <3>2
  <2>3. CASE OutputThread
    <3>1. opc # "down"
      BY <2>3 DEF OutputThread, OutputInit, Look, Send, GiveUp, Pop, SeeScan, Recheck,
            WriteLastRun, WriteLastRunFails, Release, Pause
    <3>2. opc # "init" /\ readMore' = readMore
      BY <1>3, <2>3 DEF OutputThread, OutputInit, Look, Send, GiveUp, Pop, SeeScan, Recheck,
            WriteLastRun, WriteLastRunFails, Release, Pause
    <3>3. QED BY <1>3, <2>1, <3>1, <3>2
  <2>4. QED BY <1>3, <2>2, <2>3 DEF Next
<1>4. QED BY <1>1, <1>2, <1>3

\* The order of the clock, the records, the window and LastRun is kept.
LEMMA TimesStep ==
  ASSUME TypeOK, Handshake, Positions, Times, [Next]_vars
  PROVE  Times'
<1> USE ConstantsAssumption DEF TypeOK, Times, Numbers, Scanning, Pending
<1>1. clock <= clock'
  BY ClockFrame DEF Tick
<1>2. \A l \in Logs : \A i \in 1..Len(evlog'[l]) : evlog'[l][i].time <= clock
  <2>1. ASSUME NEW l \in Logs, NEW ok \in BOOLEAN, WriteRecord(l, ok),
               NEW m \in Logs, NEW i \in 1..Len(evlog'[m])
        PROVE  evlog'[m][i].time <= clock
    BY <2>1 DEF WriteRecord, LogTypes
  <2>2. QED BY <2>1, LogFrame
<1>3. \A l \in Logs : \A i, j \in 1..Len(evlog'[l]) :
        i <= j => evlog'[l][i].time <= evlog'[l][j].time
  <2>1. ASSUME NEW l \in Logs, NEW ok \in BOOLEAN, WriteRecord(l, ok),
               NEW m \in Logs, NEW i \in 1..Len(evlog'[m]), NEW j \in
                      1..Len(evlog'[m]), i <= j
        PROVE  evlog'[m][i].time <= evlog'[m][j].time
    BY <2>1 DEF WriteRecord, LogTypes
  <2>2. QED BY <2>1, LogFrame
<1>4. \A l \in Logs : \A i \in 1..Len(evlog'[l]) : evlog'[l][i].time \in Nat
  <2>1. \A l \in Logs : evlog'[l] \in Seq(Record)
    BY LogTypesStep DEF LogTypes
  <2>2. \A l \in Logs : \A i \in 1..Len(evlog'[l]) : evlog'[l][i] \in Record
    BY <2>1
  <2>3. QED BY <2>2 DEF Record
<1>5. \A l \in Logs : \A i \in 1..Len(evlog'[l]) : evlog'[l][i].time <= clock'
  BY <1>1, <1>2, <1>4, NumbersStep, SMTT(30)
<1>6. thisrun' <= clock'
  <2>1. thisrun' = thisrun \/ thisrun' = clock \/ thisrun' = 0
    BY WindowFrame DEF Poll, PollNoKey, PollNoValue, Vanish
  <2>2. QED BY <2>1, <1>1, NumbersStep
<1>7. since' <= lastRun' /\ lastRun' <= clock'
  <2>1. CASE WriteLastRun
    <3>1. lastRun <= thisrun
      BY <2>1 DEF WriteLastRun, Handshake
    <3>2. QED BY <2>1, <3>1, <1>1 DEF WriteLastRun
  <2>2. CASE ~WriteLastRun
    BY <2>2, DiskFrame, <1>1, NumbersStep
  <2>3. QED BY <2>1, <2>2
<1>8. Scanning' => \/ Poll /\ readMore /\ lastRun > 0
                   \/ Scanning /\ UNCHANGED <<lr, thisrun, lastRun>>
  <2>1. CASE Vanish \/ Start
    BY <2>1 DEF Vanish, Start
  <2>2. ASSUME MainThread, ~Vanish, Scanning'
        PROVE  \/ Poll /\ readMore /\ lastRun > 0
               \/ Scanning /\ UNCHANGED <<lr, thisrun, lastRun>>
    BY <2>2 DEF MainThread, Poll, PollNoKey, PollNoValue, OpenLog, SkipLog, OpenFails,
              ReadBuffer, EndOfLog, StopReading, ReadFails, QueueRecord, DropRecord,
              IgnoreRecord, RecordException, ScanDone, Sleep, ProcessExit, NextLog,
              LeaveLog, Advance
  <2>3. ASSUME UNCHANGED reader, Scanning, ~Vanish PROVE UNCHANGED <<lr, thisrun, lastRun>>
    <3>1. ~WriteLastRun
      BY <2>3 DEF WriteLastRun, Handshake
    <3>2. QED BY <2>3, <3>1, DiskFrame
  <2>4. QED BY <2>1, <2>2, <2>3, ScanFrame
<1>9. Scanning' => lr' = lastRun' /\ lastRun' > 0
  BY <1>8 DEF Poll
<1>10. ~Scanning' /\ rpc' = "done" =>
         \/ (Poll \/ PollNoValue) /\ readMore
         \/ (Scanning \/ rpc = "done") /\ thisrun' = thisrun
  <2>1. CASE Vanish \/ Start
    BY <2>1 DEF Vanish, Start
  <2>2. ASSUME MainThread, ~Vanish, rpc' = "done"
        PROVE  \/ (Poll \/ PollNoValue) /\ readMore
               \/ (Scanning \/ rpc = "done") /\ thisrun' = thisrun
    <3>1. CASE Poll \/ PollNoKey \/ PollNoValue \/ ScanDone \/ Sleep
      <4>1. CASE Poll
        <5>1. readMore
          BY <2>2, <4>1 DEF Poll
        <5>2. QED BY <4>1, <5>1
      <4>2. CASE PollNoValue
        <5>1. readMore
          BY <4>2 DEF PollNoValue
        <5>2. QED BY <4>2, <5>1
      <4>3. CASE PollNoKey \/ ScanDone \/ Sleep
        BY <2>2, <4>3 DEF PollNoKey, ScanDone, Sleep
      <4>4. QED BY <3>1, <4>1, <4>2, <4>3
    <3>2. CASE ~(Poll \/ PollNoKey \/ PollNoValue \/ ScanDone \/ Sleep)
      <4>1. Scanning
        BY <2>2, <3>2 DEF MainThread, OpenLog, SkipLog, OpenFails,
              ReadBuffer, EndOfLog, StopReading, ReadFails, QueueRecord, DropRecord,
              IgnoreRecord, RecordException, ProcessExit
      <4>2. QED BY <2>2, <3>2, <4>1, WindowFrame
    <3>3. QED BY <3>1, <3>2
  <2>3. QED BY <2>1, <2>2, ScanFrame
<1>11. Pending' => (Pending \/ rpc = "done") /\ thisrun' = thisrun
  BY PendingStep
<1>12. Scanning' \/ rpc' = "done" \/ Pending' => lastRun' <= thisrun' /\ thisrun' > 0
  <2>1. CASE WriteLastRun
    <3>1. thisrun > 0
      BY <2>1 DEF WriteLastRun, Handshake
    <3>2. QED BY <2>1, <3>1, NumbersStep DEF WriteLastRun
  <2>2. CASE Poll \/ PollNoValue
    <3>1. lastRun' = lastRun
      BY <2>2, DiskFrame DEF Poll, PollNoValue, WriteLastRun
    <3>2. QED BY <2>2, <3>1, <1>8, <1>10, <1>11 DEF Poll, PollNoValue
  <2>3. CASE ~WriteLastRun /\ ~Poll /\ ~PollNoValue
    <3>1. lastRun' = lastRun
      BY <2>3, DiskFrame
    <3>2. QED BY <2>3, <3>1, <1>8, <1>10, <1>11
  <2>4. QED BY <2>1, <2>2, <2>3
<1>13. lastRun' = 0 => \A l \in Logs : offset'[l] = 0
  <2>1. lastRun' = 0 => lastRun = 0
    BY DiskFrame DEF WriteLastRun, Handshake
  <2>2. CASE Vanish
    BY <2>2 DEF Vanish
  <2>3. CASE ~Vanish /\ lastRun = 0
    <3>1. offset' = offset
      <4>1. rpc \notin {"open", "read", "record"}
        BY <2>3
      <4>2. ~OpenLog /\ ~ReadFails
        BY <4>1 DEF OpenLog, ReadFails
      <4>3. ~QueueRecord /\ ~DropRecord /\ ~IgnoreRecord
        BY <4>1 DEF QueueRecord, DropRecord, IgnoreRecord
      <4>4. QED BY <2>3, <4>2, <4>3, OffsetFrame
    <3>2. QED BY <2>3, <3>1
  <2>4. QED BY <2>1, <2>2, <2>3
<1>14. QED BY <1>3, <1>5, <1>6, <1>7, <1>9, <1>12, <1>13

-----------------------------------------------------------------------------
(* What a step does to the records, the queue and the covered records.     *)

\* Records stay as written; a new one has the current time.
LEMMA RecordsKept ==
  ASSUME TypeOK, [Next]_vars, NEW l \in Logs, NEW i \in 1..Len(evlog'[l])
  PROVE  \/ i \in 1..Len(evlog[l]) /\ evlog'[l][i] = evlog[l][i]
         \/ /\ i = Len(evlog[l]) + 1 /\ evlog'[l][i].time = clock
            /\ \E m \in Logs, ok \in BOOLEAN : WriteRecord(m, ok)
<1>1. ASSUME NEW m \in Logs, NEW ok \in BOOLEAN, WriteRecord(m, ok)
      PROVE  \/ i \in 1..Len(evlog[l]) /\ evlog'[l][i] = evlog[l][i]
             \/ i = Len(evlog[l]) + 1 /\ evlog'[l][i].time = clock
  BY <1>1 DEF WriteRecord, TypeOK, LogTypes
<1>2. QED BY <1>1, LogFrame

\* A record has a time.
LEMMA RecordTimes ==
  ASSUME LogTypes, NEW l \in Logs, NEW i \in 1..Len(evlog[l])
  PROVE  evlog[l][i].time \in 1..MaxTime
<1>1. evlog[l] \in Seq(Record)
  BY DEF LogTypes
<1>2. evlog[l][i] \in Record
  BY <1>1
<1>3. QED BY <1>2 DEF Record

\* A record is still there after a step.
LEMMA RecordsStay ==
  ASSUME TypeOK, [Next]_vars, NEW l \in Logs, NEW i \in 1..Len(evlog[l])
  PROVE  i \in 1..Len(evlog'[l]) /\ evlog'[l][i] = evlog[l][i]
<1>1. ASSUME NEW m \in Logs, NEW ok \in BOOLEAN, WriteRecord(m, ok)
      PROVE  i \in 1..Len(evlog'[l]) /\ evlog'[l][i] = evlog[l][i]
  BY <1>1 DEF WriteRecord, TypeOK, LogTypes
<1>2. QED BY <1>1, LogFrame

\* The queue as a set.
LEMMA QueuedStep ==
  ASSUME TypeOK, PopsWhatItSent, [Next]_vars
  PROVE  /\ Vanish => Queued' = {}
         /\ QueueRecord => Queued' = Queued \cup {<<cur, cursor>>}
         /\ Pop => Queued' \subseteq Queued /\ Queued \subseteq Queued' \cup {mess}
         /\ ~Vanish /\ ~QueueRecord /\ ~Pop =>
              Queued \subseteq Queued' /\ Queued' \subseteq Queued \cup {App}
<1> USE DEF TypeOK, QueueTypes
<1>1. Vanish => Queued' = {}
  BY DEF Vanish, Queued
<1>2. ASSUME QueueRecord PROVE Queued' = Queued \cup {<<cur, cursor>>}
  <2>1. <<cur, cursor>> \in Entry
    BY DEF Entry, ScanTypes
  <2>2. queue' = Append(queue, <<cur, cursor>>)
    BY <1>2 DEF QueueRecord
  <2>3. QED BY <2>1, <2>2, AppendElements DEF Queued
<1>3. ASSUME Pop PROVE Queued' \subseteq Queued /\ Queued \subseteq Queued' \cup {mess}
  <2>1. queue # <<>> /\ Head(queue) = mess /\ queue' = Tail(queue)
    BY <1>3 DEF Pop, PopsWhatItSent
  <2>2. QED BY <2>1, TailElements DEF Queued
<1>4. ASSUME AppMessage PROVE Queued' = Queued \cup {App}
  <2>1. App \in Entry
    BY DEF Entry
  <2>2. queue' = Append(queue, App)
    BY <1>4 DEF AppMessage
  <2>3. QED BY <2>1, <2>2, AppendElements DEF Queued
<1>5. queue' = queue => Queued' = Queued
  BY DEF Queued
<1>6. QED BY <1>1, <1>2, <1>3, <1>4, <1>5, QueueFrame

\* A record that is covered stays covered as long as the process lives.
LEMMA CoverGrows ==
  ASSUME TypeOK, QueueOK, [Next]_vars, ~Vanish, NEW l \in Logs, NEW i \in Nat,
         Covered(l, i)
  PROVE  Covered(l, i)'
<1>1. <<l, i>> # App
  BY DEF App, Logs
<1>2. Pop => mess \in delivered \cup {App}
  BY DEF Pop, QueueOK
<1>3. QED BY <1>1, <1>2, HistoryFrame, QueuedStep DEF Covered, QueueOK

\* PopsWhatItSent and its companions are kept.
LEMMA FrontStep ==
  ASSUME TypeOK, QueueOK, [Next]_vars
  PROVE  PopsWhatItSent' /\ (opc' = "pop" => mess' \in delivered' \cup {App})
<1> USE DEF TypeOK, QueueTypes, QueueOK, PopsWhatItSent
<1>1. CASE Vanish \/ Start
  BY <1>1 DEF Vanish, Start
<1>2. ASSUME OutputThread
      PROVE  PopsWhatItSent' /\ (opc' = "pop" => mess' \in delivered' \cup {App})
  BY <1>2 DEF OutputThread, OutputInit, Look, Send, GiveUp, Pop, SeeScan, Recheck,
              WriteLastRun, WriteLastRunFails, Release, Pause
<1>3. CASE ~Vanish /\ ~Start /\ ~OutputThread
  <2>1. opc' = opc /\ mess' = mess
    BY <1>3, OutputFrame
  <2>2. queue # <<>> => queue' # <<>> /\ Head(queue') = Head(queue)
    <3>1. CASE AppMessage
      <4>1. App \in Entry
        BY DEF Entry
      <4>2. QED BY <3>1, <4>1 DEF AppMessage
    <3>2. CASE QueueRecord
      <4>1. <<cur, cursor>> \in Entry
        BY DEF Entry, ScanTypes
      <4>2. QED BY <3>2, <4>1 DEF QueueRecord
    <3>3. QED BY <1>3, <3>1, <3>2, QueueFrame DEF OutputThread
  <2>3. QED BY <2>1, <2>2, HistoryFrame
<1>4. QED BY <1>1, <1>2, <1>3

\* What is on the queue is of the open window: QueueOK is kept.
LEMMA QueueOKStep ==
  ASSUME TypeOK, Handshake, Positions, Times, QueueOK, [Next]_vars
  PROVE  QueueOK'
<1> USE DEF TypeOK
<1>1. opc' = "commit" => Queued' \subseteq {App}
  <2>1. CASE opc = "commit" /\ ~Vanish
    <3>1. ~QueueRecord /\ ~Pop
      BY <2>1 DEF QueueRecord, Pop, Handshake, Scanning
    <3>2. QED BY <2>1, <3>1, QueuedStep DEF QueueOK
  <2>2. ASSUME opc # "commit" \/ Vanish, opc' = "commit" PROVE queue' = <<>>
    <3>1. CASE Vanish \/ Start
      BY <2>2, <3>1 DEF Vanish, Start
    <3>2. ASSUME OutputThread, ~Vanish PROVE queue' = <<>>
      BY <2>2, <3>2 DEF OutputThread, OutputInit, Look, Send, GiveUp, Pop, SeeScan, Recheck,
              WriteLastRun, WriteLastRunFails, Release, Pause
    <3>3. QED BY <2>2, <3>1, <3>2, OutputFrame
  <2>3. queue' = <<>> => Queued' = {}
    BY DEF Queued
  <2>4. QED BY <2>1, <2>2, <2>3
<1>2. ASSUME NEW e \in Queued \ {App}, ~WriteLastRun
      PROVE  /\ e[1] \in Captured /\ e[2] \in 1..Len(evlog'[e[1]])
             /\ At(e)'.ok /\ At(e)'.time >= lastRun'
  <2>1. e[1] \in Captured /\ e[2] \in 1..Len(evlog[e[1]]) /\ At(e).ok /\
         At(e).time >= lastRun
    BY DEF QueueOK
  <2>2. e[1] \in Logs
    BY <2>1, ConstantsAssumption DEF Logs
  <2>3. e[2] \in 1..Len(evlog'[e[1]]) /\ At(e)' = At(e)
    BY <2>1, <2>2, RecordsStay DEF At
  <2>4. QED BY <1>2, <2>1, <2>3, DiskFrame
<1>3. ASSUME NEW e \in Queued' \ {App}
      PROVE  /\ e[1] \in Captured /\ e[2] \in 1..Len(evlog'[e[1]])
             /\ At(e)'.ok /\ At(e)'.time >= lastRun'
  <2>1. CASE QueueRecord
    <3>1. /\ Advance /\ Eligible(<<cur, cursor>>) /\ rpc = "record" /\ evlog' = evlog
          /\ lastRun' = lastRun
      BY <2>1 DEF QueueRecord, Advance
    <3>2. cur \in Captured /\ cursor \in 1..Len(evlog[cur]) /\ lr = lastRun
      BY <3>1 DEF Positions, Times, Scanning, ScanTypes, LogTypes
    <3>3. At(<<cur, cursor>>).ok /\ At(<<cur, cursor>>).time >= lastRun
      BY <3>1, <3>2 DEF Eligible, InWindow
    <3>4. CASE e = <<cur, cursor>>
      BY <3>1, <3>2, <3>3, <3>4 DEF At
    <3>5. ~WriteLastRun
      BY <3>1, <2>1 DEF WriteLastRun, Handshake, Scanning
    <3>6. QED BY <2>1, <3>4, <3>5, <1>2, QueuedStep DEF QueueOK
  <2>2. CASE ~QueueRecord /\ ~WriteLastRun
    BY <2>2, <1>2, QueuedStep DEF QueueOK
  <2>3. CASE WriteLastRun
    <3>1. Queued \subseteq {App} /\ queue' = queue
      BY <2>3 DEF WriteLastRun, QueueOK
    <3>2. QED BY <3>1 DEF Queued
  <2>4. QED BY <2>1, <2>2, <2>3
<1>4. QED BY <1>1, <1>3, FrontStep DEF QueueOK

-----------------------------------------------------------------------------
(* Nothing the registry calls done is missing.                             *)

\* CommitSafe is kept: the commit finds everything covered.
LEMMA CommitSafeStep == ASSUME IInv, [Next]_vars PROVE CommitSafe'
<1> USE DEF IInv
<1> SUFFICES ASSUME NEW l \in Logs, NEW i \in 1..Len(evlog'[l]),
                    Promised(l, i)', evlog'[l][i].time < lastRun'
             PROVE  <<l, i>> \in delivered' \cup abandoned'
  BY DEF CommitSafe
<1>1. CASE \E m \in Logs, ok \in BOOLEAN : WriteRecord(m, ok)
  <2>1. lastRun' = lastRun /\ since' = since
    BY <1>1 DEF WriteRecord
  <2>2. i \in 1..Len(evlog[l]) /\ evlog'[l][i] = evlog[l][i]
    BY <2>1, RecordsKept DEF Times, TypeOK, Numbers
  <2>3. Promised(l, i) /\ evlog[l][i].time < lastRun
    BY <2>1, <2>2 DEF Promised
  <2>4. QED BY <2>2, <2>3, HistoryFrame DEF CommitSafe
<1>2. CASE WriteLastRun
  <2>1. evlog' = evlog /\ lastRun' = thisrun /\ opc = "commit"
    BY <1>2 DEF WriteLastRun
  <2>2. lastRun > 0 /\ since' = since
    <3>1. evlog[l][i].time \in Nat /\ thisrun \in Nat /\ lastRun \in Nat
      BY <2>1, RecordTimes, ConstantsAssumption DEF TypeOK, Numbers
    <3>2. evlog[l][i].time >= since' /\ evlog[l][i].time < thisrun
      BY <2>1 DEF Promised
    <3>3. QED BY <1>2, <3>1, <3>2 DEF WriteLastRun
  <2>3. Promised(l, i) /\ i \in 1..Len(evlog[l])
    BY <2>1, <2>2 DEF Promised
  <2>4. Pending /\ Queued \subseteq {App}
    BY <2>1 DEF Pending, Handshake, QueueOK
  <2>5. CASE evlog[l][i].time < lastRun
    BY <2>3, <2>5, HistoryFrame DEF CommitSafe
  <2>6. CASE evlog[l][i].time >= lastRun
    <3>1. Covered(l, i)
      BY <2>1, <2>2, <2>3, <2>4, <2>6 DEF ScanCovered
    <3>2. <<l, i>> # App
      BY DEF App, Logs
    <3>3. QED BY <2>4, <3>1, <3>2, HistoryFrame DEF Covered
  <2>7. evlog[l][i].time \in Nat /\ lastRun \in Nat
    BY <2>1, RecordTimes, ConstantsAssumption DEF TypeOK, Numbers
  <2>8. QED BY <2>5, <2>6, <2>7
<1>3. CASE ~WriteLastRun /\ ~\E m \in Logs, ok \in BOOLEAN : WriteRecord(m, ok)
  <2>1. lastRun' = lastRun /\ since' = since /\ evlog' = evlog
    BY <1>3, DiskFrame, LogFrame
  <2>2. Promised(l, i) /\ evlog[l][i].time < lastRun /\ i \in 1..Len(evlog[l])
    BY <2>1 DEF Promised
  <2>3. QED BY <2>2, HistoryFrame DEF CommitSafe
<1>4. QED BY <1>1, <1>2, <1>3

\* Records below a read position are covered: PositionsCovered is kept.
LEMMA PositionsCoveredStep == ASSUME IInv, [Next]_vars PROVE PositionsCovered'
<1> USE DEF IInv
<1> SUFFICES ASSUME NEW l \in Logs, NEW i \in 1..Len(evlog'[l]), Promised(l, i)',
                    i < offset'[l], evlog'[l][i].time >= lastRun'
             PROVE  Covered(l, i)'
  BY DEF PositionsCovered
<1>1. offset[l] \in Nat /\ offset'[l] \in Nat /\ Len(evlog[l]) \in Nat
  BY ScanTypesStep DEF TypeOK, ScanTypes, LogTypes
<1>2. ~Vanish
  BY <1>1 DEF Vanish
<1>3. i \in 1..Len(evlog[l]) /\ evlog'[l][i] = evlog[l][i]
  <2>1. CASE \E m \in Logs, ok \in BOOLEAN : WriteRecord(m, ok)
    <3>1. offset'[l] <= Len(evlog[l])
      BY <2>1 DEF WriteRecord, Positions
    <3>2. QED BY <3>1, <1>1, RecordsKept
  <2>2. QED BY <2>1, RecordsKept
<1>4. i < offset[l] \/ evlog' = evlog
  BY LogFrame, OffsetFrame DEF WriteRecord
<1>5. since' = since \/ offset = [m \in Logs |-> 0]
  BY DiskFrame DEF WriteLastRun, Times, TypeOK, ScanTypes
<1>0. evlog[l][i].time \in Nat /\ thisrun \in Nat /\ lastRun \in Nat
  BY <1>3, RecordTimes, ConstantsAssumption, SMTT(30) DEF TypeOK, Numbers
<1>6. lastRun <= lastRun' /\ lastRun' \in Nat
  <2>1. CASE WriteLastRun
    <3>1. lastRun <= thisrun
      BY <2>1 DEF WriteLastRun, Handshake, Times, Pending
    <3>2. QED BY <2>1, <3>1, <1>0 DEF WriteLastRun
  <2>2. CASE ~WriteLastRun
    BY <2>2, <1>0, DiskFrame
  <2>3. QED BY <2>1, <2>2
<1>7. evlog[l][i].time >= lastRun
  BY <1>0, <1>3, <1>6
<1>8. CASE i < offset[l]
  <2>1. since' = since
    BY <1>5, <1>8
  <2>2. Promised(l, i)
    BY <1>3, <2>1 DEF Promised
  <2>3. Covered(l, i)
    BY <1>3, <1>7, <1>8, <2>2 DEF PositionsCovered
  <2>4. QED BY <1>2, <2>3, CoverGrows
<1>9. CASE i >= offset[l]
  <2>1. since' = since /\ lastRun > 0 /\ Scanning /\ lr = lastRun
    <3>1. OpenLog \/ ReadFails \/ QueueRecord \/ DropRecord \/ IgnoreRecord
      BY <1>1, <1>2, <1>9, OffsetFrame
    <3>2. Scanning
      BY <3>1 DEF OpenLog, ReadFails, QueueRecord, DropRecord, IgnoreRecord, Scanning
    <3>3. ~WriteLastRun
      BY <3>2 DEF WriteLastRun, Handshake
    <3>4. QED BY <3>2, <3>3, DiskFrame DEF Times
  <2>2. Promised(l, i)
    BY <1>3, <2>1 DEF Promised
  <2>3. CASE OpenLog
    <3>1. l = cur /\ i < cursor'
      BY <1>1, <1>9, <2>3 DEF OpenLog, TypeOK, ScanTypes
    <3>2. offset[cur] = 0 /\ cursor' \in ReadPositions(cur)
      BY <1>1, <1>9, <2>3, <3>1 DEF OpenLog
    <3>3. i \in 1..(cursor' - 1)
      BY <3>1, <3>2, <1>1 DEF ReadPositions
    <3>4. evlog[l][i].time < lr
      BY <3>1, <3>2, <3>3 DEF ReadPositions
    <3>5. QED BY <2>1, <3>4, <1>0, <1>7
  <2>4. CASE ReadFails
    BY <1>1, <1>9, <2>4 DEF ReadFails, TypeOK, ScanTypes
  <2>5. CASE QueueRecord \/ DropRecord \/ IgnoreRecord
    <3>1. Advance /\ rpc = "record"
      BY <2>5 DEF QueueRecord, DropRecord, IgnoreRecord
    <3>2. l = cur /\ i < cursor /\ evlog[cur][cursor].time < thisrun
      BY <1>1, <1>9, <3>1 DEF Advance, TypeOK, ScanTypes
    <3>3. cursor \in 1..Len(evlog[cur])
      BY <3>1, <1>1, <3>2 DEF Positions, TypeOK, ScanTypes
    <3>4. evlog[l][i].time < thisrun
      <4>1. evlog[cur][cursor].time \in Nat /\ thisrun \in Nat
        BY <3>2, <3>3, RecordTimes, ConstantsAssumption DEF TypeOK, Numbers
      <4>2. evlog[l][i].time <= evlog[cur][cursor].time
        BY <3>2, <3>3, <1>3 DEF Times
      <4>3. QED BY <3>2, <4>1, <4>2, <1>0
    <3>5. Scanned(l, i)
      BY <3>1, <3>2 DEF Scanned
    <3>6. Covered(l, i)
      BY <1>3, <1>7, <2>1, <2>2, <3>4, <3>5 DEF ScanCovered
    <3>7. QED BY <1>2, <3>6, CoverGrows
  <2>6. QED BY <1>1, <1>2, <1>9, <2>3, <2>4, <2>5, OffsetFrame
<1>10. QED BY <1>1, <1>8, <1>9

\* A scan that leaves a log adds what it had not read of the window.
LEMMA LeaveLogCovers ==
  ASSUME TypeOK, NEW from \in Nat, LeaveLog(from), NEW i \in 1..Len(evlog[cur]), i >= from,
         evlog[cur][i].time >= lr, evlog[cur][i].time < thisrun
  PROVE  <<cur, i>> \in abandoned'
<1>1. <<cur, i>> \in {cur} \X (from..Len(evlog[cur]))
  BY DEF TypeOK, LogTypes, ScanTypes
<1>2. InWindow(<<cur, i>>, lr)
  BY DEF InWindow, At
<1>3. QED BY <1>1, <1>2 DEF LeaveLog

\* After NextLog the scan is past the log it was in, and past no other.
LEMMA NextLogPast ==
  ASSUME TypeOK, NextLog, Scanning, NEW l \in Logs, NEW i \in Nat
  PROVE  l < cur \/ l = cur \/ ~(rpc' = "done" \/ Scanned(l, i)')
BY ConstantsAssumption DEF NextLog, Scanned, TypeOK, ScanTypes, Logs

\* At "open" the main thread has three ways to go.
LEMMA OpenSteps ==
  ASSUME MainThread, rpc = "open"
  PROVE  OpenLog \/ SkipLog \/ OpenFails
BY DEF MainThread, Poll, PollNoKey, PollNoValue, ReadBuffer, EndOfLog,
       StopReading, ReadFails, QueueRecord, DropRecord, IgnoreRecord,
       RecordException, ScanDone, Sleep, ProcessExit

\* Records the scan is past are covered: ScanCovered is kept.
LEMMA ScanCoveredStep == ASSUME IInv, [Next]_vars PROVE ScanCovered'
<1> USE DEF IInv
<1> SUFFICES ASSUME NEW l \in Logs, NEW i \in 1..Len(evlog'[l]), Promised(l, i)',
                    lastRun' > 0, evlog'[l][i].time >= lastRun',
                    evlog'[l][i].time < thisrun',
                    (Scanning' /\ Scanned(l, i)') \/ rpc' = "done" \/ Pending'
             PROVE  Covered(l, i)'
  BY DEF ScanCovered
<1>1. ~Vanish /\ ~Start
  BY DEF Vanish, Start, Scanning, Pending
<1>2. ~WriteLastRun
  <2>1. WriteLastRun => evlog' = evlog /\ lastRun' = thisrun /\ thisrun' = thisrun
    BY DEF WriteLastRun
  <2>2. WriteLastRun => evlog[l][i].time \in Nat /\ thisrun \in Nat
    BY <2>1, RecordTimes, ConstantsAssumption DEF TypeOK, Numbers
  <2>3. QED BY <2>1, <2>2
<1>3. lastRun' = lastRun /\ since' = since
  BY <1>2, DiskFrame
<1>4. i \in 1..Len(evlog[l]) /\ evlog'[l][i] = evlog[l][i]
  <2>1. CASE \E m \in Logs, ok \in BOOLEAN : WriteRecord(m, ok)
    <3>1. thisrun' = thisrun
      BY <2>1 DEF WriteRecord
    <3>2. thisrun <= clock /\ thisrun \in Nat /\ clock \in Nat
      BY ConstantsAssumption DEF Times, TypeOK, Numbers
    <3>3. QED BY <3>1, <3>2, RecordsKept
  <2>2. QED BY <2>1, RecordsKept
<1>5. /\ Promised(l, i) /\ evlog[l][i].time >= lastRun /\ lastRun > 0
      /\ evlog[l][i].time < thisrun'
  BY <1>3, <1>4 DEF Promised
<1>6. evlog[l][i].time \in Nat /\ thisrun \in Nat /\ lastRun \in Nat /\ clock \in Nat
  BY <1>4, RecordTimes, ConstantsAssumption DEF TypeOK, Numbers
<1> DEFINE Past == (Scanning /\ Scanned(l, i)) \/ rpc = "done" \/ Pending
<1>7. ASSUME Past, thisrun' = thisrun PROVE Covered(l, i)'
  <2>1. Covered(l, i)
    BY <1>4, <1>5, <1>7 DEF ScanCovered
  <2>2. QED BY <1>1, <2>1, CoverGrows
<1>8. ASSUME i < offset[l] PROVE Covered(l, i)'
  <2>1. Covered(l, i)
    BY <1>4, <1>5, <1>8 DEF PositionsCovered
  <2>2. QED BY <1>1, <2>1, CoverGrows
<1>9. ASSUME <<l, i>> \in abandoned' PROVE Covered(l, i)'
  BY <1>9 DEF Covered
<1>10. CASE Pending' /\ ~Poll /\ ~PollNoValue
  <2>1. Past /\ thisrun' = thisrun
    BY <1>10, PendingStep
  <2>2. QED BY <2>1, <1>7
<1>11. ASSUME Scanning, MainThread, ~Pending', thisrun' = thisrun, lr = lastRun
       PROVE  Covered(l, i)'
  <2>1. CASE l < cur
    BY <2>1, <1>7, <1>11 DEF Scanned
  <2>2. CASE l = cur /\ rpc = "open"
    <3>1. CASE OpenLog
      <4>1. CASE offset[cur] = 0 /\ evlog[cur] = <<>>
        BY <1>4, <2>2, <4>1
      <4>2. CASE ~(offset[cur] = 0 /\ evlog[cur] = <<>>)
        <5>1. i < cursor' /\ rpc' = "read" /\ cur' = cur
          <6>1. rpc' = "read" /\ cur' = cur
            BY <3>1, <4>2 DEF OpenLog
          <6>2. Scanned(l, i)'
            BY <6>1, <1>11
          <6>3. QED BY <2>2, <6>1, <6>2 DEF Scanned, TypeOK, ScanTypes, Logs
        <5>2. CASE offset[cur] = 0
          <6>1. cursor' \in ReadPositions(cur)
            BY <3>1, <4>2, <5>2 DEF OpenLog
          <6>2. i \in 1..(cursor' - 1)
            <7>1. cursor' \in Nat /\ i \in Nat /\ i >= 1
              BY <6>1, <1>4 DEF ReadPositions, TypeOK, LogTypes, ScanTypes
            <7>2. QED BY <5>1, <7>1
          <6>3. evlog[l][i].time < lr
            BY <2>2, <6>1, <6>2 DEF ReadPositions
          <6>4. QED BY <6>3, <1>5, <1>6, <1>11
        <5>3. CASE offset[cur] # 0
          <6>1. cursor' = offset[cur]
            BY <3>1, <5>3, <4>2 DEF OpenLog
          <6>2. QED BY <2>2, <5>1, <6>1, <1>8
        <5>4. QED BY <5>2, <5>3
      <4>3. QED BY <4>1, <4>2
    <3>2. CASE SkipLog
      BY <2>2, <3>2, <1>5 DEF SkipLog, Promised
    <3>3. CASE OpenFails
      <4> DEFINE from == IF offset[cur] = 0 THEN 1 ELSE offset[cur]
      <4>1. from \in Nat /\ LeaveLog(from)
        BY <3>3 DEF OpenFails, TypeOK, ScanTypes
      <4>2. CASE i >= from
        <5>1. <<cur, i>> \in abandoned'
          BY <4>1, <4>2, <1>4, <1>5, <1>11, <2>2, LeaveLogCovers
        <5>2. QED BY <2>2, <5>1, <1>9
      <4>3. CASE i < from
        BY <2>2, <4>3, <1>4, <1>8 DEF TypeOK, ScanTypes, LogTypes
      <4>4. QED BY <4>1, <4>2, <4>3, <1>4
    <3>4. QED BY <2>2, <3>1, <3>2, <3>3, <1>11, OpenSteps
  <2>3. CASE l = cur /\ rpc \in {"read", "record"}
    <3>1. CASE i < cursor
      BY <2>3, <3>1, <1>7, <1>11 DEF Scanned
    <3>2. CASE i >= cursor
      <4>1. CASE LeaveLog(cursor)
        <5>1. <<cur, i>> \in abandoned'
          BY <3>2, <4>1, <1>4, <1>5, <1>11, <2>3, LeaveLogCovers DEF TypeOK, ScanTypes
        <5>2. QED BY <2>3, <5>1, <1>9
      <4>2. CASE ReadBuffer \/ EndOfLog
        <5>1. ~EndOfLog
          BY <2>3, <3>2, <1>4 DEF EndOfLog, TypeOK, ScanTypes, LogTypes
        <5>2. rpc' = "record" /\ cur' = cur /\ cursor' = cursor
          BY <4>2, <5>1 DEF ReadBuffer
        <5>3. Scanned(l, i)'
          BY <5>2, <1>11
        <5>4. QED BY <2>3, <3>2, <5>2, <5>3, <1>4 DEF Scanned, TypeOK,
               ScanTypes, Logs, LogTypes
      <4>3. CASE ReadFails /\ ~LeaveLog(cursor)
        <5>1. rpc' = "open" /\ cur' = cur
          BY <4>3 DEF ReadFails
        <5>2. ~(l < cur)
          BY <2>3 DEF TypeOK, ScanTypes, Logs
        <5>3. QED BY <2>3, <5>1, <5>2, <1>11 DEF Scanned
      <4>4. CASE QueueRecord \/ DropRecord \/ IgnoreRecord
        <5>1. Advance /\ rpc = "record"
          BY <4>4 DEF QueueRecord, DropRecord, IgnoreRecord
        <5>2. i = cursor
          <6>1. rpc' # "done" /\ cur' = cur /\ cursor' = cursor + 1
            BY <5>1 DEF Advance
          <6>2. Scanned(l, i)'
            BY <6>1, <1>11
          <6>3. QED BY <2>3, <3>2, <6>1, <6>2, <1>4 DEF Scanned, TypeOK,
                 ScanTypes, Logs, LogTypes
        <5>3. Eligible(<<cur, cursor>>)
          BY <2>3, <5>2, <1>5, <1>11 DEF Eligible, InWindow, At, Promised
        <5>4. CASE QueueRecord
          BY <2>3, <5>2, <5>4, QueuedStep DEF Covered, QueueOK
        <5>5. CASE DropRecord
          BY <2>3, <5>2, <5>5, <1>9 DEF DropRecord
        <5>6. QED BY <4>4, <5>3, <5>4, <5>5 DEF IgnoreRecord
      <4>5. QED BY <2>3, <4>1, <4>2, <4>3, <4>4, <1>1, <1>11 DEF MainThread,
             Poll, PollNoKey,
              PollNoValue, OpenLog, SkipLog, OpenFails, StopReading,
              RecordException, ScanDone, Sleep, ProcessExit
    <3>3. QED BY <3>1, <3>2, <1>4 DEF TypeOK, ScanTypes, LogTypes
  <2>4. l <= cur
    <3>1. rpc' = "done" \/ Scanned(l, i)'
      BY <1>11
    <3>2. cur' = cur \/ NextLog
      BY <1>1, <1>11 DEF MainThread, Poll, PollNoKey, PollNoValue, OpenLog, SkipLog,
              OpenFails, ReadBuffer, EndOfLog, StopReading, ReadFails, QueueRecord,
              DropRecord, IgnoreRecord, RecordException, ScanDone, Sleep, ProcessExit,
              LeaveLog, Advance, Scanning
    <3>3. CASE NextLog
      BY <3>1, <3>3, <1>4, <1>11, NextLogPast DEF TypeOK, ScanTypes, LogTypes, Logs
    <3>4. CASE cur' = cur /\ ~NextLog
      <4>1. rpc' # "done"
        BY <3>4, <1>1, <1>11 DEF MainThread, Poll, PollNoKey, PollNoValue, OpenLog, SkipLog,
              OpenFails, ReadBuffer, EndOfLog, StopReading, ReadFails, QueueRecord,
              DropRecord, IgnoreRecord, RecordException, ScanDone, Sleep, ProcessExit,
              LeaveLog, Advance, Scanning
      <4>2. QED BY <3>1, <3>4, <4>1 DEF Scanned, Logs, TypeOK, ScanTypes
    <3>5. QED BY <3>2, <3>3, <3>4
  <2>5. QED BY <2>1, <2>2, <2>3, <2>4, <1>11 DEF Scanning, Logs, TypeOK, ScanTypes
<1>12. CASE Poll
  <2>1. ~readMore
    BY <1>12, <1>3, <1>5 DEF Poll, Scanning, Scanned, Pending, Logs
  <2>2. thisrun' = thisrun /\ Pending
    BY <1>12, <2>1 DEF Poll, Scanning, Pending
  <2>3. QED BY <2>2, <1>7
<1>13. CASE PollNoValue
  <2>1. <<l, i>> \in Logs \X (1..MaxRecords) /\ i <= Len(evlog[l])
    BY <1>4, ConstantsAssumption DEF TypeOK, LogTypes
  <2>2. thisrun' = clock
    BY <1>13 DEF PollNoValue
  <2>3. QED BY <1>4, <1>5, <1>13, <2>1, <2>2, <1>9 DEF PollNoValue, At
<1>14. CASE ~Pending' /\ ~Poll /\ ~PollNoValue /\ MainThread
  <2>1. ~PollNoKey /\ ~ScanDone /\ ~Sleep /\ ~ProcessExit
    BY <1>1, <1>14 DEF PollNoKey, ScanDone, Sleep, ProcessExit, Scanning
  <2>2. Scanning
    BY <1>14, <2>1 DEF MainThread, OpenLog, SkipLog, OpenFails, ReadBuffer, EndOfLog,
              StopReading, ReadFails, QueueRecord, DropRecord, IgnoreRecord,
              RecordException, Scanning
  <2>3. thisrun' = thisrun
    BY <1>1, <1>14, <2>1, WindowFrame
  <2>4. QED BY <1>11, <1>14, <2>2, <2>3 DEF Times
<1>15. CASE ~Pending' /\ ~MainThread
  <2>1. UNCHANGED reader
    BY <1>1, <1>15, ScanFrame
  <2>2. Past
    BY <2>1, <1>15 DEF Scanning, Scanned
  <2>3. QED BY <2>1, <2>2, <1>7
<1>16. QED BY <1>10, <1>12, <1>13, <1>14, <1>15

-----------------------------------------------------------------------------
\* The invariant holds at first.
LEMMA InitInv == Init => IInv
<1> SUFFICES ASSUME Init PROVE IInv
  OBVIOUS
<1> USE ConstantsAssumption DEF Init
<1>1. TypeOK
  <2>1. App \in Entry /\ <<>> \in Seq(Entry)
    BY DEF Entry
  <2>2. evlog \in [Logs -> Seq(Record)] /\ \A l \in Logs : Len(evlog[l]) = 0
    OBVIOUS
  <2>3. Flags
    BY DEF Flags, RpcValues, OpcValues
  <2>4. Numbers
    BY DEF Numbers
  <2>5. LogTypes
    BY <2>2 DEF LogTypes
  <2>6. ScanTypes
    BY DEF ScanTypes, Logs
  <2>7. QueueTypes
    BY <2>1 DEF QueueTypes
  <2>8. QED BY <2>3, <2>4, <2>5, <2>6, <2>7 DEF TypeOK
<1>2. Handshake
  BY DEF Handshake, Scanning
<1>3. Positions
  BY DEF Positions
<1>4. Times
  BY DEF Times, Scanning, Pending
<1>5. QueueOK
  BY DEF QueueOK, Queued, PopsWhatItSent
<1>6. CommitSafe /\ PositionsCovered /\ ScanCovered
  BY DEF CommitSafe, PositionsCovered, ScanCovered
<1>7. QED BY <1>1, <1>2, <1>3, <1>4, <1>5, <1>6 DEF IInv

\* The invariant is inductive.
LEMMA NextInv == IInv /\ [Next]_vars => IInv'
BY TypeStep, HandshakeStep, PositionsStep, TimesStep, QueueOKStep, CommitSafeStep,
   PositionsCoveredStep, ScanCoveredStep DEF IInv, QueueOK

\* The inductive invariant holds of every behaviour.
THEOREM Invariance == Spec => []IInv
<1>1. Init => IInv
  BY InitInv
<1>2. IInv /\ [Next]_vars => IInv'
  BY NextInv
<1>3. QED BY <1>1, <1>2, PTL DEF Spec

\* Type correctness: eventlog.cpp and output.cpp keep their globals in range.
THEOREM TypeCorrect == Spec => []TypeOK
<1>1. IInv => TypeOK
  BY DEF IInv
<1>2. QED BY <1>1, Invariance, PTL

\* Whatever the registry calls done was handed over or knowingly left: the
\* handshake of eventlog_check_events (eventlog.cpp) and outputMain (output.cpp).
THEOREM CommitIsSafe == Spec => []CommitSafe
<1>1. IInv => CommitSafe
  BY DEF IInv
<1>2. QED BY <1>1, Invariance, PTL

\* No record is queued again below LastRun: eventlog_read_events' window test
\* and the commit only over an empty queue.
THEOREM NeverResent == Spec => []NoResend
<1>1. IInv => NoResend
  BY DEF IInv, QueueOK, NoResend
<1>2. QED BY <1>1, Invariance, PTL

\* outputMain's front() and pop() take the same message although two other
\* threads push in between.
THEOREM FrontIsPopped == Spec => []PopsWhatItSent
<1>1. IInv => PopsWhatItSent
  BY DEF IInv, QueueOK
<1>2. QED BY <1>1, Invariance, PTL

\* Only a stop, whose two causes are failures, and the other failures make a scan
\* walk away from a record.
LEMMA FaultlessStep ==
  ASSUME Faults = {}, TypeOK, ~halting, abandoned = {}, [Next]_vars
  PROVE  ~halting' /\ abandoned' = {}
<1>1. halting' = halting \/ halting' = FALSE
  BY DEF Next, Environment, MainThread, OutputThread, Tick, WriteRecord,
         AppMessage, RequestStop, Start, Kill, Poll, PollNoKey, PollNoValue,
         OpenLog, SkipLog, OpenFails, ReadBuffer, EndOfLog, StopReading,
         ReadFails, QueueRecord, DropRecord, IgnoreRecord, RecordException,
         ScanDone, Sleep, ProcessExit, Vanish, Advance, OutputInit, Look, Send,
         GiveUp, Pop, SeeScan, Recheck, WriteLastRun, WriteLastRunFails, Release,
         Pause, vars
<1>2. ~PollNoValue /\ ~OpenFails /\ ~StopReading /\ ~ReadFails /\ ~RecordException /\ ~DropRecord
  BY DEF PollNoValue, OpenFails, StopReading, ReadFails, RecordException, DropRecord
<1>3. abandoned' = abandoned
  BY <1>2, AbandonedFrame
<1>4. QED BY <1>1, <1>3

\* Kills and restarts alone lose nothing: where nothing fails and the service is not
\* told to stop, every record the registry calls done was handed over, for any number
\* of logs and records, with watchers or without, and however often the process dies
\* between two steps (the README's "all the accumulated event logs are transmitted").
THEOREM KillsLoseNothing == ASSUME Faults = {} PROVE Spec => []AllAccumulatedSent
<1>1. Init => ~halting /\ abandoned = {}
  BY DEF Init
<1>2. TypeOK /\ (~halting /\ abandoned = {}) /\ [Next]_vars => (~halting /\ abandoned = {})'
  BY FaultlessStep
<1>3. CommitSafe /\ abandoned = {} => AllAccumulatedSent
  BY DEF CommitSafe, AllAccumulatedSent
<1>4. Spec => [](~halting /\ abandoned = {})
  BY <1>1, <1>2, TypeCorrect, PTL DEF Spec
<1>5. QED BY <1>3, <1>4, CommitIsSafe, PTL

\* LastRun never moves back and never past the clock.
THEOREM CommitsForward == Spec => CommitForward
<1>1. IInv /\ [Next]_vars =>
        [lastRun' # lastRun => lastRun' > lastRun /\ lastRun' <= clock]_vars
  <2> SUFFICES ASSUME IInv, [Next]_vars, lastRun' # lastRun
               PROVE  lastRun' > lastRun /\ lastRun' <= clock
    OBVIOUS
  <2>1. WriteLastRun
    BY DiskFrame
  <2>2. lastRun' = thisrun /\ Pending
    BY <2>1 DEF WriteLastRun, IInv, Handshake, Pending
  <2>3. lastRun <= thisrun /\ thisrun <= clock
    BY <2>2 DEF IInv, Times
  <2>4. lastRun \in Nat /\ thisrun \in Nat
    BY ConstantsAssumption DEF IInv, TypeOK, Numbers
  <2>5. QED BY <2>2, <2>3, <2>4
<1>2. QED BY <1>1, Invariance, PTL DEF CommitForward, Spec

\* The window is stable while it is being committed: thisrun is unlocked, the
\* handshake alone keeps the main thread away from it.
THEOREM WindowIsStable == Spec => WindowStable
<1>1. IInv /\ [Next]_vars =>
        [opc = "commit" /\ running' => thisrun' = thisrun /\ ~readMore']_vars
  <2> SUFFICES ASSUME IInv, [Next]_vars, opc = "commit", running'
               PROVE  thisrun' = thisrun /\ ~readMore'
    OBVIOUS
  <2>1. ~readMore /\ ~Vanish
    BY DEF IInv, Handshake, Vanish
  <2>2. ~Poll \/ thisrun' = thisrun
    BY <2>1 DEF Poll
  <2>3. ~PollNoKey /\ ~PollNoValue
    BY <2>1 DEF PollNoKey, PollNoValue
  <2>4. thisrun' = thisrun
    BY <2>1, <2>2, <2>3, WindowFrame
  <2>5. ~readMore'
    BY <2>1 DEF Next, Environment, MainThread, OutputThread, Tick, WriteRecord,
           AppMessage, RequestStop, Start, Kill, Poll, PollNoKey, PollNoValue,
           OpenLog, SkipLog, OpenFails, ReadBuffer, EndOfLog, StopReading,
           ReadFails, QueueRecord, DropRecord, IgnoreRecord, RecordException,
           ScanDone, Sleep, ProcessExit, NextLog, LeaveLog, Advance,
           OutputInit, Look, Send, GiveUp, Pop, SeeScan, Recheck, WriteLastRun,
           WriteLastRunFails, Release, Pause
  <2>6. QED BY <2>4, <2>5
<1>2. QED BY <1>1, Invariance, PTL DEF WindowStable, Spec

-----------------------------------------------------------------------------
(* Forwarding implements EventDelivery.                                    *)

\* Only Send hands a record over.
LEMMA DeliveredFrame ==
  ASSUME [Next]_vars, ~Send
  PROVE  delivered' = delivered
BY DEF Next, Environment, MainThread, OutputThread, Tick, WriteRecord,
       AppMessage, RequestStop, Start, Kill, Poll, PollNoKey, PollNoValue,
       OpenLog, SkipLog, OpenFails, ReadBuffer, EndOfLog, StopReading,
       ReadFails, QueueRecord, DropRecord, IgnoreRecord, RecordException,
       ScanDone, Sleep, ProcessExit, NextLog, LeaveLog, Advance, OutputInit,
       Look, GiveUp, Pop, SeeScan, Recheck, WriteLastRun, WriteLastRunFails,
       Release, Pause, Vanish

\* Only written records are abandoned.
LEMMA AbandonedWritten ==
  ASSUME IInv, [Next]_vars
  PROVE  abandoned' \subseteq abandoned \cup Abstract!Written
<1> USE DEF IInv, TypeOK, ScanTypes, LogTypes
<1>1. \A l \in Logs : \A i \in 1..Len(evlog[l]) : <<l, i>> \in Abstract!Written
  BY DEF Abstract!Written
<1>2. ASSUME NEW from \in Nat \ {0}, LeaveLog(from)
      PROVE  abandoned' \subseteq abandoned \cup Abstract!Written
  BY <1>1, <1>2 DEF LeaveLog
<1>3. CASE PollNoValue
  BY <1>1, <1>3 DEF PollNoValue
<1>4. CASE OpenFails
  <2>1. (IF offset[cur] = 0 THEN 1 ELSE offset[cur]) \in Nat \ {0}
    OBVIOUS
  <2>2. QED BY <1>2, <1>4, <2>1 DEF OpenFails
<1>5. CASE StopReading \/ ReadFails \/ RecordException
  <2>1. rpc \in {"read", "record"} /\ (LeaveLog(cursor) \/ abandoned' = abandoned)
    BY <1>5 DEF StopReading, ReadFails, RecordException
  <2>2. cursor \in Nat \ {0}
    BY <2>1 DEF Positions
  <2>3. QED BY <1>2, <2>1, <2>2
<1>6. CASE DropRecord
  <2>1. rpc = "record" /\ abandoned' = abandoned \cup {<<cur, cursor>>}
    BY <1>6 DEF DropRecord
  <2>2. cursor \in 1..Len(evlog[cur])
    BY <2>1 DEF Positions
  <2>3. QED BY <1>1, <2>1, <2>2
<1>7. QED BY <1>3, <1>4, <1>5, <1>6, AbandonedFrame

\* Every step of the agent is a step of the promise, or invisible to it.
LEMMA NextImplements ==
  ASSUME IInv, [Next]_vars
  PROVE  [Abstract!Next]_(Abstract!vars)
<1> USE DEF IInv
<1>1. ASSUME NEW l \in Logs, NEW ok \in BOOLEAN, WriteRecord(l, ok)
      PROVE  Abstract!Write
  <2> DEFINE r == [time |-> clock, ok |-> ok]
  <2>1. r \in Abstract!Record /\ r.time >= lastRun
    BY ConstantsAssumption DEF Abstract!Record, TypeOK, Numbers, Times
  <2>2. evlog' = [evlog EXCEPT ![l] = Append(@, r)]
        /\ UNCHANGED <<lastRun, since, delivered, abandoned>>
    BY <1>1 DEF WriteRecord
  <2> HIDE DEF r
  <2>3. QED BY <2>1, <2>2 DEF Abstract!Write
<1>2. CASE Send
  <2>1. UNCHANGED <<evlog, lastRun, since, abandoned>>
    BY <1>2 DEF Send
  <2>2. CASE mess = App
    BY <1>2, <2>1, <2>2 DEF Send, Abstract!vars
  <2>3. CASE mess # App
    <3>1. mess \in Queued
      <4>1. queue # <<>> /\ mess = Head(queue) /\ queue \in Seq(Entry)
        BY <1>2 DEF Send, QueueOK, PopsWhatItSent, TypeOK, QueueTypes
      <4>2. 1 \in 1..Len(queue) /\ mess = queue[1]
        BY <4>1
      <4>3. QED BY <4>2 DEF Queued
    <3>2. /\ mess[1] \in Captured /\ mess[2] \in 1..Len(evlog[mess[1]])
          /\ At(mess).ok /\ At(mess).time >= lastRun
      BY <2>3, <3>1 DEF QueueOK
    <3>3. mess = <<mess[1], mess[2]>> /\ mess[1] \in Logs
      BY <3>2, ConstantsAssumption DEF TypeOK, QueueTypes, Entry, App, Logs
    <3>4. mess \in Abstract!Written
      BY <3>2, <3>3 DEF Abstract!Written
    <3>5. At(mess).time >= since
      <4>1. At(mess).time \in Nat
        BY <3>2, <3>3, RecordTimes, ConstantsAssumption DEF TypeOK, At
      <4>2. since \in Nat /\ lastRun \in Nat /\ since <= lastRun
        BY ConstantsAssumption DEF Times, TypeOK, Numbers
      <4>3. QED BY <3>2, <4>1, <4>2
    <3>6. Abstract!Promised(mess) /\ Abstract!At(mess).time >= lastRun
      BY <3>2, <3>5 DEF Abstract!Promised, Abstract!At, At
    <3>7. delivered' = delivered \cup {mess}
      BY <1>2, <2>3 DEF Send
    <3>8. Abstract!Deliver
      BY <2>1, <3>4, <3>6, <3>7 DEF Abstract!Deliver
    <3>9. QED BY <3>8 DEF Abstract!Next
  <2>4. QED BY <2>2, <2>3
<1>3. ASSUME WriteLastRun PROVE Abstract!Commit
  <2>1. /\ lastRun' = thisrun /\ UNCHANGED <<evlog, delivered, abandoned>>
        /\ since' = IF lastRun = 0 THEN thisrun ELSE since
    BY <1>3 DEF WriteLastRun
  <2>2. Pending
    BY <1>3 DEF WriteLastRun, Handshake, Pending
  <2>3. thisrun \in 1..MaxTime /\ thisrun >= lastRun /\ lastRun \in Nat
    BY <2>2, ConstantsAssumption DEF Times, TypeOK, Numbers
  <2>4. CASE lastRun = 0
    BY <2>1, <2>3, <2>4 DEF Abstract!Commit
  <2>5. CASE lastRun > 0
    <3>1. since' = since
      BY <2>1, <2>5
    <3>2. ASSUME NEW e \in Abstract!Written, Abstract!Promised(e),
           Abstract!At(e).time < thisrun
          PROVE  e \in delivered \cup abandoned
      <4>1. PICK l \in Logs : \E i \in 1..Len(evlog[l]) : e = <<l, i>>
        BY DEF Abstract!Written
      <4>2. PICK i \in 1..Len(evlog[l]) : e = <<l, i>>
        BY <4>1
      <4>3. Promised(l, i)' /\ evlog'[l][i].time < lastRun'
        BY <2>1, <3>1, <3>2, <4>2 DEF Promised, Abstract!Promised, Abstract!At
      <4>4. i \in 1..Len(evlog'[l])
        BY <2>1
      <4>5. QED BY <2>1, <4>2, <4>3, <4>4, CommitSafeStep DEF CommitSafe
    <3>3. QED BY <2>1, <2>3, <2>5, <3>1, <3>2 DEF Abstract!Commit
  <2>6. QED BY <2>3, <2>4, <2>5
<1>4. CASE ~Send /\ ~WriteLastRun /\ evlog' = evlog
  <2>1. UNCHANGED <<evlog, lastRun, since, delivered>>
    BY <1>4, DiskFrame, DeliveredFrame
  <2>2. abandoned' = abandoned \cup (abandoned' \ abandoned)
    BY HistoryFrame
  <2>3. abandoned' \ abandoned \in SUBSET Abstract!Written
    BY AbandonedWritten
  <2>4. Abstract!Forfeit
    BY <2>1, <2>2, <2>3 DEF Abstract!Forfeit
  <2>5. QED BY <2>4 DEF Abstract!Next
<1>5. QED BY <1>1, <1>2, <1>3, <1>4, LogFrame DEF Abstract!Next

\* The agent keeps the promise EventDelivery states, for every selection of
\* failures, up to the records it abandons.
THEOREM Refinement == Spec => Implements
<1>1. Init => Abstract!Init
  <2> SUFFICES ASSUME Init PROVE Abstract!Init
    OBVIOUS
  <2>1. <<>> \in Seq(Abstract!Record)
    OBVIOUS
  <2>2. QED BY <2>1 DEF Init, Abstract!Init
<1>2. IInv /\ [Next]_vars => [Abstract!Next]_(Abstract!vars)
  BY NextImplements
<1>3. QED BY <1>1, <1>2, Invariance, PTL DEF Spec, Implements, Abstract!Spec
===============================================================================
