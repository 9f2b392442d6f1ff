------------------------- MODULE EventLogReaderProofs -------------------------
(***************************************************************************)
(* For every size of log, buffer and search: FindFirstReadPos steps over   *)
(* no record of the window, a poll that is neither disturbed nor mistaken  *)
(* passes on every record of its window, no record is passed on twice, and *)
(* every step of a poll brings it nearer to its end.                       *)
(***************************************************************************)
EXTENDS EventLogReader, FiniteSetTheorems, TLAPS

\* A record before n is older than the window.
OlderBefore(n) == \A m \in Log : m < n => written[m] < lastrun

\* The clock does not step back, so neither do the records.
Times ==
  /\ lastrun <= thisrun /\ thisrun <= now
  /\ \A n \in Log : written[n] <= now
  /\ \A m, n \in Log : m <= n => written[m] <= written[n]

\* Whether the records before recordOffset belong to earlier windows, or to
\* this one and the poll has passed them.
Past == IF pc = "done" \/ (pc = "read" /\ ~initial) THEN thisrun ELSE lastrun

\* What recordOffset says of the log, unless the log was cleared since.
Remembered ==
  /\ pc = "open" /\ recordOffset # 0 => initial
  /\ pc \in {"findmin", "findmax", "search", "position"} => recordOffset = 0
  /\ pc = "read" /\ initial => recordCounter = recordOffset /\ recordOffset # 0
  /\ recordOffset # 0 /\ ~confused =>
       \/ cleared
       \/ /\ recordOffset <= newest
          /\ \A n \in Log : n < recordOffset => written[n] < Past

\* What FindFirstReadPos has found out.
Ahead ==
  ~confused =>
    /\ pc \in {"findmax", "search"} =>
         /\ minPos <= newest /\ OlderBefore(minPos)
         /\ ~disturbed => oldest <= minPos
    /\ pc = "position" /\ recordCounter # 0 =>
         /\ recordCounter <= newest /\ OlderBefore(recordCounter)
         /\ ~disturbed => oldest <= recordCounter

\* What was read so far.
Passed ==
  ~confused /\ ~disturbed /\ ~mistaken =>
    /\ pc = "read" /\ ~initial =>
         /\ oldest <= recordCounter
         /\ \A n \in Log : n < recordCounter /\ InWindow(n) => n \in queued
    /\ pc = "done" => \A n \in Log : InWindow(n) => n \in queued

\* The records passed on are those of earlier windows, and those of this one
\* that are before recordCounter.
Queued ==
  /\ ~twice
  /\ \A n \in queued : n <= newest
  /\ \A n \in queued \cap Log :
       written[n] < lastrun \/ (/\ written[n] < thisrun
                               /\ \/ pc = "done"
                                  \/ pc = "read" /\ ~initial /\ n < recordCounter)

Inv == TypeOK /\ Times /\ Remembered /\ Ahead /\ Passed /\ Queued
-----------------------------------------------------------------------------
\* What Write does to the log.
LEMMA WriteFacts ==
  ASSUME TypeOK, Write
  PROVE  /\ newest' = newest + 1 /\ (oldest' = oldest \/ oldest' = oldest + 1)
         /\ newest' \in Log' /\ written'[newest'] = now
         /\ \A n \in Log' : n # newest' => n \in Log /\ written'[n] = written[n]
         /\ oldest' # oldest /\ pc # "idle" => disturbed'
         /\ disturbed => disturbed'
<1>1. newest' = newest + 1 /\ (oldest' = oldest \/ oldest' = oldest + 1)
  BY DEF Write
<1>2. newest' \in Log' /\ \A n \in Log' : n # newest' => n \in Log
  <2>1. oldest \in Nat \ {0} /\ newest \in Nat /\ newest >= oldest - 1
    BY DEF TypeOK
  <2>4. ASSUME oldest <= newest PROVE oldest' <= newest'
    BY <1>1, <2>1, <2>4
  <2>5. ASSUME newest = oldest - 1 PROVE oldest' <= newest'
    <3>1. Cardinality(Log) = 0
      <4>1. Log = {}
        BY <2>1, <2>5 DEF Log
      <4> QED BY <4>1, FS_EmptySet
    <3>2. oldest' = oldest
      BY <3>1, ReaderAssumption DEF Write
    <3> QED BY <1>1, <2>1, <2>5, <3>2
  <2>6. oldest' \in Nat /\ newest' \in Nat /\ oldest' >= oldest /\ oldest' <= newest'
    BY <1>1, <2>1, <2>4, <2>5
  <2>3. Log' = oldest'..newest'
    BY DEF Log
  <2> QED BY <1>1, <2>1, <2>6, <2>3 DEF Log
<1>3. written' = [n \in Log' |-> IF n = newest' THEN now ELSE written[n]]
  BY DEF Write, Log
<1>4. disturbed' = (disturbed \/ (pc # "idle" /\ oldest' # oldest))
  BY DEF Write
<1> QED BY <1>1, <1>2, <1>3, <1>4

\* Write leaves the reader's variables alone.
LEMMA WriteFrame ==
  ASSUME Write
  PROVE  /\ UNCHANGED <<now, lastrun, thisrun, recordOffset, verificationTime>>
         /\ UNCHANGED <<pc, initial, minPos, maxPos, probe, recordCounter>>
         /\ UNCHANGED <<queued, twice, confused, cleared, mistaken>>
BY DEF Write, clock, position, search

\* Where the records of the log are, and what they are.
LEMMA LogType ==
  ASSUME TypeOK
  PROVE  /\ oldest \in Nat \ {0} /\ newest \in Nat /\ Log \in SUBSET Nat
         /\ \A n \in Log : written[n] \in Nat /\ oldest <= n /\ n <= newest
<1>1. oldest \in Nat \ {0} /\ newest \in Nat /\ written \in [Log -> Nat]
  BY DEF TypeOK
<1> QED BY <1>1 DEF Log

\* A new record does not disturb what recordOffset says.
LEMMA RememberedWrite == ASSUME Inv, Write PROVE Remembered'
<1>1. TypeOK /\ Times /\ Remembered
  BY DEF Inv
<1>2. /\ newest' = newest + 1 /\ newest \in Nat /\ recordOffset \in Nat
      /\ now \in Nat /\ verificationTime \in Nat
  BY <1>1, WriteFacts DEF TypeOK
<1>3. Past' = Past
  BY WriteFrame DEF Past
<1>4. ASSUME recordOffset <= newest, \A n \in Log : n < recordOffset => written[n] < Past
      PROVE  /\ recordOffset <= newest'
             /\ \A n \in Log' : n < recordOffset => written'[n] < Past
  BY <1>1, <1>2, <1>4, WriteFacts
<1> QED BY <1>1, <1>3, <1>4, WriteFrame DEF Remembered

\* Nor what the search found out.
LEMMA AheadWrite == ASSUME Inv, Write PROVE Ahead'
<1>1. TypeOK /\ Ahead /\ newest \in Nat /\ minPos \in Nat /\ recordCounter \in Nat
  BY DEF Inv, TypeOK
<1>2. newest' = newest + 1 /\ (disturbed => disturbed')
  BY <1>1, WriteFacts
<1>3. ASSUME NEW m \in Nat, m <= newest, OlderBefore(m)
      PROVE  m <= newest' /\ \A n \in Log' : n < m => written'[n] < lastrun
  BY <1>1, <1>2, <1>3, WriteFacts, WriteFrame DEF OlderBefore
<1>4. pc # "idle" /\ ~disturbed' => oldest' = oldest
  BY <1>1, WriteFacts
<1>5. CASE confused
  BY <1>5, WriteFrame DEF Ahead
<1>6. CASE ~confused /\ pc \in {"findmax", "search"}
  <2>1. minPos <= newest' /\ \A n \in Log' : n < minPos => written'[n] < lastrun
    BY <1>1, <1>3, <1>6 DEF Ahead
  <2>2. ~disturbed' => oldest' <= minPos
    BY <1>1, <1>2, <1>4, <1>6 DEF Ahead
  <2> QED BY <1>6, <2>1, <2>2, WriteFrame DEF Ahead, OlderBefore
<1>7. CASE ~confused /\ pc = "position" /\ recordCounter # 0
  <2>1. recordCounter <= newest' /\ \A n \in Log' : n < recordCounter => written'[n] < lastrun
    BY <1>1, <1>3, <1>7 DEF Ahead
  <2>2. ~disturbed' => oldest' <= recordCounter
    BY <1>1, <1>2, <1>4, <1>7 DEF Ahead
  <2> QED BY <1>7, <2>1, <2>2, WriteFrame DEF Ahead, OlderBefore
<1>8. CASE pc \notin {"findmax", "search", "position"} \/ (pc = "position" /\ recordCounter = 0)
  BY <1>8, WriteFrame DEF Ahead
<1> QED BY <1>5, <1>6, <1>7, <1>8

\* The new record is later than the window.
LEMMA PassedWrite == ASSUME Inv, Write PROVE Passed'
<1>1. /\ TypeOK /\ Times /\ Passed
      /\ now \in Nat /\ thisrun \in Nat /\ lastrun \in Nat /\ newest \in Nat
  BY DEF Inv, TypeOK
<1>2. \A n \in Log' : InWindow(n)' => n \in Log /\ InWindow(n)
  <2> SUFFICES ASSUME NEW n \in Log', lastrun' <= written'[n], written'[n] < thisrun'
               PROVE  n \in Log /\ InWindow(n)
    BY DEF InWindow
  <2>1. n # newest'
    BY <1>1, WriteFacts, WriteFrame DEF Times
  <2> QED BY <1>1, <2>1, WriteFacts, WriteFrame DEF InWindow
<1>3. pc # "idle" /\ ~disturbed' => oldest' = oldest
  BY <1>1, WriteFacts
<1>4. disturbed => disturbed'
  BY <1>1, WriteFacts
<1> QED BY <1>1, <1>2, <1>3, <1>4, WriteFrame DEF Passed

\* What a buffer does to recordOffset: it is the last record before the end of the window.
LEMMA PositionRead ==
  ASSUME TypeOK, NEW last \in Log, recordCounter \in Log, Read(last)
  PROVE  /\ recordCounter..last \subseteq Log
         /\ \/ UNCHANGED <<recordOffset, verificationTime, cleared>>
            \/ /\ recordOffset' \in recordCounter..last /\ written[recordOffset'] < thisrun
               /\ verificationTime' = generated[recordOffset'] /\ cleared' = FALSE
<1> DEFINE seen == {n \in recordCounter..last : written[n] < thisrun}
<1>1. recordCounter..last \subseteq Log
  BY LogType DEF Log
<1>2. CASE seen = {}
  BY <1>1, <1>2 DEF Read, position
<1>3. CASE seen # {}
  <2>1. /\ \E n \in seen : recordOffset' = n /\ verificationTime' = generated[n]
        /\ cleared' = FALSE
    BY <1>3 DEF Read
  <2>2. QED BY <1>1, <2>1
<1>4. QED BY <1>2, <1>3

\* Whether another record was taken for the one remembered.
LEMMA MistakenRead ==
  ASSUME TypeOK, ReadBuffer
  PROVE  /\ mistaken => mistaken'
         /\ initial /\ cleared => mistaken'
         /\ mistaken' \in BOOLEAN
<1>1. mistaken' = (mistaken \/ Mistaken) /\ ~Changed
  BY Zenon DEF ReadBuffer
<1>2. recordCounter \in Log
  BY DEF ReadBuffer
<1>3. initial /\ cleared => Mistaken
  BY <1>1, <1>2 DEF Changed, Mistaken
<1>4. QED BY <1>1, <1>3, Zenon

\* The records of the buffer are none of those passed on before.
LEMMA QueuedRead == ASSUME Inv, ReadBuffer PROVE Queued'
<1>1. PICK last \in Log : recordCounter <= last /\ recordCounter \in Log /\ Read(last)
  BY DEF ReadBuffer
<1>2. /\ Log' = Log /\ pc = "read" /\ pc' = "read" /\ initial' = FALSE /\ ~Changed
      /\ UNCHANGED <<lastrun, thisrun, newest, written>>
  BY DEF ReadBuffer, clock, records, Log
<1>3. recordCounter' = last + 1
  BY <1>1 DEF Read
<1>4. TypeOK /\ Queued /\ Times /\ lastrun \in Nat /\ thisrun \in Nat
  BY DEF Inv, TypeOK
<1> DEFINE pass == {n \in recordCounter..last : InWindow(n)}
<1>5. \A n \in pass : n \in Log /\ InWindow(n) /\ recordCounter <= n /\ n <= last
  BY <1>1, <1>4, LogType DEF Log
<1>6. pass \cap queued = {}
  <2> SUFFICES ASSUME NEW n \in pass, n \in queued PROVE FALSE
    OBVIOUS
  <2>1. n \in Nat /\ recordCounter \in Nat /\ written[n] \in Nat /\ lastrun <= written[n]
    BY <1>1, <1>4, <1>5, LogType DEF InWindow
  <2>2. ~(written[n] < lastrun) /\ ~(n < recordCounter)
    BY <1>4, <1>5, <2>1
  <2> QED BY <1>2, <1>4, <1>5, <2>2 DEF Queued
<1>7. queued' = queued \cup pass /\ (twice' <=> twice \/ pass \cap queued # {})
  BY <1>1 DEF Read
<1>8. ~twice'
  BY <1>4, <1>6, <1>7 DEF Queued
<1>9. \A n \in queued' : n <= newest
  BY <1>4, <1>5, <1>7, LogType DEF Queued
<1>10. \A n \in queued' \cap Log :
          written[n] < lastrun \/ (written[n] < thisrun /\ n < last + 1)
  <2>1. ASSUME NEW n \in pass PROVE written[n] < thisrun /\ n < last + 1
    BY <1>1, <1>4, <1>5, LogType DEF InWindow
  <2>2. ASSUME NEW n \in queued \cap Log
        PROVE  written[n] < lastrun \/ (written[n] < thisrun /\ n < last + 1)
    BY <1>1, <1>2, <1>4, LogType DEF Queued
  <2> QED BY <1>7, <2>1, <2>2
<1> QED BY <1>2, <1>3, <1>8, <1>9, <1>10 DEF Queued

\* No step breaks a type.
LEMMA TypeStep == ASSUME Inv, [Next]_vars PROVE TypeOK'
<1> USE DEF Inv, TypeOK, clock, records, position, search, history, Log
<1>1. CASE Tick
  BY <1>1 DEF Tick
<1>2. CASE Write
  BY <1>2, SMTT(30) DEF Write
<1>3. CASE Clear
  BY <1>3 DEF Clear
<1>4. CASE Restart
  <2>1. recordOffset' \in Nat /\ verificationTime' \in Nat /\ queued' \in SUBSET Nat
        /\ minPos' \in Nat /\ maxPos' \in Nat /\ probe' \in Int /\ recordCounter' \in Nat
    BY <1>4 DEF Restart
  <2>2. pc' = "idle" /\ confused' = FALSE /\ cleared' = FALSE
        /\ UNCHANGED <<clock, records, initial, twice, disturbed, mistaken>>
    BY <1>4 DEF Restart
  <2>3. QED BY <2>1, <2>2
<1>5. CASE Poll
  BY <1>5 DEF Poll
<1>6. CASE OpenLog
  BY <1>6 DEF OpenLog
<1>7. CASE OpenFails
  BY <1>7 DEF OpenFails
<1>8. CASE FindMin
  BY <1>8 DEF FindMin
<1>9. CASE FindMax
  BY <1>9 DEF FindMax, Beyond
<1>10. CASE FindNothing
  BY <1>10 DEF FindNothing, Return
<1>11. CASE Found
  BY <1>11 DEF Found, Return, NearEnough
<1>12. CASE Halve
  <2>1. probe \in Nat /\ (minPos' = probe \/ minPos' = minPos) /\ (maxPos' = probe \/ maxPos' = maxPos)
    <3>1. probe \in Log
      BY <1>12 DEF Halve
    <3> QED BY <1>12, <3>1, LogType DEF Halve
  <2>2. minPos' \in Nat /\ maxPos' \in Nat
    BY <2>1
  <2>3. probe' \in Int
    BY <1>12, <2>2 DEF Halve
  <2> QED BY <1>12, <2>2, <2>3 DEF Halve
<1>13. CASE Position
  BY <1>13 DEF Position, First
<1>14. CASE Eject
  BY <1>14 DEF Eject, First
<1>15. CASE StartFromScratch
  BY <1>15 DEF StartFromScratch, Changed
<1>16. CASE ReadBuffer
  <2>1. PICK last \in Log : recordCounter \in Log /\ Read(last)
    BY <1>16 DEF ReadBuffer
  <2>2. last \in Nat /\ recordCounter' \in Nat
    BY <2>1 DEF Read
  <2>3. queued' \in SUBSET Nat
    <3>1. {n \in recordCounter..last : InWindow(n)} \in SUBSET Nat
      BY <2>1, <2>2
    <3>2. queued' = queued \cup {n \in recordCounter..last : InWindow(n)}
      BY <2>1 DEF Read
    <3> QED BY <3>1, <3>2
  <2>4. twice' \in BOOLEAN
    BY <2>1 DEF Read
  <2>5. recordOffset' \in Nat /\ verificationTime' \in Nat
    <3>1. \A n \in Log : n \in Nat /\ generated[n] \in Nat
      OBVIOUS
    <3> QED BY <2>1, <3>1, PositionRead
  <2>6. initial' = FALSE /\ UNCHANGED <<clock, records, pc, search, disturbed, confused>>
        /\ cleared' \in BOOLEAN /\ mistaken' \in BOOLEAN
    BY <1>16, <2>1, PositionRead, MistakenRead DEF ReadBuffer
  <2> QED BY <2>2, <2>3, <2>4, <2>5, <2>6
<1>17. CASE EndOfLog
  BY <1>17 DEF EndOfLog
<1>18. CASE Commit
  BY <1>18 DEF Commit
<1>19. CASE UNCHANGED vars
  BY <1>19 DEF vars
<1>20. CASE FindFails
  BY <1>20 DEF FindFails, Return
<1> QED BY <1>1, <1>2, <1>3, <1>4, <1>5, <1>6, <1>7, <1>8, <1>9, <1>10, <1>11, <1>12, <1>13, <1>14, <1>15, <1>16, <1>17, <1>18, <1>19, <1>20
         DEF Next, Environment, Reader, FindFirstReadPos, Failure

\* The records stay in the order of time.
LEMMA TimesStep == ASSUME Inv, [Next]_vars PROVE Times'
<1> USE DEF Inv, TypeOK, Times, clock, records, position, search, history, Log
<1>1. CASE Tick
  BY <1>1 DEF Tick
<1>2. CASE Write
  BY <1>2 DEF Write
<1>3. CASE Clear
  BY <1>3 DEF Clear
<1>4. CASE Restart
  BY <1>4 DEF Restart
<1>5. CASE Poll
  BY <1>5 DEF Poll
<1>6. CASE OpenLog
  BY <1>6 DEF OpenLog
<1>7. CASE OpenFails
  BY <1>7 DEF OpenFails
<1>8. CASE FindMin
  BY <1>8 DEF FindMin
<1>9. CASE FindMax
  BY <1>9 DEF FindMax, Beyond
<1>10. CASE FindNothing
  BY <1>10 DEF FindNothing, Return
<1>11. CASE Found
  BY <1>11 DEF Found, Return, NearEnough
<1>12. CASE Halve
  BY <1>12 DEF Halve, NearEnough
<1>13. CASE Position
  BY <1>13 DEF Position, First
<1>14. CASE Eject
  BY <1>14 DEF Eject, First
<1>15. CASE StartFromScratch
  BY <1>15 DEF StartFromScratch, Changed
<1>16. CASE ReadBuffer
  BY <1>16 DEF ReadBuffer, Changed, Read
<1>17. CASE EndOfLog
  BY <1>17 DEF EndOfLog
<1>18. CASE Commit
  BY <1>18 DEF Commit
<1>19. CASE UNCHANGED vars
  BY <1>19 DEF vars
<1>20. CASE FindFails
  BY <1>20 DEF FindFails, Return
<1> QED BY <1>1, <1>2, <1>3, <1>4, <1>5, <1>6, <1>7, <1>8, <1>9, <1>10, <1>11, <1>12, <1>13, <1>14, <1>15, <1>16, <1>17, <1>18, <1>19, <1>20
         DEF Next, Environment, Reader, FindFirstReadPos, Failure

\* recordOffset stays good to go on from, or is seen to be of another log.
LEMMA RememberedStep == ASSUME Inv, [Next]_vars PROVE Remembered'
<1> USE DEF Inv, TypeOK, Times, Remembered, Past, clock, records, position, search, history, Log
<1>1. CASE Tick
  BY <1>1 DEF Tick
<1>2. CASE Write
  BY <1>2, RememberedWrite
<1>3. CASE Clear
  <2>1. Log' = {}
    BY <1>3 DEF Clear
  <2>2. UNCHANGED <<recordOffset, pc, initial, recordCounter>> /\ cleared'
    BY <1>3 DEF Clear
  <2> QED BY <2>1, <2>2
<1>4. CASE Restart
  BY <1>4 DEF Restart
<1>5. CASE Poll
  BY <1>5 DEF Poll
<1>6. CASE OpenLog
  BY <1>6 DEF OpenLog
<1>7. CASE OpenFails
  BY <1>7 DEF OpenFails
<1>8. CASE FindMin
  BY <1>8 DEF FindMin
<1>9. CASE FindMax
  BY <1>9 DEF FindMax, Beyond
<1>10. CASE FindNothing
  BY <1>10 DEF FindNothing, Return
<1>11. CASE Found
  BY <1>11 DEF Found, Return, NearEnough
<1>12. CASE Halve
  BY <1>12 DEF Halve, NearEnough
<1>13. CASE Position
  <2>1. recordOffset' = First /\ recordCounter' = First /\ First \in Log /\ pc' = "read"
    BY <1>13 DEF Position
  <2>2. UNCHANGED <<clock, records, initial, confused>>
    BY <1>13 DEF Position
  <2>3. ~confused => \A n \in Log : n < First => written[n] < lastrun
    BY <1>13 DEF Position, First, Ahead, OlderBefore
  <2>4. First # 0 /\ First <= newest
    BY <2>1
  <2> QED BY <2>1, <2>2, <2>3, <2>4
<1>14. CASE Eject
  BY <1>14 DEF Eject, First
<1>15. CASE StartFromScratch
  BY <1>15 DEF StartFromScratch, Changed
<1>16. CASE ReadBuffer
  <2>1. PICK last \in Log : recordCounter \in Log /\ Read(last)
    BY <1>16 DEF ReadBuffer
  <2>2. pc = "read" /\ pc' = "read" /\ initial' = FALSE
        /\ UNCHANGED <<clock, records, confused>>
    BY <1>16 DEF ReadBuffer
  <2>3. CASE UNCHANGED <<recordOffset, verificationTime, cleared>>
    <3>1. Past' = thisrun /\ (Past = lastrun \/ Past = thisrun) /\ Log' = Log
      BY <2>2
    <3>2. \A n \in Log : written[n] < Past => written[n] < thisrun
      BY <3>1, LogType
    <3>3. QED BY <2>2, <2>3, <3>1, <3>2
  <2>4. CASE /\ recordOffset' \in recordCounter..last /\ written[recordOffset'] < thisrun
             /\ cleared' = FALSE
    <3>1. recordOffset' \in Log /\ recordOffset' <= newest
      BY <2>1, <2>4, PositionRead, LogType
    <3>2. \A n \in Log : n < recordOffset' => written[n] < thisrun
      BY <2>4, <3>1, LogType
    <3>3. QED BY <2>2, <3>1, <3>2
  <2>5. QED BY <2>1, <2>3, <2>4, PositionRead
<1>17. CASE EndOfLog
  BY <1>17 DEF EndOfLog
<1>18. CASE Commit
  BY <1>18 DEF Commit
<1>19. CASE UNCHANGED vars
  BY <1>19 DEF vars
<1>20. CASE FindFails
  BY <1>20 DEF FindFails, Return
<1> QED BY <1>1, <1>2, <1>3, <1>4, <1>5, <1>6, <1>7, <1>8, <1>9, <1>10, <1>11, <1>12, <1>13, <1>14, <1>15, <1>16, <1>17, <1>18, <1>19, <1>20
         DEF Next, Environment, Reader, FindFirstReadPos, Failure

\* The search stays in front of the window.
LEMMA AheadStep == ASSUME Inv, [Next]_vars PROVE Ahead'
<1> USE DEF Inv, TypeOK, Times, Ahead, OlderBefore, clock, records, position, search, history, Log
<1>1. CASE Tick
  BY <1>1 DEF Tick
<1>2. CASE Write
  BY <1>2, AheadWrite
<1>3. CASE Clear
  BY <1>3 DEF Clear
<1>4. CASE Restart
  BY <1>4 DEF Restart
<1>5. CASE Poll
  BY <1>5 DEF Poll
<1>6. CASE OpenLog
  BY <1>6 DEF OpenLog
<1>7. CASE OpenFails
  BY <1>7 DEF OpenFails
<1>8. CASE FindMin
  BY <1>8 DEF FindMin
<1>9. CASE FindMax
  BY <1>9 DEF FindMax, Beyond
<1>10. CASE FindNothing
  BY <1>10 DEF FindNothing, Return
<1>11. CASE Found
  BY <1>11 DEF Found, Return, NearEnough
<1>12. CASE Halve
  <2>1. /\ pc = "search" /\ pc' = "search" /\ probe \in Log
        /\ UNCHANGED <<clock, records, disturbed, confused>>
        /\ \/ minPos' = minPos
           \/ minPos' = probe /\ written[probe] < lastrun
    BY <1>12, LogType, SMTT(30) DEF Halve
  <2>2. minPos' = probe /\ written[probe] < lastrun => OlderBefore(probe)
    BY <2>1, LogType
  <2>3. QED BY <2>1, <2>2, LogType
<1>13. CASE Position
  BY <1>13 DEF Position, First
<1>14. CASE Eject
  BY <1>14 DEF Eject, First
<1>15. CASE StartFromScratch
  BY <1>15 DEF StartFromScratch, Changed
<1>16. CASE ReadBuffer
  BY <1>16 DEF ReadBuffer, Changed, Read
<1>17. CASE EndOfLog
  BY <1>17 DEF EndOfLog
<1>18. CASE Commit
  BY <1>18 DEF Commit
<1>19. CASE UNCHANGED vars
  BY <1>19 DEF vars
<1>20. CASE FindFails
  BY <1>20 DEF FindFails, Return
<1> QED BY <1>1, <1>2, <1>3, <1>4, <1>5, <1>6, <1>7, <1>8, <1>9, <1>10, <1>11, <1>12, <1>13, <1>14, <1>15, <1>16, <1>17, <1>18, <1>19, <1>20
         DEF Next, Environment, Reader, FindFirstReadPos, Failure

\* What was gone through was passed on.
LEMMA PassedStep == ASSUME Inv, [Next]_vars PROVE Passed'
<1> USE DEF Inv, TypeOK, Times, Remembered, Past, Ahead, Passed, OlderBefore, InWindow, clock, records, position, search, history, Log
<1>1. CASE Tick
  BY <1>1 DEF Tick
<1>2. CASE Write
  BY <1>2, PassedWrite
<1>3. CASE Clear
  BY <1>3 DEF Clear
<1>4. CASE Restart
  BY <1>4 DEF Restart
<1>5. CASE Poll
  BY <1>5 DEF Poll
<1>6. CASE OpenLog
  BY <1>6 DEF OpenLog
<1>7. CASE OpenFails
  BY <1>7 DEF OpenFails
<1>8. CASE FindMin
  BY <1>8 DEF FindMin
<1>9. CASE FindMax
  BY <1>9 DEF FindMax, Beyond
<1>10. CASE FindNothing
  BY <1>10 DEF FindNothing, Return
<1>11. CASE Found
  BY <1>11 DEF Found, Return, NearEnough
<1>12. CASE Halve
  BY <1>12 DEF Halve, NearEnough
<1>13. CASE Position
  BY <1>13 DEF Position, First
<1>14. CASE Eject
  BY <1>14 DEF Eject, First
<1>15. CASE StartFromScratch
  BY <1>15 DEF StartFromScratch, Changed
<1>16. CASE ReadBuffer
  <2>1. PICK last \in Log : recordCounter \in Log /\ recordCounter <= last /\ Read(last)
    BY <1>16 DEF ReadBuffer
  <2>2. pc = "read" /\ pc' = "read" /\ initial' = FALSE
        /\ UNCHANGED <<clock, records, disturbed, confused>>
    BY <1>16 DEF ReadBuffer
  <2>3. queued' = queued \cup {n \in recordCounter..last : InWindow(n)}
        /\ recordCounter' = last + 1
    BY <2>1 DEF Read
  <2> SUFFICES ASSUME ~confused, ~disturbed, ~mistaken'
               PROVE  /\ oldest <= last + 1
                      /\ \A n \in Log : n < last + 1 /\ InWindow(n) => n \in queued'
    BY <2>2, <2>3
  <2>4. ~mistaken /\ ~(initial /\ cleared)
    BY <1>16, MistakenRead
  <2>5. \A n \in Log : n < recordCounter /\ InWindow(n) => n \in queued
    <3>1. CASE initial
      <4>1. \A n \in Log : n < recordCounter => written[n] < lastrun
        BY <2>2, <2>4, <3>1
      <4>2. QED BY <4>1, LogType
    <3>2. CASE ~initial
      BY <2>2, <2>4, <3>2
    <3>3. QED BY <3>1, <3>2
  <2>6. QED BY <2>1, <2>3, <2>5, LogType
<1>17. CASE EndOfLog
  BY <1>17 DEF EndOfLog
<1>18. CASE Commit
  BY <1>18 DEF Commit
<1>19. CASE UNCHANGED vars
  BY <1>19 DEF vars
<1>20. CASE FindFails
  BY <1>20 DEF FindFails, Return
<1> QED BY <1>1, <1>2, <1>3, <1>4, <1>5, <1>6, <1>7, <1>8, <1>9, <1>10, <1>11, <1>12, <1>13, <1>14, <1>15, <1>16, <1>17, <1>18, <1>19, <1>20
         DEF Next, Environment, Reader, FindFirstReadPos, Failure

\* What was passed on is behind the reader.
LEMMA QueuedStep == ASSUME Inv, [Next]_vars PROVE Queued'
<1> USE DEF Inv, TypeOK, Times, Remembered, Past, Queued, InWindow, clock, records, position, search, history, Log
<1>1. CASE Tick
  BY <1>1 DEF Tick
<1>2. CASE Write
  BY <1>2 DEF Write
<1>3. CASE Clear
  BY <1>3 DEF Clear
<1>4. CASE Restart
  BY <1>4 DEF Restart
<1>5. CASE Poll
  BY <1>5 DEF Poll
<1>6. CASE OpenLog
  BY <1>6 DEF OpenLog
<1>7. CASE OpenFails
  BY <1>7 DEF OpenFails
<1>8. CASE FindMin
  BY <1>8 DEF FindMin
<1>9. CASE FindMax
  BY <1>9 DEF FindMax, Beyond
<1>10. CASE FindNothing
  BY <1>10 DEF FindNothing, Return
<1>11. CASE Found
  BY <1>11 DEF Found, Return, NearEnough
<1>12. CASE Halve
  BY <1>12 DEF Halve, NearEnough
<1>13. CASE Position
  BY <1>13 DEF Position, First
<1>14. CASE Eject
  BY <1>14 DEF Eject, First
<1>15. CASE StartFromScratch
  BY <1>15 DEF StartFromScratch, Changed
<1>16. CASE ReadBuffer
  BY <1>16, QueuedRead
<1>17. CASE EndOfLog
  BY <1>17 DEF EndOfLog
<1>18. CASE Commit
  BY <1>18 DEF Commit
<1>19. CASE UNCHANGED vars
  BY <1>19 DEF vars
<1>20. CASE FindFails
  BY <1>20 DEF FindFails, Return
<1> QED BY <1>1, <1>2, <1>3, <1>4, <1>5, <1>6, <1>7, <1>8, <1>9, <1>10, <1>11, <1>12, <1>13, <1>14, <1>15, <1>16, <1>17, <1>18, <1>19, <1>20
         DEF Next, Environment, Reader, FindFirstReadPos, Failure

\* An empty log satisfies Inv.
LEMMA InitInv == Init => Inv
<1> SUFFICES ASSUME Init PROVE Inv
  OBVIOUS
<1>1. Log = {} /\ written = << >>
  BY DEF Init, Log
<1>2. written \in [Log -> Nat]
  BY <1>1
<1>3. TypeOK
  <2>1. newest >= oldest - 1 /\ oldest \in Nat \ {0} /\ newest \in Nat
    BY DEF Init
  <2>2. queued \in SUBSET Nat /\ probe \in Int
    BY DEF Init
  <2>3. now \in Nat /\ lastrun \in Nat /\ thisrun \in Nat /\ writes \in Nat /\ clears \in Nat
    BY DEF Init
  <2> QED BY <1>2, <2>1, <2>2, <2>3 DEF Init, TypeOK
<1>4. Times /\ Remembered /\ Ahead /\ Passed /\ Queued
  BY <1>1 DEF Init, Times, Remembered, Ahead, Passed, Queued
<1> QED BY <1>3, <1>4 DEF Inv

\* Inv holds of every behaviour of the reader and the log.
THEOREM ReaderInvariance == Spec => []Inv
<1>1. Inv /\ [Next]_vars => Inv'
  BY TypeStep, TimesStep, RememberedStep, AheadStep, PassedStep, QueuedStep DEF Inv
<1> QED BY InitInv, <1>1, PTL DEF Spec

\* FindFirstReadPos never steps over a record of the window.
THEOREM ReaderStepsOverNothing == Spec => []NothingSteppedOver
<1>1. Inv => NothingSteppedOver
  BY DEF Inv, Ahead, OlderBefore, NothingSteppedOver
<1> QED BY <1>1, ReaderInvariance, PTL

\* eventlog_read_events passes on every record of the window, whatever was
\* overwritten or cleared before the poll, unless it takes a record with the number and
\* the TimeGenerated of the one remembered for that one, after the log was cleared.
THEOREM ReaderReadsWindow == Spec => []WindowRead
<1>1. Inv => WindowRead
  BY DEF Inv, Passed, WindowRead
<1> QED BY <1>1, ReaderInvariance, PTL

\* eventlog_read_events passes on no record twice.
THEOREM ReaderReadsOnce == Spec => []NotTwice
<1>1. Inv => NotTwice
  BY DEF Inv, Queued, NotTwice
<1> QED BY <1>1, ReaderInvariance, PTL

\* Every variable of the reader keeps its type.
THEOREM ReaderTypes == Spec => []TypeOK
<1>1. Inv => TypeOK
  BY DEF Inv
<1> QED BY <1>1, ReaderInvariance, PTL
-----------------------------------------------------------------------------
(* Why a poll ends. Each step of the reader brings it nearer to the end,   *)
(* and no step of anybody else takes it back: what PollEnds rests on, for  *)
(* every size of log, buffer and search.                                   *)

\* The order in which the reader comes to its places.
Places == <<"failed", "done", "read", "position", "search", "findmax", "findmin", "open">>

\* A step to a later place.
Onward == \E i, j \in 1..8 : i < j /\ pc' = Places[i] /\ pc = Places[j]

\* The probe lies inside the interval, or is of no record.
Inside ==
  pc = "search" =>
    \/ minPos <= maxPos /\ (NearEnough \/ (minPos < probe /\ probe < maxPos))
    \/ probe = Beyond

\* The search goes on, in a smaller interval.
Narrows ==
  /\ pc = "search" /\ pc' = "search"
  /\ minPos <= minPos' /\ minPos' <= maxPos' /\ maxPos' <= maxPos
  /\ maxPos' - minPos' < maxPos - minPos

\* The reading goes on, nearer to the end of the log.
Reads ==
  /\ pc = "read" /\ pc' = "read"
  /\ recordCounter < recordCounter' /\ recordCounter' <= newest + 1

\* The start from scratch is taken once; apart from it the reader goes onward,
\* or goes on in place where only so many steps are left.
Advance ==
  \/ initial /\ ~initial'
  \/ initial' = initial /\ (Onward \/ Narrows \/ Reads)

\* In a poll the reader advances, and the log and its writers leave it where it
\* is; only a restart ends the poll.
Descent ==
  pc \notin {"idle", "done", "failed"} =>
    /\ Reader \/ Failure => Advance
    /\ Tick \/ Write \/ Clear => UNCHANGED <<pc, initial, search, recordCounter>>
    /\ Restart => pc' = "idle"

\* The first probe, nine tenths of the way.
LEMMA FirstProbe ==
  ASSUME NEW low \in Nat, NEW high \in Nat, low <= high, ~(high - low < Near)
  PROVE  LET first == low + (9 * (high - low)) \div 10
         IN  first \in Int /\ low < first /\ first < high
<1>1. Near \in Nat /\ Near >= 2
  BY ReaderAssumption
<1>2. PICK d \in Nat : d = high - low /\ d >= 2
  BY <1>1
<1>3. (9 * d) \div 10 >= 1 /\ (9 * d) \div 10 < d /\ (9 * d) \div 10 \in Int
  BY <1>2
<1> QED BY <1>2, <1>3

\* The middle of an interval.
LEMMA Middle ==
  ASSUME NEW low \in Nat, NEW high \in Nat, low <= high, ~(high - low < Near)
  PROVE  low < (low + high) \div 2 /\ (low + high) \div 2 < high
<1>1. Near \in Nat /\ Near >= 2
  BY ReaderAssumption
<1> QED BY <1>1

\* What a step of the search does to its interval.
LEMMA HalveNarrows ==
  ASSUME TypeOK, Inside, Halve
  PROVE  /\ pc' = "search" /\ initial' = initial /\ Narrows
         /\ minPos' \in Nat /\ maxPos' \in Nat /\ probe' = (minPos' + maxPos') \div 2
<1>1. /\ pc = "search" /\ ~NearEnough /\ probe \in Log
      /\ \/ maxPos' = probe /\ minPos' = minPos
         \/ minPos' = probe /\ maxPos' = maxPos
      /\ probe' = (minPos' + maxPos') \div 2
      /\ pc' = pc /\ initial' = initial
  BY DEF Halve
<1>2. minPos \in Nat /\ maxPos \in Nat /\ probe \in Nat /\ probe # Beyond
  BY <1>1, LogType DEF TypeOK, Beyond, Log
<1>3. minPos < probe /\ probe < maxPos
  BY <1>1, <1>2 DEF Inside
<1> QED BY <1>1, <1>2, <1>3 DEF Narrows

\* The probe stays inside.
LEMMA InsideStep == ASSUME TypeOK, Inside, [Next]_vars PROVE Inside'
<1>1. CASE FindMax
  <2>1. /\ pc' = "search" /\ maxPos' = newest /\ minPos' = minPos
        /\ probe' = IF minPos <= newest THEN minPos + (9 * (newest - minPos)) \div 10
                                       ELSE Beyond
    BY <1>1 DEF FindMax
  <2>2. minPos \in Nat /\ newest \in Nat
    BY DEF TypeOK
  <2>3. CASE minPos <= newest /\ ~(newest - minPos < Near)
    <3>1. minPos < probe' /\ probe' < newest
      BY <2>1, <2>2, <2>3, FirstProbe
    <3> QED BY <2>1, <2>3, <3>1 DEF Inside
  <2>4. CASE minPos <= newest /\ newest - minPos < Near
    BY <2>1, <2>4 DEF Inside, NearEnough
  <2>5. CASE ~(minPos <= newest)
    BY <2>1, <2>5 DEF Inside, Beyond
  <2> QED BY <2>3, <2>4, <2>5
<1>2. CASE Halve
  <2>1. /\ pc' = "search" /\ minPos' \in Nat /\ maxPos' \in Nat /\ minPos' <= maxPos'
        /\ probe' = (minPos' + maxPos') \div 2
    BY <1>2, HalveNarrows DEF Narrows
  <2>2. CASE maxPos' - minPos' < Near
    BY <2>1, <2>2 DEF Inside, NearEnough
  <2>3. CASE ~(maxPos' - minPos' < Near)
    <3>1. minPos' < probe' /\ probe' < maxPos'
      BY <2>1, <2>3, Middle
    <3> QED BY <2>1, <3>1 DEF Inside
  <2> QED BY <2>2, <2>3
<1>3. CASE ~FindMax /\ ~Halve
  <2>1. pc' = "search" => pc = "search" /\ UNCHANGED search
    BY <1>3 DEF Next, Environment, Reader, FindFirstReadPos, Failure, Tick, Write, Clear,
                Restart, Poll, OpenLog, OpenFails, FindMin, FindNothing, FindFails, Found, Return,
                Position, Eject, StartFromScratch, ReadBuffer, EndOfLog, Commit, vars
  <2> QED BY <2>1 DEF Inside, NearEnough, search, Beyond
<1> QED BY <1>1, <1>2, <1>3

\* The buffer holds at least the record the reader is at.
LEMMA ReadAdvances == ASSUME TypeOK, ReadBuffer PROVE Advance
<1>1. PICK last \in Log : recordCounter <= last /\ Read(last)
  BY DEF ReadBuffer
<1>2. pc = "read" /\ pc' = "read" /\ initial' = FALSE
  BY DEF ReadBuffer
<1>3. recordCounter' = last + 1
  BY <1>1 DEF Read
<1>4. recordCounter \in Nat /\ last \in Nat /\ last <= newest /\ newest \in Nat
  BY <1>1, LogType DEF TypeOK
<1>5. Reads
  BY <1>1, <1>2, <1>3, <1>4 DEF Reads
<1>6. initial \in BOOLEAN
  BY DEF TypeOK
<1> QED BY <1>2, <1>5, <1>6 DEF Advance

\* Every step of the reader in a poll is an advance.
LEMMA ReaderAdvances ==
  ASSUME TypeOK, Inside, pc \notin {"idle", "done", "failed"}, Reader \/ Failure
  PROVE  Advance
<1>1. ASSUME NEW i \in 1..8, NEW j \in 1..8, i < j, pc' = Places[i], pc = Places[j],
             initial' = initial
      PROVE  Advance
  BY <1>1 DEF Advance, Onward
<1>2. /\ Places[1] = "failed" /\ Places[2] = "done" /\ Places[3] = "read"
      /\ Places[4] = "position" /\ Places[5] = "search" /\ Places[6] = "findmax"
      /\ Places[7] = "findmin" /\ Places[8] = "open"
  BY DEF Places
<1>3. CASE OpenLog
  BY <1>1, <1>2, <1>3 DEF OpenLog
<1>4. CASE OpenFails
  BY <1>1, <1>2, <1>4 DEF OpenFails
<1>5. CASE FindMin
  BY <1>1, <1>2, <1>5 DEF FindMin
<1>6. CASE FindMax
  BY <1>1, <1>2, <1>6 DEF FindMax
<1>7. CASE FindNothing
  BY <1>1, <1>2, <1>7 DEF FindNothing, Return
<1>8. CASE FindFails
  BY <1>1, <1>2, <1>8 DEF FindFails, Return
<1>9. CASE Found
  BY <1>1, <1>2, <1>9 DEF Found, Return
<1>10. CASE Halve
  BY <1>10, HalveNarrows DEF Advance
<1>11. CASE Position
  BY <1>1, <1>2, <1>11 DEF Position
<1>12. CASE Eject
  BY <1>1, <1>2, <1>12 DEF Eject
<1>13. CASE StartFromScratch
  BY <1>13 DEF StartFromScratch, Changed, Advance
<1>14. CASE ReadBuffer
  BY <1>14, ReadAdvances
<1>15. CASE EndOfLog
  BY <1>1, <1>2, <1>15 DEF EndOfLog
<1>16. ~Poll /\ ~Commit
  BY DEF Poll, Commit
<1> QED BY <1>3, <1>4, <1>5, <1>6, <1>7, <1>8, <1>9, <1>10, <1>11, <1>12, <1>13, <1>14, <1>15,
           <1>16 DEF Reader, FindFirstReadPos, Failure

\* The probe of FindFirstReadPos is always inside its interval, or of no record.
THEOREM ReaderProbesInside == Spec => []Inside
<1>1. Init => Inside
  BY DEF Init, Inside
<1>2. TypeOK /\ Inside /\ [Next]_vars => Inside'
  BY InsideStep
<1> QED BY <1>1, <1>2, ReaderTypes, PTL DEF Spec

\* Every step of eventlog_read_events brings the poll nearer to its end, and
\* no step of the log takes it back.
THEOREM ReaderDescends == Spec => [][Descent]_vars
<1>1. TypeOK /\ Inside /\ [Next]_vars => [Descent]_vars
  <2> SUFFICES ASSUME TypeOK, Inside, Next PROVE Descent
    OBVIOUS
  <2>1. Tick \/ Write \/ Clear => UNCHANGED <<pc, initial, search, recordCounter>>
    BY DEF Tick, Write, Clear
  <2>2. Restart => pc' = "idle"
    BY DEF Restart
  <2> QED BY <2>1, <2>2, ReaderAdvances DEF Descent
<1> QED BY <1>1, ReaderTypes, ReaderProbesInside, PTL DEF Spec
=============================================================================
