-------------------------- MODULE EventResourcesProofs -------------------------
(***************************************************************************)
(* What the scan keeps between records is right for any number of message  *)
(* libraries and of slots for them, any SIDs, and records of any size: the *)
(* buffer is there when it is used, an account belongs to its SID, and a   *)
(* library is loaded when a message is looked up in it.                    *)
(***************************************************************************)
EXTENDS EventResources, WellFoundedInduction, TLAPS

\* Where the scan has a record to look at.
Formatting == {"record", "libs", "search", "compare", "load", "name", "format", "user", "emit"}

\* Where it has the name of a library to look for.
Looking == {"search", "compare", "load", "name", "format"}

Unloading == {"free", "clear"}

\* A read that succeeded has left its record in the buffer, until the next one.
BufferInv ==
  /\ allocated <=> buffer > 0
  /\ pc = "read" => allocated
  /\ pc \in {"idle", "open", "call", "read", "grow"} => ~read.ok
  /\ pc \in {"read", "grow"} => ~read.insufficient
  /\ read.ok => ~read.insufficient /\ read.size \in 1..buffer
  /\ pc \in Formatting => read.ok
  /\ pc \in Unloading => (event.dll # None <=> read.ok)
  /\ pc = "dead" => call = "first" /\ ~read.ok
  /\ pc = "idle" => event.dll = None

\* A valid slot has the account of the SID in it.
UserInv ==
  ~longKnown =>
    /\ \A s \in SidSlots : known[s].valid => known[s].user = known[s].sid
    /\ pc = "emit" => event.user \in {None, event.sid}

Named(s) == slots[s].name # None

\* The last slot is never used, and the scan does not get beyond it.
IndexInv ==
  /\ ~Named(MaxLibraries - 1)
  /\ pc \notin Unloading \cup {"search", "compare", "load", "name"} => i = 0
  /\ pc \in {"compare", "load", "name"} => i <= MaxLibraries - 2
  /\ pc = "search" => i <= MaxLibraries - 1
  /\ pc = "clear" => i \in Slots
  /\ control.at = "clear" => control.i \in Slots
  /\ pc \in Looking => event.dll \in Libraries

\* Where the slots in use begin.
Base == IF pc \in Unloading THEN i ELSE 0

\* The slots in use follow each other, each with a library of its own that is loaded.
TableInv ==
  \A s \in Slots : Named(s) =>
    /\ slots[s].hlib = slots[s].name
    /\ (pc = "clear" /\ s = i) \/ references[slots[s].name] > 0
    /\ s >= Base /\ \A t \in Slots : t >= Base /\ t < s => Named(t)
    /\ \A t \in Slots : Named(t) /\ slots[s].name = slots[t].name => s = t

\* The scan has compared the slots before the one it is at with the library it looks for, and
\* has that library, or one that it found in the table, when it leaves the search.
SearchInv ==
  /\ pc \in {"search", "compare", "load", "name"} =>
       \A s \in Slots : s < i => Named(s) /\ slots[s].name # event.dll
  /\ pc = "compare" => Named(i)
  /\ pc \in {"load", "name"} => ~Named(i)
  /\ pc = "name" => slots[i].hlib = hlib /\ hlib = event.dll /\ references[hlib] > 0
  /\ pc = "format" => hlib \in Libraries /\ references[hlib] > 0 /\ PartOf(hlib, event.dll)

\* Both hold as long as nobody else frees libraries.
LibraryInv == ~stopping => control.at = "none" /\ TableInv /\ SearchInv

Inv == TypeOK /\ BufferInv /\ UserInv /\ IndexInv /\ LibraryInv
-----------------------------------------------------------------------------
USE DEF vars, libraries, scan, resources, Slots

Below == {p \in Nat \X Nat : p[1] < p[2]}

\* A set of natural numbers that is not empty has a least element.
LEMMA MinIsIn ==
  ASSUME NEW S \in SUBSET Nat, S # {}
  PROVE  Min(S) \in S
<1>1. IsWellFoundedOn(Below, Nat)
  <2>1. IsWellFoundedOn({p \in Nat \X Nat : p[1] < p[2]}, Nat)
    BY NatLessThanWellFounded, Zenon DEF OpToRel
  <2>2. QED BY <2>1 DEF Below
<1>2. PICK x \in S : \A y \in S : ~(<<y, x>> \in Below)
  BY <1>1, WFMin, Zenon
<1>3. ASSUME NEW y \in S PROVE x <= y
  <2>1. x \in Nat /\ y \in Nat
    OBVIOUS
  <2>2. y < x => <<y, x>> \in Below
    BY <2>1 DEF Below
  <2>3. QED BY <1>2, <2>1, <2>2
<1>4. QED BY <1>3 DEF Min

\* The buffer asked for is not empty.
LEMMA MultipleIsPositive ==
  ASSUME NEW size \in 0..64
  PROVE  Multiple(size) \in Nat \ {0}
<1> DEFINE S == {m \in {2, 4, 8, 16, 32, 64} : m >= size}
<1>1. S \in SUBSET Nat /\ 64 \in S
  OBVIOUS
<1>2. Min(S) \in S
  BY <1>1, MinIsIn
<1>3. QED BY <1>2 DEF Multiple

\* A slot in which a SID is found is one of the table's, is valid and has that SID.
LEMMA HitIsEntered ==
  ASSUME NEW sid, Hits(sid) # {}
  PROVE  LET s == Min(Hits(sid)) IN s \in SidSlots /\ known[s].valid /\ known[s].sid = sid
<1>1. Hits(sid) \in SUBSET Nat
  BY ResourcesAssumption DEF Hits, Entered, SidSlots
<1>2. Min(Hits(sid)) \in Hits(sid)
  BY <1>1, MinIsIn
<1>3. ASSUME NEW s \in Hits(sid) PROVE s \in SidSlots /\ known[s].valid /\ known[s].sid = sid
  BY ResourcesAssumption DEF Hits, Entered, SidSlots
<1>4. QED BY <1>2, <1>3

\* What the steps make of the result of a read is one.
LEMMA ResultTypes ==
  /\ Nothing \in Results
  /\ \A n \in 0..64 : [Nothing EXCEPT !.size = n] \in Results
  /\ \A r \in Results : [r EXCEPT !.ok = TRUE] \in Results
  /\ \A r \in Results, b \in BOOLEAN : [r EXCEPT !.insufficient = b] \in Results
<1>1. Nothing \in Results
  BY DEF Nothing, Results
<1>2. \A r \in Results, n \in 0..64 : [r EXCEPT !.size = n] \in Results
  BY DEF Results
<1>3. \A r \in Results : [r EXCEPT !.ok = TRUE] \in Results
  BY DEF Results
<1>4. \A r \in Results, b \in BOOLEAN : [r EXCEPT !.insufficient = b] \in Results
  BY Zenon DEF Results
<1>5. QED BY <1>1, <1>2, <1>3, <1>4

\* The same for the state of the log: a read or a record was counted.
LEMMA LogTypes ==
  ASSUME NEW l \in LogStates
  PROVE  /\ [l EXCEPT !.reads = @ + 1] \in LogStates
         /\ [l EXCEPT !.reads = 0] \in LogStates
         /\ [l EXCEPT !.offset = TRUE] \in LogStates
         /\ l.left > 0 => [l EXCEPT !.left = @ - 1] \in LogStates
<1>1. l.reads \in Nat /\ l.left \in Nat
  BY DEF LogStates
<1>2. ASSUME NEW n \in Nat
      PROVE  [l EXCEPT !.reads = n] \in LogStates /\ [l EXCEPT !.left = n] \in LogStates
  BY Zenon DEF LogStates
<1>3. [l EXCEPT !.offset = TRUE] \in LogStates
  BY Zenon DEF LogStates
<1>4. l.reads + 1 \in Nat /\ (l.left > 0 => l.left - 1 \in Nat)
  BY <1>1
<1>5. QED BY <1>2, <1>3, <1>4

\* A buffer was read.
LEMMA LogRead ==
  ASSUME NEW l \in LogStates, NEW n \in Nat
  PROVE  [offset |-> TRUE, initial |-> FALSE, left |-> n, reads |-> l.reads + 1] \in LogStates
BY DEF LogStates

\* No log is read, a poll begins, or the log was cleared.
LEMMA LogStarts ==
  /\ Idle \in LogStates /\ Restarted \in LogStates
  /\ \A b \in BOOLEAN : [Idle EXCEPT !.offset = b] \in LogStates
<1>1. Idle \in LogStates
  BY DEF Idle, LogStates
<1>2. \A l \in LogStates, b \in BOOLEAN : [l EXCEPT !.offset = b] \in LogStates
  BY Zenon DEF LogStates
<1>3. \A l \in LogStates, b \in BOOLEAN : [l EXCEPT !.initial = b] \in LogStates
  BY Zenon DEF LogStates
<1>4. QED BY <1>1, <1>2, <1>3, Zenon DEF Restarted

\* The same for the event: there is none, or the library to try is forgotten.
LEMMA EventTypes ==
  NoEvent \in Events /\ \A e \in Events : [e EXCEPT !.dll = None] \in Events
BY DEF NoEvent, Events

\* The next library is tried.
LEMMA EventLibrary ==
  ASSUME NEW e \in Events, NEW l \in Libraries
  PROVE  [NoEvent EXCEPT !.dll = l, !.tried = e.tried + 1] \in Events
<1>1. e.tried + 1 \in Nat
  BY DEF Events
<1>2. ASSUME NEW n \in Nat PROVE [NoEvent EXCEPT !.dll = l, !.tried = n] \in Events
  BY <1>2 DEF NoEvent, Events
<1>3. QED BY <1>1, <1>2

\* The SID is known, and perhaps its account.
LEMMA EventAccount ==
  ASSUME NEW s \in Sids, NEW u \in Sids \cup {None}
  PROVE  [NoEvent EXCEPT !.sid = s] \in Events /\ [NoEvent EXCEPT !.sid = s, !.user = u] \in Events
BY DEF NoEvent, Events

\* At the start no slot is in use and there is no buffer.
LEMMA InitInv == Init => Inv
<1> SUFFICES ASSUME Init PROVE Inv
  OBVIOUS
<1>1. TypeOK
  <2>1. slots \in [Slots -> Entries] /\ references \in [Libraries -> Nat]
    BY DEF Init, Entries
  <2>2. known \in [SidSlots -> SidEntries]
    BY DEF Init, SidEntries
  <2>3. read \in Results /\ log \in LogStates /\ event \in Events
    BY ResultTypes, LogStarts, EventTypes DEF Init
  <2>4. control \in [at : {"none", "free", "clear", "end"}, i : Nat]
    BY DEF Init
  <2>5. QED BY <2>1, <2>2, <2>3, <2>4 DEF Init, TypeOK
<1>2. BufferInv
  BY DEF Init, BufferInv, Nothing, NoEvent, Formatting, Unloading
<1>3. UserInv
  BY DEF Init, UserInv
<1>4. IndexInv /\ LibraryInv
  BY ResourcesAssumption
  DEF Init, IndexInv, LibraryInv, TableInv, SearchInv, Named, Looking, Unloading
<1>5. QED BY <1>1, <1>2, <1>3, <1>4 DEF Inv
-----------------------------------------------------------------------------
\* Freeing a slot of the table leaves the table and the counts typed.
LEMMA UnloadTypes ==
  ASSUME TypeOK, NEW at, NEW s \in Nat, NEW where \in {"free", "clear", "end"},
         NEW slot \in Slots \cup {MaxLibraries}, Unload(at, s, where, slot)
  PROVE  slots' \in [Slots -> Entries] /\ references' \in [Libraries -> Nat]
<1>1. CASE at = "free" /\ slots[s].name # None /\ s \in Slots
  <2>1. slots[s].hlib \in Libraries \cup {None}
    BY <1>1 DEF TypeOK, Entries
  <2>2. CASE slots[s].hlib = None
    BY <1>1, <2>2 DEF Unload, TypeOK
  <2>3. CASE slots[s].hlib \in Libraries
    BY <1>1, <2>3, ResourcesAssumption, SMTT(30) DEF Unload, TypeOK, FreeLibrary, Entries
  <2>4. QED BY <2>1, <2>2, <2>3
<1>2. CASE at = "clear"
  BY <1>2 DEF Unload, TypeOK, Cleared, Entries
<1>3. CASE at = "free" /\ (s \notin Slots \/ slots[s].name = None)
  BY <1>3 DEF Unload, TypeOK
<1>4. QED BY <1>1, <1>2, <1>3 DEF Unload

\* The handle and the name in a slot of the table.
LEMMA SlotTypes ==
  ASSUME TypeOK, NEW s \in Slots
  PROVE  slots[s].name \in Libraries \cup {None} /\ slots[s].hlib \in Libraries \cup {None}
BY DEF TypeOK, Entries

\* Every step keeps the types.
LEMMA StepTypes ==
  ASSUME TypeOK, IndexInv, [Next]_vars
  PROVE  TypeOK'
<1>1. CASE Next
  <2>1. stopping' \in BOOLEAN /\ longKnown' \in BOOLEAN
    BY <1>1, ResourcesAssumption
    DEF Next, Scan, RequestStop, ControlUnloads, Poll, Open, Call, ReadEventLog, Grow, Found,
        First, Following, Record, ParseLibs, Search, Compare, LoadLibraryEx, Name,
        FormatMessage, ScanUnloads, eventlog_set_user, engine_process_event, Eject, Complete,
        ToIdle, FreeBigBuffer, TryNext, TypeOK
  <2>2. call' \in {"none", "find", "first", "next"}
    BY <1>1, ResourcesAssumption
    DEF Next, Scan, RequestStop, ControlUnloads, Poll, Open, Call, ReadEventLog, Grow, Found,
        First, Following, Record, ParseLibs, Search, Compare, LoadLibraryEx, Name,
        FormatMessage, ScanUnloads, eventlog_set_user, engine_process_event, Eject, Complete,
        ToIdle, FreeBigBuffer, TryNext, TypeOK
  <2>3. buffer' \in Nat
    <3>1. CASE Grow
      <4>1. Multiple(read.size) \in Nat
        BY MultipleIsPositive DEF TypeOK, Results
      <4>2. QED BY <3>1, <4>1 DEF Grow, TypeOK
    <3>2. CASE Call
      BY <3>2 DEF Call, TypeOK
    <3>3. CASE ReadEventLog
      BY <3>3 DEF ReadEventLog, TypeOK
    <3>4. CASE First \/ Following \/ FormatMessage
      BY <3>4 DEF First, Following, FormatMessage, Eject, Complete, FreeBigBuffer, TypeOK
    <3>5. CASE UNCHANGED buffer
      BY <3>5 DEF TypeOK
    <3>6. QED BY <1>1, <3>1, <3>2, <3>3, <3>4, <3>5
      DEF Next, Scan, RequestStop, ControlUnloads, Poll, Open, Found, Record, ParseLibs, Search,
          Compare, LoadLibraryEx, Name, ScanUnloads, eventlog_set_user, engine_process_event,
          Eject, Complete, ToIdle, FreeBigBuffer, TryNext
  <2>4. read' \in Results
    <3>1. CASE Call
      <4>1. PICK n \in {0} \cup Sizes : read' = [Nothing EXCEPT !.size = n]
        BY <3>1 DEF Call
      <4>2. n \in 0..64
        BY ResourcesAssumption
      <4>3. QED BY <4>1, <4>2, ResultTypes
    <3>2. CASE ReadEventLog
      <4>1. read' \in {read, [read EXCEPT !.ok = TRUE]}
        BY <3>2 DEF ReadEventLog
      <4>2. QED BY <4>1, ResultTypes DEF TypeOK
    <3>3. CASE Grow
      <4>1. CASE read' = read
        BY <4>1 DEF TypeOK
      <4>2. ASSUME NEW b \in BOOLEAN, read' = [read EXCEPT !.insufficient = b]
            PROVE  read' \in Results
        BY <4>2, ResultTypes, Zenon DEF TypeOK
      <4>3. QED BY <3>3, <4>1, <4>2 DEF Grow
    <3>4. CASE read' \in {read, Nothing}
      BY <3>4, ResultTypes DEF TypeOK
    <3>5. QED BY <1>1, <3>1, <3>2, <3>3, <3>4
      DEF Next, Scan, RequestStop, ControlUnloads, Poll, Open, Found, First, Following, Record,
          ParseLibs, Search, Compare, LoadLibraryEx, Name, FormatMessage, ScanUnloads,
          eventlog_set_user, engine_process_event, Eject, Complete, ToIdle, FreeBigBuffer,
          TryNext
  <2>5. log' \in LogStates
    <3>1. CASE Poll
      BY <3>1, LogStarts DEF Poll
    <3>2. CASE Found \/ First
      BY <3>2, LogTypes, LogStarts DEF Found, First, Eject, Complete, ToIdle, TypeOK
    <3>3. CASE Following
      <4>1. \/ log' \in {Idle, Restarted}
            \/ \E n \in 1..Batch : log' = [offset |-> TRUE, initial |-> FALSE, left |-> n,
                                         reads |-> log.reads + 1]
        BY <3>3 DEF Following, Eject, Complete, ToIdle
      <4>2. QED BY <4>1, LogRead, LogStarts, ResourcesAssumption DEF TypeOK
    <3>4. CASE Record
      <4>1. log' \in {log, Idle} \/ (log.left > 0 /\ log' = [log EXCEPT !.left = @ - 1])
        BY <3>4 DEF Record, Eject, ToIdle
      <4>2. QED BY <4>1, LogTypes, LogStarts DEF TypeOK
    <3>5. CASE log' \in {log, Idle}
      BY <3>5, LogStarts DEF TypeOK
    <3>6. QED BY <1>1, <3>1, <3>2, <3>3, <3>4, <3>5
      DEF Next, Scan, RequestStop, ControlUnloads, Open, Call, ReadEventLog, Grow, ParseLibs,
          Search, Compare, LoadLibraryEx, Name, FormatMessage, ScanUnloads, eventlog_set_user,
          engine_process_event, Eject, Complete, ToIdle, FreeBigBuffer, TryNext
  <2>6. event' \in Events
    <3>1. CASE ParseLibs
      BY <3>1, EventTypes, EventLibrary, ZenonT(30) DEF ParseLibs, TypeOK
    <3>2. CASE LoadLibraryEx \/ FormatMessage
      BY <3>2, EventTypes DEF LoadLibraryEx, FormatMessage, TryNext, Complete, ToIdle, TypeOK
    <3>3. CASE eventlog_set_user
      <4>1. CASE event' = NoEvent
        BY <4>1, EventTypes
      <4>2. ASSUME NEW sid \in Sids, event' = [NoEvent EXCEPT !.sid = sid]
            PROVE  event' \in Events
        BY <4>2, EventAccount
      <4>3. ASSUME NEW sid \in Sids, event' = [NoEvent EXCEPT !.sid = sid, !.user = sid]
            PROVE  event' \in Events
        BY <4>3, EventAccount
      <4>4. ASSUME NEW sid \in Sids, Hits(sid) # {},
                   event' = [NoEvent EXCEPT !.sid = sid, !.user = known[Min(Hits(sid))].user]
            PROVE  event' \in Events
        <5>1. known[Min(Hits(sid))].user \in Sids \cup {None}
          BY <4>4, HitIsEntered DEF TypeOK, SidEntries
        <5>2. QED BY <4>4, <5>1, EventAccount
      <4>5. QED BY <3>3, <4>1, <4>2, <4>3, <4>4 DEF eventlog_set_user
    <3>4. CASE event' \in {event, NoEvent}
      BY <3>4, EventTypes DEF TypeOK
    <3>5. QED BY <1>1, <3>1, <3>2, <3>3, <3>4
      DEF Next, Scan, RequestStop, ControlUnloads, Poll, Open, Call, ReadEventLog, Grow, Found,
          First, Following, Record, Search, Compare, Name, ScanUnloads, engine_process_event,
          Eject, Complete, ToIdle, FreeBigBuffer, TryNext
  <2>7. hlib' \in Libraries \cup {None}
    <3>1. CASE Compare
      <4>1. i \in Slots
        BY <3>1, ResourcesAssumption DEF Compare, IndexInv, TypeOK
      <4>2. slots[i].hlib \in Libraries \cup {None}
        BY <4>1, SlotTypes
      <4>3. QED BY <3>1, <4>2 DEF Compare, TypeOK
    <3>2. CASE ~Compare
      BY <1>1, <3>2, ResourcesAssumption
      DEF Next, Scan, RequestStop, ControlUnloads, Poll, Open, Call, ReadEventLog, Grow, Found,
          First, Following, Record, ParseLibs, Search, LoadLibraryEx, Name, FormatMessage,
          ScanUnloads, eventlog_set_user, engine_process_event, Eject, Complete, ToIdle,
          FreeBigBuffer, TryNext, TypeOK, IndexInv, Looking
    <3>3. QED BY <3>1, <3>2
  <2>8. i' \in Nat
    <3>1. CASE ScanUnloads
      BY <3>1, ResourcesAssumption DEF ScanUnloads
    <3>2. CASE Compare \/ Search
      BY <3>2 DEF Compare, Search, TypeOK
    <3>3. CASE i' \in {0, i}
      BY <3>3 DEF TypeOK
    <3>4. QED BY <1>1, <3>1, <3>2, <3>3
      DEF Next, Scan, RequestStop, ControlUnloads, Poll, Open, Call, ReadEventLog, Grow, Found,
          First, Following, Record, ParseLibs, LoadLibraryEx, Name, FormatMessage,
          eventlog_set_user, engine_process_event, Eject, Complete, ToIdle, FreeBigBuffer,
          TryNext
  <2>9. control' \in [at : {"none", "free", "clear", "end"}, i : Nat]
    <3>1. CASE RequestStop
      BY <3>1 DEF RequestStop
    <3>2. CASE ControlUnloads
      BY <3>2, ResourcesAssumption DEF ControlUnloads
    <3>3. CASE UNCHANGED control
      BY <3>3 DEF TypeOK
    <3>4. QED BY <1>1, <3>1, <3>2, <3>3
      DEF Next, Scan, Poll, Open, Call, ReadEventLog, Grow, Found, First, Following, Record,
          ParseLibs, Search, Compare, LoadLibraryEx, Name, FormatMessage, ScanUnloads,
          eventlog_set_user, engine_process_event, Eject, Complete, ToIdle, FreeBigBuffer,
          TryNext
  <2>10. pc' \in {"idle", "open", "call", "read", "called", "grow", "record", "libs", "search",
                 "compare", "load", "name", "format", "user", "emit", "free", "clear", "dead"}
    BY <1>1, ResourcesAssumption
    DEF Next, Scan, RequestStop, ControlUnloads, Poll, Open, Call, ReadEventLog, Grow, Found,
        First, Following, Record, ParseLibs, Search, Compare, LoadLibraryEx, Name,
        FormatMessage, ScanUnloads, eventlog_set_user, engine_process_event, Eject, Complete,
        ToIdle, FreeBigBuffer, TryNext, TypeOK
  <2>11. slots' \in [Slots -> Entries] /\ references' \in [Libraries -> Nat]
    <3>1. CASE ControlUnloads
      <4>1. control.i \in Nat
        BY DEF TypeOK
      <4>2. QED BY <3>1, <4>1, UnloadTypes DEF ControlUnloads
    <3>2. CASE ScanUnloads
      <4>1. i \in Nat
        BY DEF TypeOK
      <4>2. QED BY <3>2, <4>1, UnloadTypes DEF ScanUnloads
    <3>3. CASE LoadLibraryEx
      <4>1. event.dll \in Libraries
        BY <3>3 DEF LoadLibraryEx, IndexInv, Looking
      <4>2. references[event.dll] + 1 \in Nat
        BY <4>1 DEF TypeOK
      <4>3. [references EXCEPT ![event.dll] = @ + 1] \in [Libraries -> Nat]
        BY <4>1, <4>2 DEF TypeOK
      <4>4. ASSUME NEW l \in Libraries \cup {None}
            PROVE  [slots EXCEPT ![i].hlib = l] \in [Slots -> Entries]
        BY <4>4 DEF TypeOK, Entries
      <4>5. \/ /\ slots' = [slots EXCEPT ![i].hlib = event.dll]
               /\ references' = [references EXCEPT ![event.dll] = @ + 1]
            \/ slots' = [slots EXCEPT ![i].hlib = None] /\ references' = references
        BY <3>3 DEF LoadLibraryEx
      <4>6. references \in [Libraries -> Nat]
        BY DEF TypeOK
      <4>7. QED BY <4>1, <4>3, <4>4, <4>5, <4>6
    <3>4. CASE Name
      BY <3>4 DEF Name, TypeOK, Entries
    <3>5. CASE UNCHANGED libraries
      BY <3>5 DEF TypeOK
    <3>6. QED BY <1>1, <3>1, <3>2, <3>3, <3>4, <3>5
      DEF Next, Scan, RequestStop, Poll, Open, Call, ReadEventLog, Grow, Found, First,
          Following, Record, ParseLibs, Search, Compare, FormatMessage, eventlog_set_user,
          engine_process_event, Eject, Complete, ToIdle, FreeBigBuffer, TryNext
  <2>12. known' \in [SidSlots -> SidEntries]
    <3>1. CASE eventlog_set_user
      <4>1. Forgotten \in [SidSlots -> SidEntries]
        BY DEF Forgotten, TypeOK, SidEntries
      <4>2. ASSUME NEW table \in [SidSlots -> SidEntries], NEW s, NEW sid \in Sids
            PROVE  Enter(table, s, sid) \in [SidSlots -> SidEntries]
        BY <4>2 DEF Enter, SidEntries
      <4>3. known \in [SidSlots -> SidEntries]
        BY DEF TypeOK
      <4> DEFINE full  == Entered = SidSlots
                 free  == IF full THEN 0 ELSE Cardinality(Entered)
                 table == IF full THEN Forgotten ELSE known
      <4>4. known' = known \/ known' = table \/ \E sid \in Sids : known' = Enter(table, free, sid)
        BY <3>1 DEF eventlog_set_user, Fail
      <4>5. table \in [SidSlots -> SidEntries]
        BY <4>1, <4>3
      <4> HIDE DEF free, table
      <4>6. QED BY <4>2, <4>3, <4>4, <4>5
    <3>2. CASE UNCHANGED known
      BY <3>2 DEF TypeOK
    <3>3. QED BY <1>1, <3>1, <3>2
      DEF Next, Scan, RequestStop, ControlUnloads, Poll, Open, Call, ReadEventLog, Grow, Found,
          First, Following, Record, ParseLibs, Search, Compare, LoadLibraryEx, Name,
          FormatMessage, ScanUnloads, engine_process_event, Eject, Complete, ToIdle,
          FreeBigBuffer, TryNext
  <2>13. allocated' \in BOOLEAN
    BY <1>1, Zenon
    DEF Next, Scan, RequestStop, ControlUnloads, Poll, Open, Call, ReadEventLog, Grow, Found,
        First, Following, Record, ParseLibs, Search, Compare, LoadLibraryEx, Name,
        FormatMessage, ScanUnloads, eventlog_set_user, engine_process_event, Eject, Complete,
        ToIdle, FreeBigBuffer, TryNext, TypeOK
  <2>14. QED BY <2>1, <2>2, <2>3, <2>4, <2>5, <2>6, <2>7, <2>8, <2>9, <2>10, <2>11, <2>12, <2>13
         DEF TypeOK
<1>2. CASE UNCHANGED vars
  BY <1>2 DEF TypeOK
<1>3. QED BY <1>1, <1>2
-----------------------------------------------------------------------------
\* The fields of the results a read leaves.
LEMMA ResultFields ==
  /\ ~Nothing.ok /\ ~Nothing.insufficient
  /\ \A n \in 0..64 : LET r == [Nothing EXCEPT !.size = n] IN ~r.ok /\ ~r.insufficient
  /\ \A r \in Results : LET q == [r EXCEPT !.ok = TRUE] IN
       q.ok /\ q.size = r.size /\ q.insufficient = r.insufficient
  /\ \A r \in Results, b \in BOOLEAN : LET q == [r EXCEPT !.insufficient = b] IN
       q.ok = r.ok /\ q.size = r.size
<1>1. ~Nothing.ok /\ ~Nothing.insufficient
  BY DEF Nothing
<1>2. \A n \in 0..64 : LET r == [Nothing EXCEPT !.size = n] IN ~r.ok /\ ~r.insufficient
  BY DEF Nothing
<1>3. \A r \in Results : LET q == [r EXCEPT !.ok = TRUE] IN
       q.ok /\ q.size = r.size /\ q.insufficient = r.insufficient
  BY DEF Results
<1>4. \A r \in Results, b \in BOOLEAN : LET q == [r EXCEPT !.insufficient = b] IN
       q.ok = r.ok /\ q.size = r.size
  BY DEF Results
<1>5. QED BY <1>1, <1>2, <1>3, <1>4

\* Every step keeps the record of the last read in the buffer.
LEMMA StepBuffer ==
  ASSUME TypeOK, BufferInv, IndexInv, [Next]_vars
  PROVE  BufferInv'
<1> USE DEF BufferInv, Formatting, Unloading
<1>1. CASE RequestStop \/ ControlUnloads
  BY <1>1 DEF RequestStop, ControlUnloads
<1>2. CASE Eject
  BY <1>2, ResultFields DEF Eject, ToIdle, NoEvent
<1>3. CASE Complete
  BY <1>3, ResultFields DEF Complete, ToIdle, FreeBigBuffer, NoEvent
<1>4. CASE Poll
  BY <1>4 DEF Poll
<1>5. CASE Open
  BY <1>2, <1>5 DEF Open
<1>6. CASE Call
  BY <1>6, ResultFields, ResourcesAssumption DEF Call
<1>7. CASE ReadEventLog
  <2>1. CASE UNCHANGED read /\ UNCHANGED <<buffer, allocated>> /\ pc' = "called"
    BY <1>7, <2>1 DEF ReadEventLog
  <2>2. CASE read' = [read EXCEPT !.ok = TRUE] /\ read.size \in 1..buffer /\ pc' = "called"
             /\ UNCHANGED <<buffer, allocated>>
    BY <1>7, <2>2, ResultFields DEF ReadEventLog, TypeOK
  <2>3. CASE pc' = "grow" /\ buffer' = 0 /\ allocated' = FALSE /\ UNCHANGED read
    BY <1>7, <2>3 DEF ReadEventLog
  <2>4. QED BY <1>7, <2>1, <2>2, <2>3 DEF ReadEventLog
<1>8. CASE Grow
  <2>1. Multiple(read.size) \in Nat \ {0}
    BY MultipleIsPositive DEF TypeOK, Results
  <2>2. CASE buffer' = Multiple(read.size) /\ allocated' = TRUE /\ pc' = "read" /\ UNCHANGED read
    BY <1>8, <2>1, <2>2 DEF Grow
  <2>3. ASSUME pc' = "called", UNCHANGED <<buffer, allocated>>,
               NEW error \in BOOLEAN, read' = [read EXCEPT !.insufficient = error]
        PROVE  BufferInv'
    <3>1. ~read.ok /\ read'.ok = read.ok
      BY <1>8, <2>3, ResultFields DEF Grow, TypeOK
    <3>2. QED BY <1>8, <2>3, <3>1 DEF Grow
  <2>4. QED BY <1>8, <2>2, <2>3 DEF Grow
<1>9. CASE Found
  BY <1>9, ResultFields DEF Found
<1>10. CASE First
  BY <1>2, <1>3, <1>10, ResultFields DEF First
<1>11. CASE Following
  BY <1>2, <1>3, <1>11, ResultFields DEF Following
<1>12. CASE Record
  BY <1>2, <1>12, ResultFields DEF Record
<1>13. CASE ParseLibs
  BY <1>13 DEF ParseLibs
<1>14. CASE Search \/ Compare
  BY <1>14, ResourcesAssumption DEF Search, Compare, IndexInv, Looking
<1>15. CASE LoadLibraryEx \/ Name
  BY <1>15 DEF LoadLibraryEx, Name, TryNext
<1>16. CASE FormatMessage
  BY <1>3, <1>16 DEF FormatMessage, TryNext
<1>17. CASE ScanUnloads
  <2>1. pc \in Unloading /\ pc' \in Unloading \cup {"open", "load"}
    BY <1>17 DEF ScanUnloads, Unload
  <2>2. (pc' = "open" => event.dll = None) /\ (pc' = "load" => event.dll # None)
    BY <1>17 DEF ScanUnloads
  <2>3. QED BY <1>17, <2>1, <2>2 DEF ScanUnloads
<1>18. CASE eventlog_set_user \/ engine_process_event
  <2>1. pc' \in {"emit", "record"} /\ read.ok /\ UNCHANGED <<read, call, buffer, allocated>>
    BY <1>18 DEF eventlog_set_user, engine_process_event
  <2>2. QED BY <2>1
<1>19. CASE UNCHANGED vars
  BY <1>19
<1>20. QED
  BY <1>1, <1>4, <1>5, <1>6, <1>7, <1>8, <1>9, <1>10, <1>11, <1>12, <1>13, <1>14, <1>15, <1>16,
     <1>17, <1>18, <1>19 DEF Next, Scan

\* The search for an account and the entry of one keep accounts and SIDs together; other
\* steps leave the table alone and are not where an account is passed on.
LEMMA StepUser ==
  ASSUME TypeOK, UserInv, [Next]_vars
  PROVE  UserInv'
<1>1. CASE eventlog_set_user
  <2> SUFFICES ASSUME ~longKnown' PROVE UserInv'
    BY DEF UserInv
  <2> DEFINE Good(t) == t \in [SidSlots -> SidEntries]
                        /\ \A s \in SidSlots : t[s].valid => t[s].user = t[s].sid
             full  == Entered = SidSlots
             free  == IF full THEN 0 ELSE Cardinality(Entered)
             table == IF full THEN Forgotten ELSE known
  <2>1. ~longKnown
    BY <1>1 DEF eventlog_set_user
  <2>2. Good(known)
    BY <2>1 DEF UserInv, TypeOK
  <2>3. Good(Forgotten)
    BY <2>2 DEF Forgotten, SidEntries
  <2>4. Good(table)
    BY <2>2, <2>3
  <2>5. ASSUME NEW t, Good(t), NEW s, NEW sid \in Sids \ LongSids PROVE Good(Enter(t, s, sid))
    BY <2>5 DEF Enter, SidEntries
  <2> HIDE DEF free, table, Good
  <2>6. CASE event' = NoEvent /\ UNCHANGED known
    BY <2>1, <2>6 DEF UserInv, NoEvent
  <2>7. ASSUME NEW sid \in Sids, Hits(sid) # {}, UNCHANGED known,
               event' = [NoEvent EXCEPT !.sid = sid, !.user = known[Min(Hits(sid))].user]
        PROVE  UserInv'
    <3>1. known[Min(Hits(sid))].user = sid
      BY <2>2, <2>7, HitIsEntered DEF Good
    <3>2. event'.user = event'.sid
      BY <2>7, <3>1 DEF NoEvent
    <3>3. QED BY <2>1, <2>7, <3>2 DEF UserInv
  <2>8. ASSUME NEW sid \in Sids, known' = table, event' = [NoEvent EXCEPT !.sid = sid]
        PROVE  UserInv'
    <3>1. event'.user = None
      BY <2>8 DEF NoEvent
    <3>2. QED BY <2>4, <2>8, <3>1 DEF UserInv, Good
  <2>9. ASSUME NEW sid \in Sids \ LongSids, known' = Enter(table, free, sid),
               event' = [NoEvent EXCEPT !.sid = sid, !.user = sid]
        PROVE  UserInv'
    <3>1. event'.user = event'.sid
      BY <2>9 DEF NoEvent
    <3>2. Good(known')
      BY <2>4, <2>5, <2>9
    <3>3. QED BY <3>1, <3>2 DEF UserInv, Good
  <2>10. \/ event' = NoEvent /\ UNCHANGED known
         \/ \E sid \in Sids :
              \/ /\ Hits(sid) # {} /\ UNCHANGED known
                 /\ event' = [NoEvent EXCEPT !.sid = sid, !.user = known[Min(Hits(sid))].user]
              \/ known' = table /\ event' = [NoEvent EXCEPT !.sid = sid]
              \/ /\ known' = Enter(table, free, sid) /\ sid \notin LongSids
                 /\ event' = [NoEvent EXCEPT !.sid = sid, !.user = sid]
    BY <1>1 DEF eventlog_set_user, Fail, free, table
  <2>11. QED BY <2>6, <2>7, <2>8, <2>9, <2>10
<1>2. CASE UNCHANGED <<known, longKnown>> /\ (pc' = "emit" => pc = "emit" /\ UNCHANGED event)
  BY <1>2 DEF UserInv
<1>3. QED
  BY <1>1, <1>2
  DEF Next, Scan, RequestStop, ControlUnloads, Poll, Open, Call, ReadEventLog, Grow, Found,
      First, Following, Record, ParseLibs, Search, Compare, LoadLibraryEx, Name, FormatMessage,
      ScanUnloads, Unload, engine_process_event, Eject, Complete, ToIdle, FreeBigBuffer,
      TryNext
-----------------------------------------------------------------------------
\* Clearing a slot, or none, gives no slot a name.
LEMMA ClearedNames ==
  ASSUME TypeOK, NEW s, slots' = slots \/ slots' = Cleared(s)
  PROVE  \A t \in Slots : slots[t].name = None => slots'[t].name = None
<1>1. CASE UNCHANGED slots
  BY <1>1
<1>2. CASE slots' = Cleared(s)
  BY <1>2 DEF Cleared, TypeOK
<1>3. QED BY <1>1, <1>2

\* Every step keeps the scan within the table.
LEMMA StepIndex ==
  ASSUME TypeOK, IndexInv, [Next]_vars
  PROVE  IndexInv'
<1> USE ResourcesAssumption DEF IndexInv, Named, Looking, Unloading
<1>1. CASE RequestStop
  BY <1>1 DEF RequestStop
<1>2. CASE ControlUnloads
  <2>1. control.i \in Nat
    BY DEF TypeOK
  <2>2. PICK where \in {"free", "clear", "end"}, slot \in Slots \cup {MaxLibraries} :
          Unload(control.at, control.i, where, slot) /\ control' = [at |-> where, i |-> slot]
    BY <1>2 DEF ControlUnloads
  <2>3. \A t \in Slots : slots[t].name = None => slots'[t].name = None
    <3>1. slots' = slots \/ slots' = Cleared(control.i)
      BY <2>2 DEF Unload
    <3>2. QED BY <3>1, ClearedNames
  <2>4. where = "clear" => slot \in Slots
    BY <2>2 DEF Unload
  <2>5. QED BY <1>2, <2>2, <2>3, <2>4 DEF ControlUnloads
<1>3. CASE Eject \/ Complete
  BY <1>3 DEF Eject, Complete, ToIdle
<1>4. CASE Poll \/ Open \/ Call \/ ReadEventLog \/ Grow \/ Found \/ First \/ Following
  BY <1>3, <1>4 DEF Poll, Open, Call, ReadEventLog, Grow, Found, First, Following
<1>5. CASE Record
  BY <1>3, <1>5 DEF Record
<1>6. CASE ParseLibs
  <2>1. ASSUME NEW dll \in Libraries, NEW n
        PROVE  [NoEvent EXCEPT !.dll = dll, !.tried = n].dll \in Libraries
    BY <2>1 DEF NoEvent
  <2>2. pc' = "user" \/ (pc' = "search" /\ event'.dll \in Libraries)
    BY <1>6, <2>1 DEF ParseLibs
  <2>3. CASE pc' = "user"
    BY <1>6, <2>3 DEF ParseLibs
  <2>4. CASE pc' = "search" /\ event'.dll \in Libraries
    <3>1. i = 0 /\ i' = 0 /\ UNCHANGED <<slots, control>>
      BY <1>6 DEF ParseLibs
    <3>2. QED BY <2>4, <3>1
  <2>5. QED BY <2>2, <2>3, <2>4
<1>7. CASE Search \/ Compare
  BY <1>7, SMTT(30) DEF Search, Compare, TypeOK
<1>8. CASE LoadLibraryEx
  <2>1. \A s \in Slots : slots'[s].name = slots[s].name
    <3>1. PICK l : slots' = [slots EXCEPT ![i].hlib = l]
      BY <1>8 DEF LoadLibraryEx
    <3>2. QED BY <3>1 DEF TypeOK, Entries
  <2>2. QED BY <1>8, <2>1 DEF LoadLibraryEx, TryNext
<1>9. CASE Name
  BY <1>9 DEF Name, TypeOK
<1>10. CASE FormatMessage
  BY <1>3, <1>10 DEF FormatMessage, TryNext
<1>11. CASE ScanUnloads
  <2>1. i \in Nat /\ event.dll \in Libraries \cup {None}
    BY DEF TypeOK, Events
  <2>2. PICK where \in {"free", "clear", "end"}, slot \in Slots \cup {MaxLibraries} :
          /\ Unload(pc, i, where, slot) /\ i' = slot
          /\ pc' = IF where # "end" THEN where ELSE IF event.dll = None THEN "open" ELSE "load"
    BY <1>11 DEF ScanUnloads
  <2>3. \A t \in Slots : slots[t].name = None => slots'[t].name = None
    <3>1. slots' = slots \/ slots' = Cleared(i)
      BY <2>2 DEF Unload
    <3>2. QED BY <3>1, ClearedNames
  <2>4. (where = "clear" => slot \in Slots) /\ (where = "end" => slot = 0)
    BY <2>2 DEF Unload
  <2>5. UNCHANGED <<control, event>>
    BY <1>11 DEF ScanUnloads
  <2>6. CASE where = "end"
    BY <2>1, <2>2, <2>3, <2>4, <2>5, <2>6
  <2>7. CASE where # "end"
    BY <2>2, <2>3, <2>4, <2>5, <2>7
  <2>8. QED BY <2>6, <2>7
<1>12. CASE eventlog_set_user \/ engine_process_event
  BY <1>12 DEF eventlog_set_user, engine_process_event
<1>13. CASE UNCHANGED vars
  BY <1>13
<1>14. QED
  BY <1>1, <1>2, <1>4, <1>5, <1>6, <1>7, <1>8, <1>9, <1>10, <1>11, <1>12, <1>13 DEF Next, Scan
-----------------------------------------------------------------------------
\* A step that leaves the table alone, and is not about freeing it, keeps it in order.
LEMMA SameTable ==
  ASSUME TableInv, UNCHANGED libraries, pc \notin Unloading, pc' # "clear",
         pc' = "free" => i' = 0
  PROVE  TableInv'
<1>1. Base = 0 /\ Base' = 0
  BY DEF Base, Unloading
<1>2. \A s \in Slots : Named(s)' <=> Named(s)
  BY DEF Named
<1>3. QED BY <1>1, <1>2 DEF TableInv, Unloading

\* Freeing the slots from the first on keeps those that are left in order.
LEMMA UnloadTable ==
  ASSUME TypeOK, IndexInv, TableInv, ScanUnloads
  PROVE  TableInv' /\ (pc' \notin Unloading => \A s \in Slots : ~Named(s)')
<1>1. i \in Nat /\ Base = i /\ pc \in Unloading
  BY DEF TypeOK, Base, ScanUnloads, Unload, Unloading
<1>2. CASE pc = "free" /\ i \in Slots /\ Named(i)
  <2>1. /\ pc' = "clear" /\ i' = i /\ slots' = slots /\ Base' = i
        /\ references' = FreeLibrary(slots[i].name)
    <3>1. slots[i].hlib = slots[i].name /\ slots[i].hlib # None
      BY <1>2 DEF TableInv, Named
    <3>2. /\ pc' = "clear" /\ i' = i /\ slots' = slots
          /\ references' = IF slots[i].hlib = None THEN references ELSE FreeLibrary(slots[i].hlib)
      BY <1>2 DEF ScanUnloads, Unload, Named
    <3>3. QED BY <3>1, <3>2 DEF Base, Unloading
  <2>2. \A s \in Slots : Named(s)' <=> Named(s)
    BY <2>1 DEF Named
  <2>3. \A s \in Slots : Named(s) /\ s # i => references'[slots[s].name] > 0
    <3>1. ASSUME NEW s \in Slots, Named(s), s # i PROVE references'[slots[s].name] > 0
      <4>1. slots[s].name # slots[i].name /\ references[slots[s].name] > 0
        BY <1>2, <3>1 DEF TableInv
      <4>2. slots[s].name \in Libraries /\ slots[i].name \in Libraries
        BY <1>2, <3>1, SlotTypes DEF Named
      <4>3. QED BY <2>1, <4>1, <4>2 DEF FreeLibrary, TypeOK
    <3>2. QED BY <3>1
  <2>4. QED BY <1>1, <2>1, <2>2, <2>3 DEF TableInv, Unloading
<1>3. CASE pc = "clear"
  <2>1. i \in Slots /\ slots' = Cleared(i) /\ references' = references /\ pc' = "free" /\ i' = i + 1
    BY <1>3 DEF ScanUnloads, Unload, IndexInv
  <2>2. Base' = i + 1
    BY <2>1 DEF Base, Unloading
  <2>3. /\ slots'[i].name = None
        /\ \A s \in Slots : s # i => slots'[s] = slots[s]
    <3>1. slots \in [Slots -> Entries] /\ slots[i] \in Entries
      BY <2>1 DEF TypeOK
    <3>2. slots' = [slots EXCEPT ![i] = [slots[i] EXCEPT !.name = None]]
      BY <2>1 DEF Cleared
    <3>3. [slots[i] EXCEPT !.name = None].name = None
      BY <3>1 DEF Entries
    <3>4. slots'[i] = [slots[i] EXCEPT !.name = None]
      BY <2>1, <3>1, <3>2
    <3>5. \A s \in Slots : s # i => slots'[s] = slots[s]
      BY <3>1, <3>2
    <3>6. QED BY <3>3, <3>4, <3>5 DEF Named
  <2>4. \A s \in Slots : s # i => (Named(s)' <=> Named(s))
    BY <2>3 DEF Named
  <2>5. ASSUME NEW s \in Slots, Named(s)'
        PROVE  /\ slots'[s].hlib = slots'[s].name
               /\ references'[slots'[s].name] > 0
               /\ s >= i + 1 /\ \A t \in Slots : t >= i + 1 /\ t < s => Named(t)'
               /\ \A t \in Slots : Named(t)' /\ slots'[s].name = slots'[t].name => s = t
    <3>1. s # i /\ Named(s) /\ slots'[s] = slots[s]
      BY <2>3, <2>4, <2>5 DEF Named
    <3>2. /\ slots[s].hlib = slots[s].name /\ references[slots[s].name] > 0
          /\ s >= i /\ \A t \in Slots : t >= i /\ t < s => Named(t)
      BY <1>1, <3>1 DEF TableInv
    <3>3. \A t \in Slots : Named(t)' /\ slots'[s].name = slots'[t].name => s = t
      <4>1. \A t \in Slots : Named(t) /\ slots[s].name = slots[t].name => s = t
        BY <3>1 DEF TableInv
      <4>2. \A t \in Slots : Named(t)' => Named(t) /\ slots'[t].name = slots[t].name
        BY <2>3 DEF Named
      <4>3. QED BY <3>1, <4>1, <4>2
    <3>4. \A t \in Slots : t >= i + 1 /\ t < s => Named(t)'
      BY <1>1, <2>4, <3>2
    <3>5. QED BY <1>1, <2>1, <3>1, <3>2, <3>3, <3>4
  <2>6. QED BY <1>3, <2>1, <2>2, <2>5 DEF TableInv, Unloading
<1>4. CASE pc = "free" /\ ~(i \in Slots /\ Named(i))
  <2>1. UNCHANGED libraries /\ pc' \in {"open", "load"}
    BY <1>4 DEF ScanUnloads, Unload, Named
  <2>2. ASSUME NEW s \in Slots PROVE ~Named(s)
    <3>1. SUFFICES ASSUME Named(s) PROVE FALSE
      OBVIOUS
    <3>2. s >= i /\ \A t \in Slots : t >= i /\ t < s => Named(t)
      BY <1>1, <3>1 DEF TableInv
    <3>3. i \in Slots
      BY <1>1, <3>2, ResourcesAssumption
    <3>4. QED BY <1>1, <1>4, <3>1, <3>2, <3>3
  <2>3. \A s \in Slots : ~Named(s)'
    BY <2>1, <2>2 DEF Named
  <2>4. QED BY <2>3 DEF TableInv
<1>5. QED BY <1>1, <1>2, <1>3, <1>4 DEF Unloading

\* The slot a library is loaded into has no name, so the table stays in order, and when it gets
\* its name that is one no slot before it has.
LEMMA LoadTable ==
  ASSUME TypeOK, IndexInv, TableInv, SearchInv, LoadLibraryEx \/ Name
  PROVE  TableInv'
<1>1. i \in Slots /\ ~Named(i) /\ Base = 0 /\ Base' = 0 /\ event.dll \in Libraries
  BY ResourcesAssumption, SMTT(30)
  DEF LoadLibraryEx, Name, TryNext, SearchInv, Base, Unloading, IndexInv, TypeOK, Looking
<1>2. \A s \in Slots : slots[s] \in Entries
  BY DEF TypeOK
<1>3. CASE LoadLibraryEx
  <2>1. PICK l \in Libraries \cup {None} : slots' = [slots EXCEPT ![i].hlib = l]
    BY <1>1, <1>3 DEF LoadLibraryEx
  <2>2. \A s \in Slots : slots'[s].name = slots[s].name /\ (Named(s) => slots'[s] = slots[s])
    BY <1>1, <1>2, <2>1 DEF Entries, Named, TypeOK
  <2>3. \A s \in Slots : Named(s)' <=> Named(s)
    BY <2>2 DEF Named
  <2>4. \A k \in Libraries : references[k] > 0 => references'[k] > 0
    BY <1>1, <1>3 DEF LoadLibraryEx, TypeOK
  <2>5. ASSUME NEW s \in Slots, Named(s) PROVE references'[slots[s].name] > 0
    <3>1. references[slots[s].name] > 0 /\ slots[s].name \in Libraries
      BY <1>3, <2>5, SlotTypes DEF TableInv, Named, LoadLibraryEx
    <3>2. QED BY <2>4, <3>1
  <2>6. QED BY <1>1, <2>2, <2>3, <2>5 DEF TableInv
<1>4. CASE Name
  <2>1. hlib = event.dll /\ references[hlib] > 0 /\ slots[i].hlib = hlib
    BY <1>4 DEF Name, SearchInv
  <2>2. \A s \in Slots : s < i => Named(s) /\ slots[s].name # hlib
    BY <1>4, <2>1 DEF Name, SearchInv
  <2>3. \A s \in Slots : Named(s) => s < i
    BY <1>1 DEF TableInv
  <2>4. /\ slots'[i].name = hlib /\ slots'[i].hlib = hlib /\ references' = references
        /\ \A s \in Slots : s # i => slots'[s] = slots[s]
    <3>1. slots' = [slots EXCEPT ![i] = [slots[i] EXCEPT !.name = hlib]]
      BY <1>4 DEF Name
    <3>2. /\ [slots[i] EXCEPT !.name = hlib].name = hlib
          /\ [slots[i] EXCEPT !.name = hlib].hlib = hlib
      BY <1>1, <1>2, <2>1 DEF Entries
    <3>3. QED BY <1>1, <1>4, <3>1, <3>2 DEF Name, TypeOK
  <2>5. \A s \in Slots : Named(s)' <=> s <= i
    BY <1>1, <2>1, <2>2, <2>3, <2>4, ResourcesAssumption DEF Named
  <2>6. ASSUME NEW s \in Slots, s <= i
        PROVE  /\ slots'[s].hlib = slots'[s].name /\ references'[slots'[s].name] > 0
               /\ \A t \in Slots : t <= i /\ slots'[s].name = slots'[t].name => s = t
    <3>1. CASE s = i
      BY <1>1, <2>1, <2>2, <2>4, <3>1
    <3>2. CASE s < i
      <4>1. Named(s)
        BY <2>2, <3>2
      <4>2. /\ slots[s].hlib = slots[s].name /\ references[slots[s].name] > 0
            /\ slots[s].name # hlib
            /\ \A t \in Slots : t < i /\ slots[s].name = slots[t].name => s = t
        BY <1>4, <2>2, <3>2, <4>1 DEF TableInv, Name
      <4>3. QED BY <1>1, <2>4, <2>6, <3>2, <4>2
    <3>3. QED BY <1>1, <2>6, <3>1, <3>2
  <2>7. QED BY <1>1, <2>5, <2>6 DEF TableInv
<1>5. QED BY <1>3, <1>4

\* As long as the service is not being stopped, every step keeps the table in order, and the
\* library that is found or loaded there.
LEMMA StepLibraries ==
  ASSUME TypeOK, IndexInv, LibraryInv, [Next]_vars
  PROVE  LibraryInv'
<1> SUFFICES ASSUME ~stopping' PROVE control'.at = "none" /\ TableInv' /\ SearchInv'
  BY DEF LibraryInv
<1>1. ~stopping
  BY DEF Next, Scan, RequestStop, ControlUnloads, Poll, Open, Call, ReadEventLog, Grow, Found,
     First, Following, Record, ParseLibs, Search, Compare, LoadLibraryEx, Name, FormatMessage,
     ScanUnloads, eventlog_set_user, engine_process_event, Eject, Complete
<1>2. control.at = "none" /\ TableInv /\ SearchInv
  BY <1>1 DEF LibraryInv
<1>3. Scan \/ UNCHANGED vars
  BY <1>2 DEF Next, RequestStop, ControlUnloads, Unload
<1>4. UNCHANGED control
  BY <1>3 DEF Scan, Poll, Open, Call, ReadEventLog, Grow, Found, First, Following, Record,
     ParseLibs, Search, Compare, LoadLibraryEx, Name, FormatMessage, ScanUnloads,
     eventlog_set_user, engine_process_event, Eject, Complete
<1>5. CASE /\ UNCHANGED libraries /\ pc \notin Unloading /\ pc' \notin Looking
           /\ pc' # "clear" /\ (pc' = "free" => i' = 0)
  BY <1>2, <1>4, <1>5, SameTable DEF SearchInv, Looking
<1>6. CASE ParseLibs
  <2>1. TableInv' /\ i' = 0 /\ pc' \in {"search", "user"}
    BY <1>2, <1>6, SameTable DEF ParseLibs, Unloading, IndexInv
  <2>2. QED BY <1>2, <1>4, <2>1 DEF SearchInv
<1>7. CASE Search
  <2>1. TableInv'
    BY <1>2, <1>7, SameTable DEF Search, Unloading
  <2>2. SearchInv'
    BY <1>2, <1>7, ResourcesAssumption DEF Search, SearchInv, Named, IndexInv, TypeOK
  <2>3. QED BY <1>2, <1>4, <2>1, <2>2
<1>8. CASE Compare
  <2>1. TableInv'
    BY <1>2, <1>8, SameTable DEF Compare, Unloading
  <2>2. i \in Slots /\ Named(i) /\ slots[i].name \in Libraries
    BY <1>2, <1>8, SlotTypes, ResourcesAssumption DEF Compare, SearchInv, IndexInv, TypeOK, Named
  <2>3. CASE PartOf(slots[i].name, event.dll)
    <3>1. slots[i].hlib = slots[i].name /\ references[slots[i].name] > 0
      BY <1>2, <1>8, <2>2 DEF TableInv, Compare
    <3>2. QED BY <1>2, <1>4, <1>8, <2>1, <2>2, <2>3, <3>1 DEF Compare, SearchInv
  <2>4. CASE ~PartOf(slots[i].name, event.dll)
    <3>1. slots[i].name # event.dll
      BY <2>4 DEF PartOf
    <3>2. \A s \in Slots : s < i + 1 => Named(s) /\ slots[s].name # event.dll
      BY <1>2, <1>8, <2>2, <3>1 DEF Compare, SearchInv
    <3>3. QED BY <1>2, <1>4, <1>8, <2>1, <2>4, <3>2 DEF Compare, SearchInv, Named
  <2>5. QED BY <2>3, <2>4
<1>9. CASE LoadLibraryEx
  <2>1. TableInv'
    BY <1>2, <1>9, LoadTable
  <2>2. SearchInv'
    <3>1. CASE pc' = "libs"
      BY <3>1 DEF SearchInv
    <3>2. CASE pc' = "name"
      <4>1. /\ i \in Slots /\ event.dll \in Libraries /\ slots[i] \in Entries
            /\ \A s \in Slots : s < i => Named(s) /\ slots[s].name # event.dll
            /\ slots[i].name = None
        BY <1>2, <1>9, ResourcesAssumption
        DEF LoadLibraryEx, SearchInv, IndexInv, Looking, TypeOK, Named
      <4>2. /\ slots' = [slots EXCEPT ![i] = [slots[i] EXCEPT !.hlib = event.dll]]
            /\ references' = [references EXCEPT ![event.dll] = @ + 1]
            /\ hlib' = event.dll /\ i' = i /\ event' = event
        BY <1>9, <3>2 DEF LoadLibraryEx, TryNext
      <4>3. slots'[i] = [slots[i] EXCEPT !.hlib = event.dll]
        BY <4>1, <4>2 DEF TypeOK
      <4>4. slots'[i].hlib = event.dll /\ slots'[i].name = None
        BY <4>1, <4>3 DEF Entries
      <4>5. \A s \in Slots : s < i => slots'[s] = slots[s]
        BY <4>1, <4>2 DEF TypeOK
      <4>6. references'[event.dll] > 0
        BY <4>1, <4>2 DEF TypeOK
      <4>7. QED BY <3>2, <4>1, <4>2, <4>4, <4>5, <4>6 DEF SearchInv, Named
    <3>3. QED BY <1>9, <3>1, <3>2 DEF LoadLibraryEx, TryNext
  <2>3. QED BY <1>2, <1>4, <2>1, <2>2
<1>10. CASE Name
  <2>1. TableInv'
    BY <1>2, <1>10, LoadTable
  <2>2. event.dll \in Libraries /\ hlib = event.dll /\ references[hlib] > 0
    BY <1>2, <1>10 DEF Name, SearchInv, IndexInv, Looking
  <2>3. QED BY <1>2, <1>4, <1>10, <2>1, <2>2 DEF Name, SearchInv, PartOf
<1>11. CASE FormatMessage
  BY <1>5, <1>11 DEF FormatMessage, TryNext, Complete, ToIdle, Looking, Unloading
<1>12. CASE ScanUnloads
  <2>1. TableInv' /\ (pc' \notin Unloading => \A s \in Slots : ~Named(s)')
    BY <1>2, <1>12, UnloadTable
  <2>2. pc' \in Unloading \cup {"open", "load"} /\ (pc' = "load" => i' = 0)
    BY <1>12 DEF ScanUnloads, Unload, Unloading
  <2>3. SearchInv'
    BY <2>1, <2>2, ResourcesAssumption DEF SearchInv, Unloading, Named
  <2>4. QED BY <1>2, <1>4, <2>1, <2>3
<1>13. CASE UNCHANGED vars
  BY <1>2, <1>13 DEF TableInv, SearchInv, Base, Named
<1>14. QED
  BY <1>3, <1>5, <1>6, <1>7, <1>8, <1>9, <1>10, <1>11, <1>12, <1>13
  DEF Scan, Poll, Open, Call, ReadEventLog, Grow, Found, First, Following, Record,
      eventlog_set_user, engine_process_event, Eject, Complete, ToIdle, IndexInv, Looking, Unloading
-----------------------------------------------------------------------------
\* Every step keeps the invariant.
LEMMA StepInv ==
  ASSUME Inv, [Next]_vars
  PROVE  Inv'
BY StepTypes, StepBuffer, StepUser, StepIndex, StepLibraries DEF Inv

\* The inductive invariant: with any libraries, SIDs, sizes of records and tables.
THEOREM Invariance == Spec => []Inv
<1>1. Init => Inv
  BY InitInv
<1>2. Inv /\ [Next]_vars => Inv'
  BY StepInv
<1>3. QED BY <1>1, <1>2, PTL DEF Spec

\* Every variable has its type.
THEOREM TypeCorrect == Spec => []TypeOK
<1>1. Inv => TypeOK
  BY DEF Inv
<1>2. QED BY <1>1, Invariance, PTL

\* ReadEventLog is given, and a record is looked at in, a buffer that is there and large enough
\* (ernoReadEventLog, FreeBigBuffer), whatever the sizes of the records.
THEOREM BufferIsThere == Spec => []BufferThere
<1>1. Inv => BufferThere
  BY DEF Inv, TypeOK, BufferInv, BufferThere, Formatting
<1>2. QED BY <1>1, Invariance, PTL

\* The account an event is passed on with is that of its SID (eventlog_set_user), whatever the
\* size of the table, as long as no SID was too long for it.
THEOREM UserIsRight == Spec => []UserRight
<1>1. Inv => UserRight
  BY DEF Inv, UserInv, UserRight
<1>2. QED BY <1>1, Invariance, PTL

\* Until the service is stopped a message is looked up in a library that is loaded, and in one
\* that is asked for (ernoLoadLibrary), whatever the libraries and the size of the table.
THEOREM LibraryIsLive == Spec => []LibraryLive
<1>1. Inv => LibraryLive
  <2>1. TypeOK /\ IndexInv => (pc \in {"load", "name"} => i \in Slots)
    BY ResourcesAssumption DEF TypeOK, IndexInv
  <2>2. LibraryInv => ((pc = "format" /\ ~stopping) =>
          hlib \in Libraries /\ references[hlib] > 0 /\ PartOf(hlib, event.dll))
    BY DEF LibraryInv, SearchInv
  <2>3. QED BY <2>1, <2>2 DEF Inv, LibraryLive
<1>2. QED BY <1>1, Invariance, PTL
=============================================================================
