----------------------------- MODULE EventResources ----------------------------
(***************************************************************************)
(* What the scan of the event logs keeps between two records, and must not *)
(* mix up (eventlog.cpp): the table of message libraries, in which the     *)
(* text of an event is looked up, the table of SIDs whose accounts are     *)
(* known, and the buffer ReadEventLog fills, which grows for a large       *)
(* record. The libraries are also freed by the thread that gets the        *)
(* service's stop request (service_ctrl in service.cpp), while the scan    *)
(* may be at any place.                                                    *)
(*                                                                         *)
(* A handle is the library it stands for, and the account of a SID is that *)
(* SID. Which records are read is in EventLogReader, what becomes of an    *)
(* event in Forwarding and OutputQueue.                                    *)
(***************************************************************************)
EXTENDS Integers, FiniteSetsExt

CONSTANTS
  Libraries,       \* the message libraries the sources of events have
  Inner, Outer,    \* two of them: the name of the first is part of the second's
  None,            \* no library, no SID, no account
  MaxLibraries,    \* MAXLOADEDLIBRARIES
  Sids, LongSids,  \* SIDs; those that are longer than a slot of the table
  MaxSids,         \* MAXLOADEDSIDS
  Sizes,           \* sizes of records, in units of EVENTLOG_BUFFER_LEN; beyond 64 all are
                   \* rejected, as those beyond 32 are
  Largest,         \* the largest buffer the code asks for (3000000 bytes)
  SystemLargest,   \* the largest buffer ReadEventLog accepts (512k)
  Lists,           \* bound on the libraries a source has
  Reads,           \* bound on the reads FindFirstReadPos makes, and on those of
                   \* the big loop: the log ends there
  Batch            \* bound on the records one ReadEventLog returns

ASSUME ResourcesAssumption ==
  /\ {Inner, Outer} \subseteq Libraries /\ None \notin Libraries \cup Sids
  /\ LongSids \subseteq Sids /\ Sizes \subseteq 1..64
  /\ {MaxSids, Lists, Reads, Batch} \subseteq Nat \ {0} /\ MaxLibraries \in Nat \ {0, 1}
  /\ Largest \in Nat \ {0} /\ SystemLargest \in Nat \ {0}

VARIABLES
  slots,       \* LoadedLibrary: a name and a handle each
  references,  \* how often the process has each library loaded
  stopping,    \* service_halting()
  control,     \* the stop request: what ernoUnloadLoadLibrary does there, and where
  known,       \* LoadedSIDS: valid, SID and account
  longKnown,   \* history: the account of a long SID was entered
  buffer,      \* eventBuffer: its size, 0 when there is none
  allocated,   \* eventBuffer is memory the process has
  pc, i,       \* where the scan is, and the slot it looks at
  call,        \* the read it is in
  read,        \* the read's result: the size it is for, status and last error
  log,         \* recordOffset is known, ThisIsInitialLoop, reads made, records left
  event,       \* the event: the library to try, how many were tried, SID and account
  hlib         \* the handle it is looked up in

libraries == <<slots, references>>
scan      == <<pc, i, call, read, log, event, hlib>>
vars      == <<libraries, stopping, control, known, longKnown, buffer, allocated, scan>>

Slots    == 0..MaxLibraries - 1
SidSlots == 0..MaxSids - 1

Nothing == [size |-> 0, ok |-> FALSE, insufficient |-> FALSE]
Idle    == [offset |-> FALSE, initial |-> TRUE, reads |-> 0, left |-> 0]
NoEvent == [dll |-> None, tried |-> 0, sid |-> None, user |-> None]

Init ==
  /\ slots = [s \in Slots |-> [name |-> None, hlib |-> None]]
  /\ references = [l \in Libraries |-> 0]
  /\ stopping = FALSE /\ control = [at |-> "none", i |-> 0]
  /\ known = [s \in SidSlots |-> [valid |-> FALSE, sid |-> None, user |-> None]]
  /\ longKnown = FALSE /\ buffer = 0 /\ allocated = FALSE
  /\ pc = "idle" /\ i = 0 /\ call = "none"
  /\ read = Nothing /\ log = Idle /\ event = NoEvent /\ hlib = None
-----------------------------------------------------------------------------
(* The table of libraries.                                                 *)

\* strstr: the name of a loaded library is part of the one that is asked for.
PartOf(name, dll) == name \in {None, dll} \/ (name = Inner /\ dll = Outer)

FreeLibrary(l) ==
  [references EXCEPT ![l] = IF references[l] > 0 THEN references[l] - 1 ELSE 0]

\* Mutant: the library is freed and stays in the table.
ClearedNot(s) == slots

Cleared(s) == [slots EXCEPT ![s].name = None]

\* ernoUnloadLoadLibrary as either thread runs it: free what a slot holds, then
\* clear its name, up to the first slot without one. It is at `at`, in slot s,
\* and goes on to <<where, slot>>.
Unload(at, s, where, slot) ==
  \/ /\ at = "free" /\ s \in Slots /\ slots[s].name # None
     /\ references' = IF slots[s].hlib = None THEN references ELSE FreeLibrary(slots[s].hlib)
     /\ where = "clear" /\ slot = s /\ UNCHANGED slots
  \/ /\ at = "clear" /\ slots' = Cleared(s)
     /\ where = "free" /\ slot = s + 1 /\ UNCHANGED references
  \/ /\ at = "free" /\ (s \notin Slots \/ slots[s].name = None)
     /\ where = "end" /\ slot = 0 /\ UNCHANGED libraries

\* A stop request: service_stop, and then the libraries are freed.
RequestStop ==
  /\ ~stopping /\ stopping' = TRUE
  /\ control' = [at |-> "free", i |-> 0]
  /\ UNCHANGED <<libraries, known, longKnown, buffer, allocated, scan>>

ControlUnloads ==
  /\ \E where \in {"free", "clear", "end"}, slot \in Slots \cup {MaxLibraries} :
        /\ Unload(control.at, control.i, where, slot)
        /\ control' = [at |-> where, i |-> slot]
  /\ UNCHANGED <<stopping, known, longKnown, buffer, allocated, scan>>
-----------------------------------------------------------------------------
(* A poll of one event log.                                                *)

resources == <<libraries, stopping, control, known, longKnown, buffer, allocated>>

\* The scan ends, for this log and this poll.
ToIdle ==
  /\ pc' = "idle" /\ i' = 0 /\ call' = "none"
  /\ read' = Nothing /\ log' = Idle /\ event' = NoEvent /\ hlib' = None

\* Mutant: the buffer is freed and still pointed to.
FreeBigBufferDangling ==
  /\ allocated' = (allocated /\ buffer <= 1) /\ UNCHANGED buffer

\* FreeBigBuffer
FreeBigBuffer ==
  IF buffer > 1 THEN buffer' = 0 /\ allocated' = FALSE ELSE UNCHANGED <<buffer, allocated>>

Eject    == ToIdle /\ UNCHANGED resources
Complete == ToIdle /\ FreeBigBuffer /\ UNCHANGED <<libraries, stopping, control, known, longKnown>>

\* eventlog_check_events: every 20 seconds the libraries are freed first.
Poll ==
  /\ pc = "idle" /\ ~stopping
  /\ \E offset, due \in BOOLEAN :
        /\ log' = [Idle EXCEPT !.offset = offset]
        /\ pc' = IF due THEN "free" ELSE "open"
  /\ UNCHANGED <<i, call, read, event, hlib, resources>>

\* LabelForResettedEventLog
Open ==
  /\ pc = "open"
  /\ \/ Eject    \* stopping, or OpenEventLog fails
     \/ /\ ~stopping
        /\ pc' = "call" /\ call' = IF log.offset THEN "next" ELSE "find"
        /\ UNCHANGED <<i, read, log, event, hlib, resources>>

\* ernoReadEventLog is entered: for a record of some size, or the end of the log.
Call ==
  /\ pc = "call"
  /\ \E size \in {0} \cup (IF log.reads < Reads THEN Sizes ELSE {}) :
        read' = [Nothing EXCEPT !.size = size]
  /\ \/ buffer > 0 /\ pc' = "read" /\ UNCHANGED <<buffer, allocated>>
     \/ buffer = 0 /\ pc' = "read" /\ buffer' = 1 /\ allocated' = TRUE
     \/ buffer = 0 /\ pc' = "called" /\ UNCHANGED <<buffer, allocated>>   \* malloc
  /\ UNCHANGED <<libraries, stopping, control, known, longKnown, i, call, log, event, hlib>>

\* Mutant: the doubling stops one step early.
MultipleBelow(size) == Min({m \in {2, 4, 8, 16, 32, 64} : 2 * m >= size})

\* The least power of two that is enough for a record of the size.
Multiple(size) == Min({m \in {2, 4, 8, 16, 32, 64} : m >= size})

\* ReadEventLog: the end of the log, or a buffer it does not accept; or the record
\* fits; or it does not, and the buffer is freed.
ReadEventLog ==
  /\ pc = "read"
  /\ \/ /\ read.size = 0 \/ buffer > SystemLargest
        /\ pc' = "called" /\ UNCHANGED <<read, buffer, allocated>>
     \/ /\ read.size \in 1..buffer /\ buffer <= SystemLargest
        /\ pc' = "called" /\ read' = [read EXCEPT !.ok = TRUE]
        /\ UNCHANGED <<buffer, allocated>>
     \/ /\ read.size > buffer /\ buffer <= SystemLargest
        /\ pc' = "grow" /\ buffer' = 0 /\ allocated' = FALSE /\ UNCHANGED read
  /\ UNCHANGED <<libraries, stopping, control, known, longKnown, i, call, log, event, hlib>>

\* One that is large enough is allocated, unless that is too large or there is no
\* memory; the last error is then what ReadEventLog left, or the logger's.
Grow ==
  /\ pc = "grow"
  /\ LET m == Multiple(read.size) IN
     \/ m <= Largest /\ buffer' = m /\ allocated' = TRUE /\ pc' = "read" /\ UNCHANGED read
     \/ /\ pc' = "called" /\ UNCHANGED <<buffer, allocated>>
        /\ \E error \in BOOLEAN : read' = [read EXCEPT !.insufficient = error]
  /\ UNCHANGED <<libraries, stopping, control, known, longKnown, i, call, log, event, hlib>>

\* FindFirstReadPos reads the oldest record, the newest and some between. It has
\* looked at a record only after a read that succeeded.
Found ==
  /\ pc = "called" /\ call = "find"
  /\ \/ /\ read.ok
        /\ log' = [log EXCEPT !.reads = @ + 1] /\ UNCHANGED call
     \/ log' = [log EXCEPT !.reads = 0] /\ call' = "first"
  /\ pc' = "call" /\ read' = Nothing
  /\ UNCHANGED <<i, event, hlib, resources>>

\* The record there is looked at also when the read failed with the last error
\* ERROR_INSUFFICIENT_BUFFER. Without a buffer that raises the exception, whose
\* handler logs the text of an event there is none of.
First ==
  /\ pc = "called" /\ call = "first"
  /\ \/ ~read.ok /\ ~read.insufficient /\ Eject
     \/ /\ read.ok
        /\ log' = [log EXCEPT !.offset = TRUE]
        /\ pc' = "call" /\ call' = "next" /\ read' = Nothing
        /\ UNCHANGED <<i, event, hlib, resources>>
     \/ read.insufficient /\ Complete
     \/ /\ read.insufficient
        /\ pc' = "dead" /\ UNCHANGED <<i, call, read, log, event, hlib, resources>>

Restarted == [Idle EXCEPT !.initial = FALSE]

\* A read of the big loop: the log was cleared (start again, once), or there are
\* records, or there is nothing more.
Following ==
  /\ pc = "called" /\ call = "next"
  /\ \/ /\ log.initial     \* the record is not there, or another one is
        /\ pc' = "open" /\ log' = Restarted /\ read' = Nothing
        /\ UNCHANGED <<i, call, event, hlib, resources>>
     \/ read.ok /\ stopping /\ Eject
     \/ /\ read.ok /\ ~stopping
        /\ \E n \in 1..Batch : 
              log' = [offset |-> TRUE, initial |-> FALSE, left |-> n, reads |-> log.reads + 1]
        /\ pc' = "record" /\ UNCHANGED <<i, call, read, event, hlib, resources>>
     \/ ~read.ok /\ ~log.initial /\ Complete
-----------------------------------------------------------------------------
(* The records of a buffer.                                                *)

\* The buffer is done with, a record is filtered out or not in the window, or an
\* event is made of it; malloc0 may fail.
Record ==
  /\ pc = "record"
  /\ \/ /\ log.left = 0
        /\ pc' = "call" /\ read' = Nothing
        /\ UNCHANGED <<i, call, log, event, hlib, resources>>
     \/ /\ log.left > 0 /\ log' = [log EXCEPT !.left = @ - 1]
        /\ \/ UNCHANGED <<pc, event>>
           \/ pc' = "libs" /\ event' = NoEvent
        /\ UNCHANGED <<i, call, read, hlib, resources>>
     \/ log.left > 0 /\ Eject

\* eventlog_set_event_msg takes the next library of the source's list
\* (eventlog_parse_libs), or else the strings of the record.
ParseLibs ==
  /\ pc = "libs"
  /\ \/ /\ event.tried < Lists
        /\ \E dll \in Libraries : event' = [NoEvent EXCEPT !.dll = dll, !.tried = event.tried + 1]
        /\ pc' = "search"
     \/ pc' = "user" /\ event' = NoEvent
  /\ UNCHANGED <<i, call, read, log, hlib, resources>>

\* ernoLoadLibrary
Search ==
  /\ pc = "search"
  /\ \/ i \in Slots /\ slots[i].name # None /\ pc' = "compare" /\ UNCHANGED i
     \/ /\ (i \notin Slots \/ slots[i].name = None)
        /\ IF i = MaxLibraries - 1 THEN pc' = "free" /\ i' = 0    \* loaded full
                                   ELSE pc' = "load" /\ UNCHANGED i
  /\ UNCHANGED <<call, read, log, event, hlib, resources>>

Compare ==
  /\ pc = "compare"
  /\ IF PartOf(slots[i].name, event.dll)
       THEN pc' = "format" /\ hlib' = slots[i].hlib /\ i' = 0
       ELSE pc' = "search" /\ i' = i + 1 /\ UNCHANGED hlib
  /\ UNCHANGED <<call, read, log, event, resources>>

TryNext == pc' = "libs" /\ event' = [event EXCEPT !.dll = None] /\ hlib' = None /\ i' = 0

LoadLibraryEx ==
  /\ pc = "load"
  /\ \/ LET l == event.dll IN
        /\ slots' = [slots EXCEPT ![i].hlib = l]
        /\ references' = [references EXCEPT ![l] = @ + 1]
        /\ pc' = "name" /\ hlib' = l /\ UNCHANGED <<i, event>>
     \/ slots' = [slots EXCEPT ![i].hlib = None] /\ TryNext /\ UNCHANGED references
  /\ UNCHANGED <<stopping, control, known, longKnown, buffer, allocated, call, read, log>>

Name ==
  /\ pc = "name"
  /\ slots' = [slots EXCEPT ![i].name = hlib]
  /\ pc' = "format" /\ i' = 0
  /\ UNCHANGED <<references, stopping, control, known, longKnown, buffer, allocated,
                 call, read, log, event, hlib>>

\* FormatMessage finds the message, in the library or the system, or not. With a
\* handle that was freed it may also raise an exception.
FormatMessage ==
  /\ pc = "format"
  /\ \/ TryNext /\ UNCHANGED <<call, read, log, resources>>
     \/ /\ pc' = "user" /\ hlib' = None /\ event' = NoEvent
        /\ UNCHANGED <<i, call, read, log, resources>>
     \/ hlib # None /\ references[hlib] = 0 /\ Complete

\* The scan frees the libraries: at the start of a poll, or when the table is full.
ScanUnloads ==
  /\ \E where \in {"free", "clear", "end"}, slot \in Slots \cup {MaxLibraries} :
        /\ Unload(pc, i, where, slot)
        /\ pc' = IF where # "end" THEN where ELSE IF event.dll = None THEN "open" ELSE "load"
        /\ i' = slot
  /\ UNCHANGED <<stopping, control, known, longKnown, buffer, allocated, call, read, log,
                 event, hlib>>
-----------------------------------------------------------------------------
(* The account of an event.                                                *)

\* The slots the search of the table gets to, and those of them with the SID.
Entered   == {s \in SidSlots : \A t \in 0..s : known[t].valid}
Hits(sid) == {s \in Entered : known[s].sid = sid}

\* ernoUnloadLoadSIDS
Forgotten == [s \in SidSlots |-> [known[s] EXCEPT !.valid = FALSE]]

\* LookupAccountSid has found the account and put it into the slot. CopySid
\* leaves the slot's SID as it was when the new one is longer.
Enter(table, s, sid) ==
  [table EXCEPT ![s] = [valid |-> TRUE, user |-> sid,
                        sid |-> IF sid \in LongSids THEN table[s].sid ELSE sid]]

\* Mutant: the SID is entered before its account is known.
FailEntered(table, s, sid) == [table EXCEPT ![s].valid = TRUE, ![s].sid = sid]

\* LookupAccountSid fails: the slot stays free.
Fail(table, s, sid) == table

eventlog_set_user ==
  /\ pc = "user" /\ pc' = "emit"
  /\ LET full  == Entered = SidSlots
         free  == IF full THEN 0 ELSE Cardinality(Entered)
         table == IF full THEN Forgotten ELSE known
     IN \/ event' = NoEvent /\ UNCHANGED <<known, longKnown>>     \* no SID, or no lookup
        \/ \E sid \in Sids :
           \/ /\ Hits(sid) # {}
              /\ event' = [NoEvent EXCEPT !.sid = sid, !.user = known[Min(Hits(sid))].user]
              /\ UNCHANGED <<known, longKnown>>
           \/ /\ Hits(sid) = {}
              /\ known' = Fail(table, free, sid)
              /\ event' = [NoEvent EXCEPT !.sid = sid] /\ UNCHANGED longKnown
           \/ /\ Hits(sid) = {}
              /\ known' = Enter(table, free, sid)
              /\ event' = [NoEvent EXCEPT !.sid = sid, !.user = sid]
              /\ longKnown' = (longKnown \/ sid \in LongSids)
  /\ UNCHANGED <<libraries, stopping, control, buffer, allocated, i, call, read, log, hlib>>

\* engine_process_event hands the event to the output queue.
engine_process_event ==
  /\ pc = "emit"
  /\ pc' = "record" /\ event' = NoEvent
  /\ UNCHANGED <<i, call, read, log, hlib, resources>>
-----------------------------------------------------------------------------
Scan ==
  \/ Poll \/ Open \/ Call \/ ReadEventLog \/ Grow \/ Found \/ First \/ Following
  \/ Record \/ ParseLibs \/ Search \/ Compare \/ LoadLibraryEx \/ Name \/ FormatMessage
  \/ ScanUnloads \/ eventlog_set_user \/ engine_process_event

Next == RequestStop \/ ControlUnloads \/ Scan

\* Both threads run; nothing makes the scan of a log wait for anything.
Spec == Init /\ [][Next]_vars /\ WF_vars(Scan) /\ WF_vars(ControlUnloads)
-----------------------------------------------------------------------------
(* Properties.                                                             *)

Entries    == [name : Libraries \cup {None}, hlib : Libraries \cup {None}]
SidEntries == [valid : BOOLEAN, sid : Sids \cup {None}, user : Sids \cup {None}]
Results    == [size : 0..64, ok : BOOLEAN, insufficient : BOOLEAN]
LogStates  == [offset : BOOLEAN, initial : BOOLEAN, reads : Nat, left : Nat]
Events     == [dll : Libraries \cup {None}, tried : Nat, sid : Sids \cup {None},
               user : Sids \cup {None}]

\* Every variable has its type.
TypeOK ==
  /\ slots \in [Slots -> Entries] /\ references \in [Libraries -> Nat]
  /\ stopping \in BOOLEAN
  /\ control \in [at : {"none", "free", "clear", "end"}, i : Nat]
  /\ known \in [SidSlots -> SidEntries] /\ longKnown \in BOOLEAN
  /\ buffer \in Nat /\ allocated \in BOOLEAN
  /\ pc \in {"idle", "open", "call", "read", "called", "grow", "record", "libs", "search",
            "compare", "load", "name", "format", "user", "emit", "free", "clear", "dead"}
  /\ i \in Nat
  /\ call \in {"none", "find", "first", "next"}
  /\ read \in Results /\ log \in LogStates /\ event \in Events
  /\ hlib \in Libraries \cup {None}

\* As long as the service is not being stopped, the text of an event is looked up
\* in a library that is loaded, and that is the one its source names or one whose
\* name is part of it (ernoLoadLibrary); and no slot beyond the table is used.
LibraryLive ==
  /\ (pc = "format" /\ ~stopping) =>
        hlib \in Libraries /\ references[hlib] > 0 /\ PartOf(hlib, event.dll)
  /\ pc \in {"load", "name"} => i \in Slots

\* An event that is passed on has no account or the account of its own SID
\* (eventlog_set_user), unless a SID that is too long for the table was entered
\* before: then another's account may stand beside the SID that was there.
UserRight == (pc = "emit" /\ ~longKnown) => event.user \in {None, event.sid}

\* ReadEventLog fills, and the scan looks at, a buffer the process has and that
\* holds the record (ernoReadEventLog, FreeBigBuffer), but for one case: the read
\* that looks for the place to start was given up for want of memory.
BufferThere ==
  /\ pc = "read" => allocated
  /\ (pc = "record" \/ (pc = "called" /\ read.ok)) => allocated /\ read.size \in 1..buffer
  /\ pc = "dead" => call = "first" /\ ~read.ok

\* Every poll of a log comes to its end (or the process does): the buffer grows
\* until the record fits or is given up, the log is started again at most once,
\* and the searches of the tables end.
ScanReturns == (pc # "idle") ~> (pc \in {"idle", "dead"})
=============================================================================
