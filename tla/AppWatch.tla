-------------------------------- MODULE AppWatch --------------------------------
(***************************************************************************)
(* One AppWatch thread (appWatch.cpp) that follows the log of an           *)
(* application: one file ("file"), the newest file of a directory          *)
(* ("directory"), or a file that the application renames over the one      *)
(* rotated before when it begins a new one ("rotate"). The thread reads to *)
(* the end of what it has open, sends each line whose end it has read,     *)
(* looks for a new file, and sleeps. A file that rotates it looks at, and  *)
(* opens, again after each sleep.                                          *)
(*                                                                         *)
(* A line is written in two pieces, so that the end of the file may be in  *)
(* the middle of it. The pieces are numbered: the n-th line of all is      *)
(* 2n - 1 and then 2n, and the p-th piece of file f is log[f] + p.         *)
(* If the application writes headers, the first line of each file is one,  *)
(* of a format of its own; in the code it is one of the first five.        *)
(* A file that is open (_SH_DENYNO allows no delete) cannot be renamed or  *)
(* renamed over. A position counts pieces; in a UNICODE file it is one     *)
(* more, which matters only where it is compared with 0. There a piece has *)
(* twice as many bytes as characters: a position counts characters, and a  *)
(* size bytes. A file that cannot be opened, or not examined, ends the     *)
(* thread.                                                                 *)
(***************************************************************************)
EXTENDS Integers, Sequences

CONSTANTS
  Modes,       \* how the log may be found
  Prefixed,    \* whether lines that begin with the prefix may be ignored
  Block,       \* 65536, the bytes of a file that are read at first, as pieces of one byte
  Lines,       \* bound on the number of lines
  Rotations,   \* bound on the number of new files
  Outages      \* bound on the number of network failures

ASSUME AppWatchAssumption ==
  /\ Modes \subseteq {"file", "directory", "rotate"}
  /\ Prefixed \subseteq BOOLEAN
  /\ Block \in Nat \ {0}
  /\ Lines \in Nat /\ Rotations \in Nat /\ Outages \in Nat

VARIABLES
  SettingsPtr, \* the settings, and whether the application writes headers
  log,         \* the files in the order of their creation: the pieces before each
  absent,      \* the newest is renamed, and there is no other of its name yet
  pieces,      \* how many pieces were written
  outages,     \* how often the network failed
  LastTransmitOK,
  pc,          \* where the thread is
  filename,    \* of a file that rotates: "current" or "rotated"
  fp,          \* the file the thread has open, 0 for none
  leaked,      \* the files opened and never closed
  filePosition,
  createdTime, \* of the file as the thread knows it: its place in log
  RotationJustOccured,
  stat,        \* statbuf.st_ctime
  fieldCodes,  \* the first of the codes, and the others: whose header they are of
  data,        \* the pieces of the line begun
  done,        \* the lines sent, ignored or skipped, in order
  first,       \* history: the pieces in front of the place where the thread began
  raced,       \* history: new files came faster than the thread looks, or as it looked
  late         \* history: files opened before their first line was complete

files   == <<SettingsPtr, log, absent, pieces>>
net     == <<outages, LastTransmitOK>>
reading == <<filename, fp, leaked, filePosition, createdTime, RotationJustOccured, stat,
             fieldCodes>>
vars    == <<files, net, pc, reading, data, done, first, raced, late>>

newest == Len(log)

\* How many pieces a file has.
Size(f) == (IF f = newest THEN pieces ELSE log[f + 1]) - log[f]

\* st_size, in bytes.
Bytes(f) == IF SettingsPtr.ConfirmedUnicodeFormat THEN 2 * Size(f) ELSE Size(f)

Rotates == SettingsPtr.mode = "rotate"

\* The file of a name, 0 if there is none: before the first rotation no rotated file, and
\* during a rotation no current one.
File(name) ==
  CASE name = "rotated" -> IF absent THEN newest ELSE newest - 1
    [] name = "current" -> IF absent THEN 0 ELSE newest

\* The log was there before the service. NbrIgnoreLines is 1.
Init ==
  /\ SettingsPtr \in [mode : Modes, headers : BOOLEAN, ignorePrefixLines : Prefixed,
                      ignoreFirstLines : BOOLEAN, ConfirmedUnicodeFormat : BOOLEAN]
  /\ SettingsPtr.ConfirmedUnicodeFormat => SettingsPtr.ignoreFirstLines /\ ~SettingsPtr.headers
  /\ SettingsPtr.ignorePrefixLines => SettingsPtr.headers
  /\ pieces \in 0..2
  /\ log = <<0>> /\ absent = FALSE
  /\ outages = 0 /\ LastTransmitOK = TRUE
  /\ pc = "restart"
  /\ filename = "current" /\ fp = 0 /\ leaked = {} /\ filePosition = 0 /\ createdTime = 0
  /\ RotationJustOccured = FALSE /\ stat = 0 /\ fieldCodes = <<0, 0>>
  /\ data = << >> /\ done = << >>
  /\ first = 0 /\ raced = FALSE /\ late = {}
-----------------------------------------------------------------------------
(* The application and the network.                                        *)

WritePiece ==
  /\ pieces < 2 * Lines
  /\ ~absent
  /\ pieces' = pieces + 1
  /\ UNCHANGED <<SettingsPtr, log, absent, net, pc, reading, data, done, first, raced, late>>

\* The thread has not seen the last new file yet, or is about to look or to open one.
Races ==
  \/ pc # "restart" /\ createdTime # newest
  \/ pc \notin IF Rotates THEN {"restart", "sleep"} ELSE {"restart", "look", "read", "sleep"}

\* The application rotates between two lines: it renames the current file ...
Rename ==
  /\ Rotates
  /\ ~absent
  /\ newest <= Rotations
  /\ pieces % 2 = 0
  /\ {newest, newest - 1} \cap (leaked \cup ({fp} \ {0})) = {}
  /\ absent' = TRUE
  /\ raced' = (raced \/ Races)
  /\ UNCHANGED <<SettingsPtr, log, pieces, net, pc, reading, data, done, first, late>>

\* ... and then creates it again; or it begins a new file of the directory, between two
\* lines. What the thread was to leave out of the file before ends with it.
NewFile ==
  /\ SettingsPtr.mode # "file"
  /\ newest <= Rotations
  /\ pieces % 2 = 0
  /\ Rotates => absent
  /\ log' = Append(log, pieces)
  /\ absent' = FALSE
  /\ raced' = (raced \/ Races)
  /\ first' = IF first > pieces THEN pieces ELSE first
  /\ UNCHANGED <<SettingsPtr, pieces, net, pc, reading, data, done, late>>

NetworkFails ==
  /\ LastTransmitOK
  /\ outages < Outages
  /\ outages' = outages + 1
  /\ LastTransmitOK' = FALSE
  /\ UNCHANGED <<files, pc, reading, data, done, first, raced, late>>

NetworkWorks ==
  /\ ~LastTransmitOK
  /\ LastTransmitOK' = TRUE
  /\ UNCHANGED <<files, outages, pc, reading, data, done, first, raced, late>>
-----------------------------------------------------------------------------
(* initLogFile                                                             *)

\* Mutant of Codes: the header is looked for in the first file only.
CodesOnce(f) ==
  IF SettingsPtr.headers /\ Size(f) >= 2 /\ f = 1 THEN <<f, f>> ELSE <<0, fieldCodes[2]>>

\* The codes after a look for a header at the start of file f: half of one gives codes that
\* nothing was written under (-1). If there is none only the first code is emptied.
Codes(f) ==
  CASE ~SettingsPtr.headers \/ Size(f) = 0 -> <<0, fieldCodes[2]>>
    [] SettingsPtr.headers /\ Size(f) = 1  -> <<-1, -1>>
    [] OTHER                               -> <<f, f>>

\* Mutant of Skipped: as for UNICODE files, whose position in a new file is 1.
SkippedNever(f, position) == << >>

\* What is skipped of file f when it is opened at a position: the first line, as far as it
\* is there.
Skipped(f, position) ==
  IF SettingsPtr.ignoreFirstLines /\ ~SettingsPtr.ConfirmedUnicodeFormat /\ position = 0
    THEN [i \in 1..IF Size(f) < 2 THEN Size(f) ELSE 2 |-> log[f] + i]
    ELSE << >>

initLogFile(f, position) ==
  /\ createdTime' = f
  /\ fieldCodes' = Codes(f)
  /\ filePosition' = position + Len(Skipped(f, position))
  /\ done' = IF Skipped(f, position) = << >> THEN done
             ELSE Append(done, [line |-> Skipped(f, position), file |-> f, as |-> "skipped",
                                codes |-> Codes(f)])
  /\ late' = IF position = 0 /\ Size(f) < 2 THEN late \cup {<<f, "begun">>} ELSE late

\* initLogFile fails: there is no such file, or _fsopen, _stat64 or fseek fails, or the file
\* has over 2 GB. The thread ends, and what it has opened stays open.
initLogFileFails(f) ==
  /\ pc' = "ended"
  /\ fp' \in {0, f}
  /\ UNCHANGED <<files, net, filename, filePosition, createdTime, RotationJustOccured, stat,
                 fieldCodes, data, done, first, raced, late>>
-----------------------------------------------------------------------------
(* AppWatch                                                                *)

\* Where the thread begins to read file f. It goes to Block bytes before the end and reads
\* from there, but fseek takes the bytes before that place for characters: if they are not
\* less than the file has, the place is beyond the end, and two characters more. A piece of
\* which these are the first is left out.
End(f) ==
  IF SettingsPtr.ConfirmedUnicodeFormat /\ Size(f) >= Block
    THEN Bytes(f) - Block + 1
    ELSE Size(f)

\* RestartLocation: read to the end, send nothing, close if the file rotates. datap is not
\* reset.
Restart ==
  /\ pc = "restart"
  /\ ~absent
  /\ filename' = "current"
  /\ fp' = IF Rotates THEN 0 ELSE newest
  /\ createdTime' = newest
  /\ fieldCodes' = Codes(newest)
  /\ filePosition' = End(newest)
  /\ first' = IF createdTime = 0 THEN log[newest] + End(newest) ELSE first
  /\ late' = CASE Size(newest) = 0 -> late \cup {<<newest, "begun">>}
               [] Size(newest) = 1 -> late \cup {<<newest, "half">>}
               [] OTHER            -> late
  /\ pc' = "look"
  /\ UNCHANGED <<files, net, leaked, RotationJustOccured, stat, data, done, raced>>

RestartFails ==
  /\ pc = "restart"
  /\ initLogFileFails(File("current"))
  /\ UNCHANGED leaked

\* Whatever is open is closed, the rotated file included.
Wait ==
  /\ pc = "look"
  /\ ~LastTransmitOK
  /\ fp' = 0
  /\ pc' = "waiting"
  /\ UNCHANGED <<files, net, filename, leaked, filePosition, createdTime, RotationJustOccured,
                 stat, fieldCodes, data, done, first, raced, late>>

Resume ==
  /\ pc = "waiting"
  /\ LastTransmitOK
  /\ pc' = "restart"
  /\ UNCHANGED <<files, net, reading, data, done, first, raced, late>>

\* Mutant of SeesRotation: only the size is compared.
SeesShrinking == Bytes(newest) < filePosition

\* _stat64: another creation time, or fewer bytes than were read.
SeesRotation == newest # createdTime \/ Bytes(newest) < filePosition

\* Mutant of Stat: nothing remembers that the file is the rotated one.
StatForgets ==
  /\ pc = "look"
  /\ LastTransmitOK
  /\ Rotates
  /\ IF absent THEN UNCHANGED <<stat, filename>>
               ELSE /\ stat' = newest
                    /\ filename' = IF SeesRotation THEN "rotated" ELSE filename
  /\ pc' = "open"
  /\ UNCHANGED <<files, net, fp, leaked, filePosition, createdTime, RotationJustOccured,
                 fieldCodes, data, done, first, raced, late>>

\* If _stat64 fails nothing is seen of a rotation.
Stat ==
  /\ pc = "look"
  /\ LastTransmitOK
  /\ Rotates
  /\ stat' = IF absent THEN stat ELSE newest
  /\ IF ~absent /\ SeesRotation
       THEN filename' = "rotated" /\ RotationJustOccured' = TRUE
       ELSE UNCHANGED <<filename, RotationJustOccured>>
  /\ pc' = "open"
  /\ UNCHANGED <<files, net, fp, leaked, filePosition, createdTime, fieldCodes, data, done,
                 first, raced, late>>

\* A file that does not rotate is open.
Look ==
  /\ pc = "look"
  /\ LastTransmitOK
  /\ ~Rotates
  /\ pc' = "read"
  /\ UNCHANGED <<files, net, reading, data, done, first, raced, late>>

\* A file that is still open is forgotten, and stays open.
Forgets == leaked' = leaked \cup ({fp} \ {0})

Open ==
  /\ pc = "open"
  /\ File(filename) # 0
  /\ initLogFile(File(filename), filePosition)
  /\ fp' = File(filename)
  /\ Forgets
  /\ pc' = "read"
  /\ UNCHANGED <<files, net, filename, RotationJustOccured, stat, data, first, raced>>

OpenFails ==
  /\ pc = "open"
  /\ initLogFileFails(File(filename))
  /\ Forgets

AtEnd == filePosition >= Size(createdTime)

\* A line that was read: a header begins with the prefix.
Header(line) ==
  SettingsPtr.headers /\ line[1] = log[createdTime] + 1

ReadLine(line) ==
  /\ fieldCodes' = IF Header(line) /\ SettingsPtr.ignorePrefixLines
                     THEN <<createdTime, createdTime>> ELSE fieldCodes
  /\ done' = Append(done,
       [line |-> line, file |-> createdTime,
        as |-> CASE ~Header(line) -> "sent"
                 [] Header(line) /\ SettingsPtr.ignorePrefixLines -> "ignored"
                 [] OTHER -> "sent as it is",
        codes |-> fieldCodes])

\* A piece that ends no line is kept.
ReadPiece ==
  /\ pc = "read"
  /\ ~AtEnd
  /\ filePosition' = filePosition + 1
  /\ LET piece == log[createdTime] + filePosition'
         line  == Append(data, piece)
     IN  IF piece % 2 = 0
           THEN ReadLine(line) /\ data' = << >>
           ELSE data' = line /\ UNCHANGED <<done, fieldCodes>>
  /\ UNCHANGED <<files, net, pc, filename, fp, leaked, createdTime, RotationJustOccured,
                 stat, first, raced, late>>

\* A file that rotates is closed.
EndOfFile ==
  /\ pc = "read"
  /\ AtEnd
  /\ ~RotationJustOccured
  /\ fp' = IF Rotates THEN 0 ELSE fp
  /\ pc' = IF SettingsPtr.mode = "directory" THEN "search" ELSE "sleep"
  /\ UNCHANGED <<files, net, filename, leaked, filePosition, createdTime, RotationJustOccured,
                 stat, fieldCodes, data, done, first, raced, late>>

\* The rotated file is read; go on with the new one at once. The rotated file is not closed.
EndOfRotated ==
  /\ pc = "read"
  /\ AtEnd
  /\ RotationJustOccured
  /\ filename' = "current"
  /\ filePosition' = 0
  /\ createdTime' = stat
  /\ RotationJustOccured' = FALSE
  /\ pc' = "look"
  /\ UNCHANGED <<files, net, fp, leaked, stat, fieldCodes, data, done, first, raced, late>>

\* getLatestLogFileName.
Search ==
  /\ pc = "search"
  /\ IF newest = createdTime
       THEN UNCHANGED <<fp, createdTime, fieldCodes, filePosition, done, late>>
       ELSE initLogFile(newest, 0) /\ fp' = newest
  /\ pc' = "sleep"
  /\ UNCHANGED <<files, net, filename, leaked, RotationJustOccured, stat, data, first, raced>>

\* The file before is closed.
SearchFails ==
  /\ pc = "search"
  /\ newest # createdTime
  /\ initLogFileFails(newest)
  /\ UNCHANGED leaked

Wake ==
  /\ pc = "sleep"
  /\ pc' = "look"
  /\ UNCHANGED <<files, net, reading, data, done, first, raced, late>>
-----------------------------------------------------------------------------
Environment == WritePiece \/ Rename \/ NewFile \/ NetworkFails \/ NetworkWorks

Watcher == \/ Restart \/ Wait \/ Resume \/ Stat \/ Look \/ Open
           \/ ReadPiece \/ EndOfFile \/ EndOfRotated \/ Search \/ Wake
           \/ RestartFails \/ OpenFails \/ SearchFails

Next == Environment \/ Watcher

Spec == Init /\ [][Next]_vars

\* The thread runs, until it ends.
FairSpec == Spec /\ WF_vars(Watcher)
-----------------------------------------------------------------------------
Before(s, t) == \A i \in DOMAIN s, j \in DOMAIN t : s[i] < t[j]

Rising(s) == \A i, j \in DOMAIN s : i < j => s[i] < s[j]

\* Of some of what was done, and of the line begun: nothing twice, and nothing before what
\* was written earlier.
InOrder(D) ==
  /\ \A i, j \in D : i < j => Before(done[i].line, done[j].line)
  /\ \A i \in D : Rising(done[i].line) /\ Before(done[i].line, data)
  /\ Rising(data)

\* What was not skipped.
Ordered == InOrder({i \in DOMAIN done : done[i].as # "skipped"})

Pieces(s) == {s[i] : i \in DOMAIN s}

\* What the thread has read since it began.
Taken == (UNION {Pieces(done[i].line) : i \in DOMAIN done}) \cup Pieces(data)

\* Nothing was left out since then, and what was skipped came in its place.
Complete == InOrder(DOMAIN done) /\ \E n \in 0..pieces : Taken = (first + 1)..n

\* Every variable has its type; at most one piece waits for the other.
TypeOK ==
  /\ newest \in Nat /\ pieces \in Nat /\ outages \in Nat /\ LastTransmitOK \in BOOLEAN
  /\ absent \in BOOLEAN /\ fp \in Nat /\ leaked \in SUBSET Nat
  /\ pc \in {"restart", "look", "waiting", "open", "read", "search", "sleep", "ended"}
  /\ filename \in {"current", "rotated"}
  /\ filePosition \in Nat /\ createdTime \in Nat /\ stat \in Nat
  /\ RotationJustOccured \in BOOLEAN /\ fieldCodes \in (Int \X Int)
  /\ ~raced /\ outages = 0 => Len(data) <= 1
  /\ first \in Nat /\ raced \in BOOLEAN

\* From one file to the next nothing is repeated or out of order, also after an outage,
\* and if the network works nothing is left out: if a file is rotated only while the thread
\* sleeps, and a directory gets no second new file before the thread has found the first.
\* The thread begins at the end of the log, but for a UNICODE log that is longer than Block
\* somewhere beyond: what is written up to there, or to the next file, comes before first.
LinesInOrder == ~raced => Ordered /\ (outages = 0 => Complete)

\* ... and in the end every line is sent, unless the thread ends because it cannot open a
\* file.
EveryLineSent ==
  \A n \in 1..Lines :
    (pc # "restart" /\ pieces >= 2 * n)
      ~> (raced \/ outages > 0 \/ first >= 2 * n \/ pc = "ended"
            \/ \E i \in DOMAIN done : 2 * n \in Pieces(done[i].line))

\* A whole line of one file.
Whole(d) ==
  Len(d.line) = 2 /\ \A i \in 1..2 : d.line[i] - log[d.file] \in 1..Size(d.file)

\* A header that is written after the file was opened is missed: it is sent, or its first
\* half is skipped as the file is opened.
Misses == ~SettingsPtr.ignorePrefixLines \/ SettingsPtr.ignoreFirstLines

\* Each line is parsed by the header of its own file, whatever files were read before and
\* however often the file is opened, and without codes if there are no headers. As for
\* LinesInOrder the network works and new files do not come too fast; the thread must not
\* have begun in the middle of the header, nor have opened the file before the header was
\* there unless it ignores lines with a prefix and not the first lines.
HeaderKept ==
  ~raced /\ outages = 0 =>
    \A i \in DOMAIN done :
      done[i].as = "sent" /\ Whole(done[i]) =>
        LET f == done[i].file
        IN  \/ done[i].codes = IF SettingsPtr.headers THEN <<f, f>> ELSE <<0, 0>>
            \/ <<f, "half">> \in late
            \/ <<f, "begun">> \in late /\ Misses

\* The lines to be ignored at the start of a file are not sent, if they were there when the
\* file was opened and it is no UNICODE file.
FirstLinesIgnored ==
  SettingsPtr.ignoreFirstLines /\ ~SettingsPtr.ConfirmedUnicodeFormat =>
    \A i \in DOMAIN done :
      done[i].as = "skipped" \/ ~Whole(done[i]) \/ done[i].line[1] # log[done[i].file] + 1
        \/ <<done[i].file, "begun">> \in late

\* "rotation has occured. Read end of old file then start with the new file". The code does
\* not keep this if the rotation falls between Stat and Open.
RotationFollowed == outages = 0 => Complete

\* "Give file rotation a change": a sleeping thread has closed the files.
\* The code does not keep this.
RotationHasAChance == pc = "sleep" => leaked = {}

\* "Go to 65k before the file end [...] Then read until EOF": the thread begins at the end of
\* the file. The code does not keep this for a UNICODE file of more than 128 KB.
BeginsAtEnd == createdTime # 0 => filePosition <= Size(createdTime)

\* A file that is not there yet is waited for ("Loop until at least one file in directory").
\* The code does not keep this for a file that rotates: a thread that wakes between the
\* renaming and the new file ends.
OutlivesRotation == [][ File(filename) = 0 /\ pc # "ended" => pc' # "ended" ]_vars

\* "uses one line per log entry": what is sent after the first is one line.
\* The code does not keep this after an outage.
OneLineEach ==
  \A i \in 2..Len(done) : Whole(done[i])
=============================================================================
