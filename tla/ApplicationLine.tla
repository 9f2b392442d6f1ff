----------------------------- MODULE ApplicationLine -----------------------------
(***************************************************************************)
(* What becomes of a line of an application's log (AppParse.cpp): the      *)
(* fields of the line, the codes a #Fields: line gave them, and the        *)
(* message that parseMessage makes of both; and what the configuration     *)
(* program suggests after a look at a line (ConfAppl.cpp).                 *)
(*                                                                         *)
(* A field is its kind, which is what the recognisers tell apart: a date,  *)
(* a time, this computer's name, a word of four characters or more, the    *)
(* numbers 0 and 404, and "-". In a message the index of a field stands    *)
(* for its contents, and a negative number for what is no field.           *)
(***************************************************************************)
EXTENDS Integers, Sequences

CONSTANTS
  FieldLimit,  \* the fields of a line that parseMessage reads: 31
  Room,        \* the fields of a text that 1024 characters hold
  MaxFields,   \* bound on the fields of a line
  Codes        \* the codes of fields that the run tells apart; "" is no code

ASSUME ApplicationLineAssumption ==
  /\ FieldLimit \in Nat \ {0}
  /\ Room \in Nat
  /\ MaxFields \in Nat \ {0}
  /\ "" \in Codes

Seqs == INSTANCE SequencesExt

Blank   == 0    \* not yet known
Now     == -1   \* the date or the time of the agent's clock
Own     == -2   \* applHostName, this computer
Given   == -3   \* the process name of the settings
Unknown == -4   \* "Unknown"

Kinds == {"date", "time", "host", "word", "0", "404", "-"}
Lines == UNION {[1..n -> Kinds] : n \in 1..MaxFields}
CodeSeqs == [1..FieldLimit -> Codes]

\* The flags of an application, and a severity for each letter.
Flags == [ParseDate : BOOLEAN, ParseHost : BOOLEAN, ParseSeverity : BOOLEAN,
          ParseProcess : BOOLEAN, SeverityLevel : {3, 5, 6},
          fieldCodeProcessIsPresent : BOOLEAN]
-----------------------------------------------------------------------------
\* parseFieldCodes: the codes of a header, each a code or "too long" for 16 bytes.
\* What follows one that is too long is not read; the codes after the end of the list
\* keep their values.
parseFieldCodes(old, header) ==
  LET short == Seqs!SelectInSeq(header, LAMBDA c : c = "too long")
      n == IF short = 0 THEN Len(header) ELSE short - 1
  IN  [i \in 1..FieldLimit |-> CASE i <= n     -> header[i]
                                [] i = n + 1  -> ""
                                [] OTHER      -> old[i]]

identifyDate(f)    == f = "date"
identifyTime(f)    == f = "time"
identifyHost(f)    == f = "host"
identifyProcess(f) == f \in {"date", "host", "word"}

\* The first character of a status above '3'; a Win32 status other than 0.
IsHttpError(f)  == f \in {"404", "word", "host"}
IsWin32Error(f) == f # "0"

\* Mutant of Letter: an error begins below 3.
LetterLow(level) == IF level < 3 THEN "E" ELSE IF level < 6 THEN "W" ELSE "I"

\* The word in the brackets: error, warning or info.
Letter(level) == IF level < 4 THEN "E" ELSE IF level < 6 THEN "W" ELSE "I"

\* The message before the first field.
Start(s) ==
  [date     |-> IF s.ParseDate THEN Blank ELSE Now,
   time     |-> IF s.ParseDate THEN Blank ELSE Now,
   host     |-> IF s.ParseHost THEN Blank ELSE Own,
   process  |-> IF s.ParseProcess THEN Blank ELSE Given,
   severity |-> IF s.ParseSeverity THEN 6 ELSE s.SeverityLevel,
   letter   |-> IF s.ParseSeverity THEN "I" ELSE Letter(s.SeverityLevel),
   text     |-> << >>,
   found    |-> (IF s.ParseDate THEN {} ELSE {"date", "time"})
                 \cup (IF s.ParseHost THEN {} ELSE {"host", "server name", "server ip"})
                 \cup (IF s.ParseProcess THEN {} ELSE {"process"})
                 \cup (IF s.ParseSeverity THEN {} ELSE {"severity"})]

\* Mutant of Field: what the severity is read from does not go into the text.
FieldUsed(m, i, f, code, s) ==
  LET had(x) == x \in m.found
      got(x) == m.found \cup {x}
  IN  IF code = "sc-status" THEN [m EXCEPT !.found = got("severity")]
      ELSE IF ~had("date") /\ identifyDate(f) THEN [m EXCEPT !.found = got("date"), !.date = i]
      ELSE [m EXCEPT !.text = Append(@, i)]

\* One field: first by its code, then by what it looks like.
Field(m, i, f, code, s) ==
  LET had(x) == x \in m.found
      got(x) == m.found \cup {x}
      error(is) == IF is THEN [m EXCEPT !.severity = 3, !.letter = "E"] ELSE m
  IN  IF code = "date" /\ ~had("date")
        THEN [m EXCEPT !.found = got("date"), !.date = IF identifyDate(f) THEN i ELSE @]
      ELSE IF code = "time" /\ ~had("time")
        THEN [m EXCEPT !.found = got("time"), !.time = IF identifyTime(f) THEN i ELSE @]
      ELSE IF code = "s-computername" /\ ~had("server name")
        THEN [m EXCEPT !.found = got("server name") \cup {"host"}, !.host = i]
      ELSE IF code = "s-ip" /\ ~had("server ip")
        THEN [m EXCEPT !.found = got("server ip") \cup {"host"},
                       !.host = IF had("host") THEN @ ELSE i]
      ELSE IF code = "s-sitename" /\ ~had("process")
        THEN [m EXCEPT !.found = got("process"), !.process = i]
      ELSE IF code = "sc-win32-status" /\ ~had("win32") /\ s.ParseSeverity
        THEN [error(IsWin32Error(f)) EXCEPT !.found = got("win32"), !.text = Append(@, i)]
      ELSE IF code = "sc-status"
        THEN [error(IsHttpError(f) /\ s.ParseSeverity /\ ~had("severity"))
                EXCEPT !.found = got("severity"), !.text = Append(@, i)]
      ELSE IF ~had("date") /\ identifyDate(f)
        THEN [m EXCEPT !.found = got("date"), !.date = i]
      ELSE IF ~had("time") /\ identifyTime(f)
        THEN [m EXCEPT !.found = got("time"), !.time = i]
      ELSE IF ~had("host") /\ identifyHost(f)
        THEN [m EXCEPT !.found = got("host"), !.host = i]
      ELSE IF ~had("process") /\ ~s.fieldCodeProcessIsPresent /\ identifyProcess(f)
        THEN [m EXCEPT !.found = got("process"), !.process = i]
      ELSE [m EXCEPT !.text = Append(@, i)]

\* What was to be parsed and was not found. The letter of the severity remains.
Finish(m) ==
  [m EXCEPT !.date = IF "date" \in m.found THEN @ ELSE Now,
            !.time = IF "time" \in m.found THEN @ ELSE Now,
            !.severity = IF "severity" \in m.found THEN @ ELSE 6,
            !.host = IF @ = Blank THEN Own ELSE @,
            !.process = IF "process" \in m.found THEN @ ELSE Unknown]

\* The message after each number of fields.
Parsed(line, codes, s) ==
  LET after[n \in 0..Len(line)] ==
        IF n = 0 THEN Start(s) ELSE Field(after[n - 1], n, line[n], codes[n], s)
  IN  after

\* field[]: what follows the last field that is read is left out.
FieldsOf(line) == IF Len(line) > FieldLimit THEN SubSeq(line, 1, FieldLimit) ELSE line

\* _snprintf_s with _TRUNCATE: what there is no room for is cut off, and the text is last.
Cut(m) == [m EXCEPT !.text = IF Len(@) > Room THEN SubSeq(@, 1, Room) ELSE @]

\* parseMessage of a line that is no header.
parseMessage(line, codes, s) ==
  LET fields == FieldsOf(line)
  IN  Cut(Finish(Parsed(fields, codes, s)[Len(fields)]))

AllFlags(present) ==
  [ParseDate |-> TRUE, ParseHost |-> TRUE, ParseSeverity |-> TRUE, ParseProcess |-> TRUE,
   SeverityLevel |-> 6, fieldCodeProcessIsPresent |-> present]

\* Mutant of OnBnClickedSuggestsettings: every flag stays set.
SuggestAll(line, codes, present) == AllFlags(present)

\* OnBnClickedSuggestsettings: parse a line with every flag set, keep those that found
\* something; fieldCodeProcessIsPresent is what the stack holds.
OnBnClickedSuggestsettings(line, codes, present) ==
  LET m == parseMessage(line, codes, AllFlags(present))
  IN  [AllFlags(present) EXCEPT
         !.ParseDate     = m.found \cap {"date", "time"} # {},
         !.ParseHost     = m.host # Own,
         !.ParseSeverity = "severity" \in m.found,
         !.ParseProcess  = "process" \in m.found]

\* ... and what begins a comment, from the first character of the log: none if it is a
\* digit, a letter or a space. The comparisons leave out the first and the last of each.
NoPrefix(c) == c \in 49..56 \/ c \in 66..89 \/ c \in 98..121 \/ c = 32
-----------------------------------------------------------------------------
\* Field i of the line is in message m, or its code says what it is, or it is the name of
\* the computer and another field has the code of that.
Kept(i, line, codes, m) ==
  \/ i \in {m.date, m.time, m.host, m.process} \cup Seqs!ToSet(m.text)
  \/ codes[i] \in {"date", "time", "s-computername", "s-ip"}
  \/ line[i] = "host" /\ \E j \in 1..Len(line) : codes[j] = "s-computername"

\* Field i is not in the text, which is full and ends before it.
CutOff(i, m) == Len(m.text) = Room /\ \A k \in DOMAIN m.text : m.text[k] < i

\* A Win32 status alone, of which parseMessage makes no severity.
Win32Alone(line, codes) ==
  LET has == {codes[i] : i \in 1..Len(line)}
  IN  "sc-win32-status" \in has /\ "sc-status" \notin has

\* The number in front of the message and the word in its brackets.
Agree(severity, letter) ==
  /\ letter = "E" <=> severity <= 3
  /\ letter = "I" <=> severity >= 6

\* What is looked for under s is found in m where it was found in all.
FoundAgain(s, m, all) ==
  /\ s.ParseDate => m.date = all.date /\ m.time = all.time
  /\ s.ParseHost => m.host = all.host
  /\ s.ParseSeverity => m.severity = all.severity
  /\ s.ParseProcess => m.process = all.process /\ m.process # Unknown
=============================================================================
