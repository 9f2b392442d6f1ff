--------------------------- MODULE ApplicationSettings ---------------------------
(***************************************************************************)
(* The settings of one application log: the dialog that writes them        *)
(* (ConfAppl.cpp) and the start of the agent, which reads them             *)
(* (AppWatchMain in appWatch.cpp), each one value of the registry at a     *)
(* time. A log is found in one of three ways: the newest file of a         *)
(* directory, one file, or one file that is rotated into another.          *)
(***************************************************************************)
EXTENDS ApplicationLine

CONSTANTS
  Texts,       \* what the administrator may enter
  WritesFail,  \* whether a write of the registry may fail
  MaxVisits,   \* bound on how often the dialog is opened
  MaxStarts    \* bound on how often the agent is started

\* The empty text: of an empty control, and of a value that is not in the key.
Unset == "unset"

ASSUME ApplicationSettingsAssumption ==
  /\ Unset \notin Texts
  /\ WritesFail \in BOOLEAN
  /\ MaxVisits \in Nat /\ MaxStarts \in Nat

\* The values of a key. "format" stands for those that say how a line is parsed.
Source == {"path", "ext", "filename", "rotate", "rotated"}
Values == Source \cup {"format"}

NoText == [v \in Values |-> Unset]

VARIABLES
  key,       \* the key of the application: whether it exists, and its values
  stage,     \* the dialog: "closed", "open", or "writing"
  radio,     \* m_radio: 1 directory, 2 file, 3 rotated file; 0 any other number
  fields,    \* the texts of its controls
  todo,      \* the values still to be written, in order, each with its text
  visits,    \* how often the dialog was opened
  agent,     \* the agent: "off", "found", the value to read next, or "started"
  got,       \* what it has read
  starts,    \* how often it was started
  chosen,    \* history: radio and fields when the dialog was last left with OK
  disturbed  \* history: a write failed since then, or came between the agent's reads

dialog == <<stage, radio, fields, todo, visits>>
reader == <<agent, got, starts>>
settingsVars == <<key, dialog, reader, chosen, disturbed>>

Nothing == [radio |-> 0, fields |-> NoText]

SettingsInit ==
  /\ key = [exists |-> FALSE, values |-> NoText]
  /\ stage = "closed" /\ radio = 0 /\ fields = NoText /\ todo = << >> /\ visits = 0
  /\ agent = "off" /\ got = NoText /\ starts = 0
  /\ chosen = Nothing /\ disturbed = FALSE
-----------------------------------------------------------------------------
(* CConfAppl                                                               *)

\* The controls that a radio button empties.
Cleared(r) ==
  CASE r = 1 -> {"rotated", "rotate", "filename"}
    [] r = 2 -> {"rotated", "rotate", "path"}
    [] r = 3 -> {"path", "filename"}

\* The controls it leaves enabled.
Enabled(r) ==
  CASE r = 1 -> {"path", "ext"}
    [] r = 2 -> {"filename"}
    [] r = 3 -> {"rotate", "rotated"}
    [] OTHER -> Source

Empty(f, vs) == [v \in Values |-> IF v \in vs THEN Unset ELSE f[v]]

\* OnInitDialog of a new application.
OpenNew ==
  /\ stage = "closed"
  /\ visits < MaxVisits
  /\ visits' = visits + 1
  /\ stage' = "open" /\ radio' = 1
  /\ fields' = [NoText EXCEPT !["ext"] = "log"]
  /\ UNCHANGED <<key, todo, reader, chosen, disturbed>>

\* ReadSettings: the handlers of the radio buttons are called as the values are found.
\* If there is none, m_radio keeps what memory held.
OpenEdit ==
  /\ stage = "closed"
  /\ key.exists
  /\ visits < MaxVisits
  /\ visits' = visits + 1
  /\ stage' = "open"
  /\ LET has(v) == key.values[v] # Unset
         byFile == IF has("filename") THEN Empty(key.values, {"path"}) ELSE key.values
     IN  /\ fields' = IF has("rotated") THEN Empty(byFile, {"path", "filename"}) ELSE byFile
         /\ radio' \in IF has("rotated") THEN {3}
                       ELSE IF has("filename") THEN {2}
                       ELSE IF has("path") THEN {1} ELSE 0..3
  /\ UNCHANGED <<key, todo, reader, chosen, disturbed>>

ClickRadio(r) ==
  /\ stage = "open"
  /\ radio' = r
  /\ fields' = Empty(fields, Cleared(r))
  /\ UNCHANGED <<key, stage, todo, visits, reader, chosen, disturbed>>

\* The administrator enters a text, by hand or with a Browse button.
Enter(v, t) ==
  /\ stage = "open"
  /\ v \in Enabled(radio) \cup {"format"}
  /\ fields' = [fields EXCEPT ![v] = t]
  /\ UNCHANGED <<key, stage, radio, todo, visits, reader, chosen, disturbed>>

Required(r) ==
  CASE r = 1 -> {"path"}
    [] r = 2 -> {"filename"}
    [] r = 3 -> {"rotate", "rotated"}
    [] OTHER -> {}

\* Mutant of Order: the name of the file is not emptied for a directory.
OrderKeeps(r) ==
  CASE r = 1 -> <<"ext", "path", "rotate", "rotated", "format">>
    [] r = 2 -> <<"filename", "ext", "path", "rotate", "rotated", "format">>
    [] OTHER -> <<"rotate", "rotated", "filename", "ext", "path", "format">>

\* In which order the values are written.
Order(r) ==
  CASE r = 1 -> <<"ext", "path", "filename", "rotate", "rotated", "format">>
    [] r = 2 -> <<"filename", "ext", "path", "rotate", "rotated", "format">>
    [] OTHER -> <<"rotate", "rotated", "filename", "ext", "path", "format">>

\* What is written of a value: the text of its control or nothing.
Written(r, v) ==
  IF v = "format" \/ v \in Enabled(IF r \in 1..2 THEN r ELSE 3) THEN fields[v] ELSE Unset

OnBnClickedOk ==
  /\ stage = "open"
  /\ \A v \in Required(radio) : fields[v] # Unset
  /\ todo' = [i \in DOMAIN Order(radio) |->
                [value |-> Order(radio)[i], text |-> Written(radio, Order(radio)[i])]]
  /\ key' = [key EXCEPT !.exists = TRUE]
  /\ stage' = "writing"
  /\ chosen' = [radio |-> radio, fields |-> fields]
  /\ disturbed' = (agent \notin {"off", "started"})
  /\ UNCHANGED <<radio, fields, visits, reader>>

\* WriteRegKey, whose result nobody looks at.
Write ==
  /\ stage = "writing"
  /\ todo # << >>
  /\ todo' = Tail(todo)
  /\ \/ /\ key' = [key EXCEPT !.values[Head(todo).value] = Head(todo).text]
        /\ disturbed' = (disturbed \/ agent \notin {"off", "started"})
     \/ /\ WritesFail
        /\ disturbed' = TRUE
        /\ UNCHANGED key
  /\ UNCHANGED <<stage, radio, fields, visits, reader, chosen>>

Close ==
  /\ \/ stage = "writing" /\ todo = << >>
     \/ stage = "open"
  /\ stage' = "closed"
  /\ radio' = 0 /\ fields' = NoText
  /\ UNCHANGED <<key, todo, visits, reader, chosen, disturbed>>

\* OnBnClickedRemoveAppl of the main dialog: DeleteKey.
RemoveAppl ==
  /\ stage = "closed"
  /\ key.exists
  /\ key' = [exists |-> FALSE, values |-> NoText]
  /\ chosen' = Nothing
  /\ disturbed' = (agent \notin {"off", "started"})
  /\ UNCHANGED <<dialog, reader>>
-----------------------------------------------------------------------------
(* AppWatchMain                                                            *)

\* The names of the applications are listed first.
StartAgent ==
  /\ agent \in {"off", "started"}
  /\ key.exists
  /\ starts < MaxStarts
  /\ starts' = starts + 1
  /\ agent' = "found"
  /\ got' = NoText
  /\ disturbed' = (disturbed \/ stage = "writing")
  /\ UNCHANGED <<key, dialog, chosen>>

\* GoToRegKey creates the key again if it was removed meanwhile.
GoTo ==
  /\ agent = "found"
  /\ key' = [key EXCEPT !.exists = TRUE]
  /\ agent' = "path"
  /\ UNCHANGED <<dialog, got, starts, chosen, disturbed>>

\* The name of the rotated file is read only if there is one that rotates, that of the
\* single file only if there is none.
Following(v, text) ==
  CASE v = "path"     -> "ext"
    [] v = "ext"      -> "rotate"
    [] v = "rotate"   -> IF text # Unset THEN "rotated" ELSE "filename"
    [] v = "rotated"  -> "format"
    [] v = "filename" -> "format"
    [] v = "format"   -> "started"

Read ==
  /\ agent \in Values
  /\ got' = [got EXCEPT ![agent] = key.values[agent]]
  /\ agent' = Following(agent, key.values[agent])
  /\ UNCHANGED <<key, dialog, starts, chosen, disturbed>>

\* The service is stopped.
Stop ==
  /\ agent = "started"
  /\ agent' = "off"
  /\ got' = NoText
  /\ UNCHANGED <<key, dialog, starts, chosen, disturbed>>
-----------------------------------------------------------------------------
SettingsNext ==
  \/ OpenNew \/ OpenEdit \/ OnBnClickedOk \/ Write \/ Close \/ RemoveAppl
  \/ \E r \in 1..3 : ClickRadio(r)
  \/ \E v \in Values, t \in Texts : Enter(v, t)
  \/ StartAgent \/ GoTo \/ Read \/ Stop

SettingsSpec == SettingsInit /\ [][SettingsNext]_settingsVars
-----------------------------------------------------------------------------
(* What the settings do to a line: over every line, every list of codes and *)
(* all flags, evaluated in the first state.                                *)

\* A field of a line is left out of its message only if its code says what it is, if it is
\* the name of the computer and another field has the code of that, or if it comes too late:
\* after the fields that are read, or where the text has filled the message.
NothingLost ==
  visits = 0 =>
    \A line \in Lines, codes \in CodeSeqs, s \in Flags :
      LET m == parseMessage(line, codes, s)
      IN  \A i \in 1..Len(line) :
            i > FieldLimit \/ CutOff(i, m) \/ Kept(i, FieldsOf(line), codes, m)

\* The priority of a message and the word in its brackets agree, except if the only status
\* is a Win32 status.
SeverityAgrees ==
  visits = 0 =>
    \A line \in Lines, codes \in CodeSeqs, s \in Flags :
      LET m == parseMessage(line, codes, s)
      IN  Agree(m.severity, m.letter) \/ (s.ParseSeverity /\ Win32Alone(FieldsOf(line), codes))

\* With the flags that the dialog suggests after a look at a line, that line is parsed as
\* it was with all of them: date, time, host, severity and process are where they were
\* found; except if the only status is a Win32 status.
SuggestionFits ==
  visits = 0 =>
    \A line \in Lines, codes \in CodeSeqs, present \in BOOLEAN :
      LET s == OnBnClickedSuggestsettings(line, codes, present)
          m == parseMessage(line, codes, s)
          all == parseMessage(line, codes, AllFlags(present))
      IN  FoundAgain(s, m, all) \/ Win32Alone(FieldsOf(line), codes)
-----------------------------------------------------------------------------
\* The source that AppWatch takes from what was read.
SourceOf(v) ==
  IF v["rotate"] # Unset THEN <<3, v["rotate"], v["rotated"]>>
  ELSE IF v["filename"] # Unset THEN <<2, v["filename"]>>
  ELSE <<1, v["path"], v["ext"]>>

\* The one that the administrator has chosen.
Choice ==
  CASE chosen.radio = 1 -> <<1, chosen.fields["path"], chosen.fields["ext"]>>
    [] chosen.radio = 2 -> <<2, chosen.fields["filename"]>>
    [] chosen.radio = 3 -> <<3, chosen.fields["rotate"], chosen.fields["rotated"]>>

\* Whatever way to find the log was set before, the agent that starts follows the one
\* chosen last, and parses it as was chosen with it, unless a write of the registry failed
\* or came between its reads.
SourceAgrees ==
  [][ agent = "format" /\ agent' = "started" /\ ~disturbed /\ chosen.radio # 0
        => SourceOf(got') = Choice /\ got'["format"] = chosen.fields["format"] ]_settingsVars

\* An application that was removed before the agent reads its settings is not started.
\* The code does not keep this: "GoToRegKey - create if not existant".
RemovedNotStarted ==
  [][ agent = "found" => agent' = "found" \/ key.exists ]_settingsVars
=============================================================================
