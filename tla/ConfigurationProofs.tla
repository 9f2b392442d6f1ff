---------------------------- MODULE ConfigurationProofs ----------------------------
(***************************************************************************)
(* An agent that runs with old settings has a reason that is named, the    *)
(* two readers of an event log's key agree, and the boxes that are open on *)
(* top of each other are few: for any settings, logs, applications and     *)
(* number of inputs, whoever else controls the service. The first of these *)
(* is Inv, the second KeysOK with DialogOK, the third, and with it the     *)
(* type of every variable, TypesOK with Few.                               *)
(***************************************************************************)
EXTENDS Configuration, SequenceTheorems, FiniteSetTheorems, TLAPS

\* What CheckRestartService puts on the stack.
Asking == {"question", "stop box", "wait", "start"}

\* While one of these is on the stack, CheckRestartService asks or is yet to be called.
AskingOrToAsk == Asking \cup {"mirror box", "check"}

Asks(st) == \E i \in 1..Len(st) : st[i] \in AskingOrToAsk

\* What is in the middle of asking is on top of at most one other frame.
Nested(st) ==
  /\ st \in Seq(Frames)
  /\ \A i \in 1..Len(st) : i > 1 => st[i] \in Asking

\* The variables that are records have their fields and no others.
RegFields ==
  reg = [fields |-> reg.fields, mode |-> reg.mode, mirror |-> reg.mirror,
         events |-> reg.events, apps |-> reg.apps, list |-> reg.list]

GuiFields ==
  gui = [open |-> gui.open, shown |-> gui.shown, known |-> gui.known,
         planned |-> gui.planned, timer3 |-> gui.timer3, text |-> gui.text,
         installable |-> gui.installable, list |-> gui.list]

SvcFields == svc = [state |-> svc.state, marked |-> svc.marked]

LoadedFields(loaded) ==
  loaded = [events |-> loaded.events, filter |-> loaded.filter, logs |-> loaded.logs,
            to |-> loaded.to, watched |-> loaded.watched]

AgentFields == agent = [pc |-> agent.pc, loaded |-> agent.loaded] /\ LoadedFields(agent.loaded)

Fields == RegFields /\ GuiFields /\ SvcFields /\ AgentFields

\* The settings that the agent has read so far are those in the registry.
LoadedSame ==
  /\ agent.pc \in {"logs", "report", "main", "apps", "done"} =>
       agent.loaded.events = reg.events
  /\ agent.pc \in {"report", "main", "apps", "done"} =>
       /\ agent.loaded.filter = reg.fields
       /\ agent.loaded.logs = InRegistry.logs
  /\ agent.pc \in {"apps", "done"} =>
       /\ agent.loaded.to = <<reg.fields, reg.mode, reg.mirror>>
       /\ agent.loaded.watched = InRegistry.watched

\* Unless there is a reason, the agent has read what is in the registry, or a question
\* whether to restart it is open or will come.
Fresh == reasons = {} => gui.timer3 \/ Asks(stack) \/ LoadedSame

-----------------------------------------------------------------------------
(* Frames.                                                                 *)

\* Front takes the last frame off a stack.
LEMMA FrontOK ==
  ASSUME NEW st, Nested(st), st # << >>
  PROVE  /\ Nested(Front(st))
         /\ Len(Front(st)) = Len(st) - 1
         /\ \A i \in 1..Len(st) - 1 : Front(st)[i] = st[i]
  <1>1. st \in Seq(Frames)
    BY DEF Nested
  <1>2. \A i \in 1..Len(st) - 1 : st[i] \in Frames
    BY <1>1
  <1>3. /\ Front(st) \in Seq(Frames)
        /\ Len(Front(st)) = IF 1 <= Len(st) - 1 THEN Len(st) - 1 - 1 + 1 ELSE 0
        /\ \A i \in 1..(Len(st) - 1) - 1 + 1 : Front(st)[i] = st[1 + i - 1]
    <2>1. 1 \in Int /\ Len(st) - 1 \in Int
      BY <1>1
    <2> QED BY <1>2, <2>1, SubSeqProperties DEF Front
  <1>4. Len(Front(st)) = Len(st) - 1
    <2>1. PICK n \in Nat : n = Len(st) /\ n > 0
      BY <1>1
    <2>2. Len(Front(st)) = IF 1 <= n - 1 THEN n - 1 - 1 + 1 ELSE 0
      BY <1>3, <2>1
    <2> QED BY <2>1, <2>2
  <1>5. \A i \in 1..Len(st) - 1 : Front(st)[i] = st[i]
    BY <1>1, <1>3
  <1>6. Nested(Front(st))
    BY <1>1, <1>3, <1>4, <1>5 DEF Nested
  <1> QED BY <1>1, <1>4, <1>5, <1>6

\* A frame of CheckRestartService may be put on any stack.
LEMMA AppendOK ==
  ASSUME NEW st, Nested(st), NEW f \in Asking
  PROVE  /\ Nested(Append(st, f)) /\ Asks(Append(st, f))
         /\ Len(Append(st, f)) = Len(st) + 1
         /\ Append(st, f)[Len(st) + 1] = f
         /\ \A i \in 1..Len(st) : Append(st, f)[i] = st[i]
  <1>1. st \in Seq(Frames)
    BY DEF Nested
  <1>0. f \in Frames
    BY DEF Asking, Frames
  <1>2. /\ Append(st, f) \in Seq(Frames) /\ Len(Append(st, f)) = Len(st) + 1
        /\ Append(st, f)[Len(st) + 1] = f
        /\ \A i \in 1..Len(st) : Append(st, f)[i] = st[i]
    BY <1>0, <1>1
  <1>3. Nested(Append(st, f))
    BY <1>1, <1>2 DEF Nested
  <1>4. Asks(Append(st, f))
    <2>1. f \in AskingOrToAsk
      BY DEF AskingOrToAsk
    <2>2. Len(st) + 1 \in 1..Len(st) + 1
      BY <1>1
    <2> QED BY <1>2, <2>1, <2>2 DEF Asks
  <1> QED BY <1>2, <1>3, <1>4

\* A frame that is not one of CheckRestartService's is the only one, if it is on top.
LEMMA Lowest ==
  ASSUME NEW f, Nested(stack), Top = f, f \notin Asking, f # "window"
  PROVE  /\ Len(stack) = 1 /\ stack[1] = f /\ stack # << >>
         /\ Front(stack) = << >>
  <1>1. stack # << >> /\ stack[Len(stack)] = f
    BY DEF Top, Last
  <1>2. stack \in Seq(Frames)
    BY DEF Nested
  <1>3. ~(Len(stack) > 1)
    BY <1>1, <1>2 DEF Nested
  <1>4. Len(stack) = 1
    <2>1. PICK n \in Nat : n = Len(stack) /\ n > 0
      BY <1>1, <1>2
    <2> QED BY <1>3, <2>1
  <1>5. Front(stack) = << >>
    <2>1. Len(stack) - 1 < 1 /\ Len(stack) - 1 \in Int
      BY <1>4
    <2> QED BY <2>1, SubSeqEmpty DEF Front
  <1> QED BY <1>1, <1>4, <1>5

\* A stack of one frame.
LEMMA Single ==
  ASSUME NEW f \in Frames
  PROVE  /\ Nested(<<f>>) /\ Len(<<f>>) = 1 /\ <<f>>[1] = f
         /\ Append(<< >>, f) = <<f>>
  BY DEF Nested

\* The empty stack.
LEMMA Empty == Nested(<< >>) /\ Len(<< >>) = 0
  BY DEF Nested

\* CheckRestartService asks, or it is noted that it did not.
LEMMA Asked ==
  ASSUME NEW below, Nested(below), CheckRestartService(below)
  PROVE  /\ Nested(stack') /\ (Asks(stack)' \/ reasons' # {})
         /\ stack' = below \/ stack' = Append(below, "question")
  <1>1. CASE gui.text = "running"
    <2>1. stack' = Append(below, "question")
      BY <1>1 DEF CheckRestartService
    <2>2. "question" \in Asking
      BY DEF Asking
    <2>3. Nested(stack') /\ Asks(stack')
      BY <2>1, <2>2, AppendOK
    <2> QED BY <2>1, <2>3
  <1>2. CASE gui.text # "running"
    <2>1. stack' = below /\ reasons' = reasons \cup {"status"}
      BY <1>2 DEF CheckRestartService
    <2> QED BY <2>1
  <1> QED BY <1>1, <1>2
-----------------------------------------------------------------------------
(* Records.                                                                *)

\* The status changes the text and the button of the main window only.
LEMMA StatusOK ==
  ASSUME GuiFields, NEW s, NEW g, g = DisplayStatus(s)
  PROVE  /\ g.open = gui.open /\ g.shown = gui.shown /\ g.known = gui.known
         /\ g.planned = gui.planned /\ g.timer3 = gui.timer3 /\ g.list = gui.list
         /\ g.text = s
         /\ g = [open |-> g.open, shown |-> g.shown, known |-> g.known,
                 planned |-> g.planned, timer3 |-> g.timer3, text |-> g.text,
                 installable |-> g.installable, list |-> g.list]
  BY DEF GuiFields, DisplayStatus

\* The window as it opens keeps its third timer.
LEMMA MainOK ==
  ASSUME GuiFields, NEW s, NEW g, g = OnInitMain(s)
  PROVE  /\ g.open = TRUE /\ g.shown = reg.fields /\ g.known = reg.fields
         /\ g.planned = FALSE /\ g.timer3 = gui.timer3 /\ g.list = reg.list
         /\ g.text = s
         /\ g = [open |-> g.open, shown |-> g.shown, known |-> g.known,
                 planned |-> g.planned, timer3 |-> g.timer3, text |-> g.text,
                 installable |-> g.installable, list |-> g.list]
  <1> DEFINE d == DisplayStatus(s)
  <1>1. /\ d.timer3 = gui.timer3 /\ d.text = s
        /\ d = [open |-> d.open, shown |-> d.shown, known |-> d.known,
                planned |-> d.planned, timer3 |-> d.timer3, text |-> d.text,
                installable |-> d.installable, list |-> d.list]
    BY StatusOK
  <1>2. g = [d EXCEPT !.open = TRUE, !.shown = reg.fields, !.known = reg.fields,
                      !.planned = FALSE, !.list = reg.list]
    BY DEF OnInitMain
  <1> HIDE DEF d
  <1> QED BY <1>1, <1>2

\* So does a new one.
LEMMA LaunchOK ==
  ASSUME GuiFields, Launch
  PROVE  /\ gui'.open = TRUE /\ gui'.shown = reg.fields /\ gui'.known = reg.fields
         /\ gui'.planned = FALSE /\ gui'.timer3 = gui.timer3 /\ gui'.list = reg.list
         /\ GuiFields'
  <1> DEFINE d == OnInitMain(svc.state)
             b == svc.state # "running"
  <1>1. /\ d.open = TRUE /\ d.shown = reg.fields /\ d.known = reg.fields
        /\ d.planned = FALSE /\ d.timer3 = gui.timer3 /\ d.list = reg.list
        /\ d = [open |-> d.open, shown |-> d.shown, known |-> d.known,
                planned |-> d.planned, timer3 |-> d.timer3, text |-> d.text,
                installable |-> d.installable, list |-> d.list]
    BY MainOK, ZenonT(30)
  <1>2. gui' = [d EXCEPT !.installable = b]
    BY Zenon DEF Launch
  <1> HIDE DEF d, b
  <1> QED BY <1>1, <1>2 DEF GuiFields

\* Whatever is saved, the registry holds the same values.
LEMMA SavedOK ==
  ASSUME RegFields, NEW r, r = Saved
  PROVE  /\ r.mode = reg.mode /\ r.mirror = reg.mirror /\ r.events = reg.events
         /\ r.apps = reg.apps /\ r.list = reg.list
         /\ r = [fields |-> r.fields, mode |-> r.mode, mirror |-> r.mirror,
                 events |-> r.events, apps |-> r.apps, list |-> r.list]
         /\ gui.shown = gui.known => r = reg
         /\ gui.shown # gui.known => r.fields = gui.shown
  BY DEF RegFields, Saved

-----------------------------------------------------------------------------
(* The records keep their fields.                                          *)

\* An agent that is not there.
LEMMA OffOK ==
  /\ Off = [pc |-> Off.pc, loaded |-> Off.loaded] /\ LoadedFields(Off.loaded)
  /\ Off.pc = "off" /\ Off.loaded.watched = {}
  <1> DEFINE to == <<NoAddress, "udp", FALSE>>
             none == << >>
             l == [events |-> TRUE, filter |-> NoAddress, logs |-> none, to |-> to,
                   watched |-> {}]
  <1>1. Off = [pc |-> "off", loaded |-> l]
    BY DEF Off
  <1> HIDE DEF to, none
  <1>2. /\ l = [events |-> l.events, filter |-> l.filter, logs |-> l.logs, to |-> l.to,
                watched |-> l.watched]
        /\ l.watched = {}
    OBVIOUS
  <1> HIDE DEF l
  <1> QED BY <1>1, <1>2 DEF LoadedFields

\* At first each record has its fields.
LEMMA FieldsInit == Init => Fields
  <1> SUFFICES ASSUME Init PROVE Fields
    OBVIOUS
  <1>1. RegFields
    BY DEF Init, RegFields
  <1>2. GuiFields
    BY DEF Init, GuiFields
  <1>3. SvcFields
    BY DEF Init, SvcFields
  <1>4. agent = Off \/ agent = [pc |-> "done", loaded |-> InRegistry]
    BY Zenon DEF Init
  <1>5. AgentFields
    <2>1. CASE agent = Off
      BY <2>1, OffOK DEF AgentFields
    <2>2. CASE agent = [pc |-> "done", loaded |-> InRegistry]
      BY <2>2 DEF AgentFields, LoadedFields, InRegistry
    <2> QED BY <1>4, <2>1, <2>2
  <1> QED BY <1>1, <1>2, <1>3, <1>5 DEF Fields

\* The user's inputs change records field by field.
LEMMA FieldsUser == ASSUME Fields, User PROVE Fields'
  <1>1. CASE AnswerNo
    BY <1>1
    DEF AnswerNo,
        Fields, RegFields, GuiFields, SvcFields, AgentFields, LoadedFields
  <1>2. CASE AnswerYes
    <2>1. \/ svc' = [svc EXCEPT !.state = "stopping"] /\ gui' = DisplayStatus("stopping")
          \/ UNCHANGED <<svc, gui>>
      BY <1>2 DEF AnswerYes
    <2>2. GuiFields' /\ SvcFields'
      BY <2>1, StatusOK DEF Fields, GuiFields, SvcFields
    <2>3. RegFields' /\ AgentFields'
      BY <1>2 DEF AnswerYes, Fields, RegFields, AgentFields, LoadedFields
    <2> QED BY <2>2, <2>3 DEF Fields
  <1>3. CASE ClickStart
    BY <1>3, SavedOK
    DEF ClickStart, OnStartService,
        Fields, RegFields, GuiFields, SvcFields, AgentFields, LoadedFields
  <1>4. CASE ClickStop
    BY <1>4, StatusOK
    DEF ClickStop,
        Fields, RegFields, GuiFields, SvcFields, AgentFields, LoadedFields
  <1>5. CASE Edit
    BY <1>5
    DEF Edit,
        Fields, RegFields, GuiFields, SvcFields, AgentFields, LoadedFields
  <1>6. CASE ForwardEvents
    BY <1>6
    DEF ForwardEvents,
        Fields, RegFields, GuiFields, SvcFields, AgentFields, LoadedFields
  <1>7. CASE ForwardApplication
    BY <1>7
    DEF ForwardApplication,
        Fields, RegFields, GuiFields, SvcFields, AgentFields, LoadedFields
  <1>8. CASE UseMirror
    BY <1>8
    DEF UseMirror,
        Fields, RegFields, GuiFields, SvcFields, AgentFields, LoadedFields
  <1>9. CASE RadioUdp
    BY <1>9
    DEF RadioUdp,
        Fields, RegFields, GuiFields, SvcFields, AgentFields, LoadedFields
  <1>10. CASE RadioUdpPing
    BY <1>10
    DEF RadioUdpPing,
        Fields, RegFields, GuiFields, SvcFields, AgentFields, LoadedFields
  <1>11. CASE MirrorOff
    BY <1>11
    DEF MirrorOff,
        Fields, RegFields, GuiFields, SvcFields, AgentFields, LoadedFields
  <1>12. CASE AddApplication
    BY <1>12
    DEF AddApplication,
        Fields, RegFields, GuiFields, SvcFields, AgentFields, LoadedFields
  <1>13. CASE RemoveApplication
    BY <1>13
    DEF RemoveApplication,
        Fields, RegFields, GuiFields, SvcFields, AgentFields, LoadedFields
  <1>14. CASE Install
    <2>1. gui' = OnInitMain(svc'.state) /\ RegFields' /\ SvcFields' /\ AgentFields'
      BY <1>14 DEF Install, Fields, RegFields, SvcFields, AgentFields, LoadedFields
    <2>2. GuiFields'
      <3>1. GuiFields
        BY DEF Fields
      <3>2. gui' = [open |-> gui'.open, shown |-> gui'.shown, known |-> gui'.known,
                    planned |-> gui'.planned, timer3 |-> gui'.timer3,
                    text |-> gui'.text, installable |-> gui'.installable,
                    list |-> gui'.list]
        BY <2>1, <3>1, MainOK
      <3> QED BY <3>2 DEF GuiFields
    <2> QED BY <2>1, <2>2 DEF Fields
  <1>15. CASE Uninstall
    <2>1. GuiFields'
      BY <1>15, StatusOK DEF Uninstall, Fields, GuiFields
    <2>2. RegFields' /\ SvcFields' /\ AgentFields'
      BY <1>15 DEF Uninstall, Deleted, Fields, RegFields, SvcFields, AgentFields, LoadedFields
    <2> QED BY <2>1, <2>2 DEF Fields
  <1>16. CASE OnCancel
    BY <1>16, SavedOK
    DEF OnCancel, Leave,
        Fields, RegFields, GuiFields, SvcFields, AgentFields, LoadedFields
  <1>17. CASE QuitAnyway
    BY <1>17, SavedOK
    DEF QuitAnyway, Leave,
        Fields, RegFields, GuiFields, SvcFields, AgentFields, LoadedFields
  <1>18. CASE StayOpen
    BY <1>18
    DEF StayOpen,
        Fields, RegFields, GuiFields, SvcFields, AgentFields, LoadedFields
  <1>19. CASE Launch
    <2>1. RegFields' /\ SvcFields' /\ AgentFields'
      BY <1>19 DEF Launch, Fields, RegFields, SvcFields, AgentFields, LoadedFields
    <2>2. GuiFields'
      BY <1>19, LaunchOK DEF Fields
    <2> QED BY <2>1, <2>2 DEF Fields
  <1>20. CASE OnEventLog
    BY <1>20
    DEF OnEventLog,
        Fields, RegFields, GuiFields, SvcFields, AgentFields, LoadedFields
  <1>21. CASE EditDialog
    BY <1>21
    DEF EditDialog,
        Fields, RegFields, GuiFields, SvcFields, AgentFields, LoadedFields
  <1>22. CASE Defaults
    BY <1>22
    DEF Defaults,
        Fields, RegFields, GuiFields, SvcFields, AgentFields, LoadedFields
  <1>23. CASE Discard
    BY <1>23
    DEF Discard, LeaveDialog,
        Fields, RegFields, GuiFields, SvcFields, AgentFields, LoadedFields
  <1>24. CASE OnOK
    BY <1>24
    DEF OnOK,
        Fields, RegFields, GuiFields, SvcFields, AgentFields, LoadedFields
  <1>25. CASE OnOKFails
    BY <1>25
    DEF OnOKFails,
        Fields, RegFields, GuiFields, SvcFields, AgentFields, LoadedFields
  <1>26. CASE StopBoxClosed
    BY <1>26
    DEF StopBoxClosed,
        Fields, RegFields, GuiFields, SvcFields, AgentFields, LoadedFields
  <1> QED BY <1>1, <1>2, <1>3, <1>4, <1>5, <1>6, <1>7, <1>8, <1>9, <1>10, <1>11, <1>12,
             <1>13, <1>14, <1>15, <1>16, <1>17, <1>18, <1>19, <1>20, <1>21, <1>22, <1>23,
             <1>24, <1>25, <1>26 DEF User

\* So does the program's thread,
LEMMA FieldsThread == ASSUME Fields, Thread PROVE Fields'
  <1>1. CASE Poll
    BY <1>1, StatusOK
    DEF Poll, QueryServiceStatus,
        Fields, RegFields, GuiFields, SvcFields, AgentFields, LoadedFields
  <1>2. CASE Restart
    BY <1>2, SavedOK
    DEF Restart, OnStartService,
        Fields, RegFields, GuiFields, SvcFields, AgentFields, LoadedFields
  <1>3. CASE CheckAgain
    BY <1>3
    DEF CheckAgain,
        Fields, RegFields, GuiFields, SvcFields, AgentFields, LoadedFields
  <1>4. CASE Close
    BY <1>4
    DEF Close,
        Fields, RegFields, GuiFields, SvcFields, AgentFields, LoadedFields
  <1> QED BY <1>1, <1>2, <1>3, <1>4 DEF Thread

\* the agent,
LEMMA FieldsAgent == ASSUME Fields, Agent PROVE Fields'
  <1>1. CASE SyslogHostInRegistryOK
    BY <1>1
    DEF SyslogHostInRegistryOK, AgentAt, Ended,
        Fields, RegFields, GuiFields, SvcFields, AgentFields, LoadedFields
  <1>2. CASE InitRegistry
    BY <1>2
    DEF InitRegistry, AgentAt,
        Fields, RegFields, GuiFields, SvcFields, AgentFields, LoadedFields
  <1>3. CASE ReadSettings
    BY <1>3
    DEF ReadSettings, Load,
        Fields, RegFields, GuiFields, SvcFields, AgentFields, LoadedFields
  <1>4. CASE NtslInit
    BY <1>4
    DEF NtslInit, NtslDie, Load,
        Fields, RegFields, GuiFields, SvcFields, AgentFields, LoadedFields
  <1>5. CASE ReportRunning
    BY <1>5
    DEF ReportRunning, AgentAt,
        Fields, RegFields, GuiFields, SvcFields, AgentFields, LoadedFields
  <1>6. CASE AppWatchMain
    BY <1>6
    DEF AppWatchMain, Load,
        Fields, RegFields, GuiFields, SvcFields, AgentFields, LoadedFields
  <1>7. CASE StartApplications
    BY <1>7
    DEF StartApplications, AgentAt,
        Fields, RegFields, GuiFields, SvcFields, AgentFields, LoadedFields
  <1>8. CASE Stopped
    BY <1>8
    DEF Stopped, Ended, Off,
        Fields, RegFields, GuiFields, SvcFields, AgentFields, LoadedFields
  <1>9. CASE NtslDie
    BY <1>9
    DEF NtslDie, AgentAt,
        Fields, RegFields, GuiFields, SvcFields, AgentFields, LoadedFields
  <1> QED BY <1>1, <1>2, <1>3, <1>4, <1>5, <1>6, <1>7, <1>8, <1>9 DEF Agent

\* and others.
LEMMA FieldsElsewhere == ASSUME Fields, Elsewhere PROVE Fields'
  <1>1. CASE OthersStart
    BY <1>1
    DEF OthersStart,
        Fields, RegFields, GuiFields, SvcFields, AgentFields, LoadedFields
  <1>2. CASE OthersStop
    BY <1>2
    DEF OthersStop,
        Fields, RegFields, GuiFields, SvcFields, AgentFields, LoadedFields
  <1>3. CASE ServiceInstall
    BY <1>3
    DEF ServiceInstall,
        Fields, RegFields, GuiFields, SvcFields, AgentFields, LoadedFields
  <1>4. CASE ServiceRemove
    BY <1>4
    DEF ServiceRemove, Deleted,
        Fields, RegFields, GuiFields, SvcFields, AgentFields, LoadedFields
  <1>5. CASE RemoveStopped
    BY <1>5
    DEF RemoveStopped, Deleted,
        Fields, RegFields, GuiFields, SvcFields, AgentFields, LoadedFields
  <1> QED BY <1>1, <1>2, <1>3, <1>4, <1>5 DEF Elsewhere

\* Every variable that is a record keeps its fields.
LEMMA FieldsStep == Fields /\ [Next]_vars => Fields'
  <1> SUFFICES ASSUME Fields, [Next]_vars PROVE Fields'
    OBVIOUS
  <1>1. CASE User
    BY <1>1, FieldsUser
  <1>2. CASE Thread
    BY <1>2, FieldsThread
  <1>3. CASE Agent
    BY <1>3, FieldsAgent
  <1>4. CASE Elsewhere
    BY <1>4, FieldsElsewhere
  <1>5. CASE OnTimer1
    BY <1>5, StatusOK
    DEF OnTimer1, QueryServiceStatus, Fields, RegFields, GuiFields, SvcFields, AgentFields,
        LoadedFields
  <1>6. CASE OnTimer2
    BY <1>6, SavedOK
    DEF OnTimer2, Fields, RegFields, GuiFields, SvcFields, AgentFields, LoadedFields
  <1>7. CASE OnTimer3
    BY <1>7 DEF OnTimer3, Fields, RegFields, GuiFields, SvcFields, AgentFields, LoadedFields
  <1>8. CASE UNCHANGED vars
    BY <1>8 DEF vars, Fields, RegFields, GuiFields, SvcFields, AgentFields, LoadedFields
  <1> QED BY <1>1, <1>2, <1>3, <1>4, <1>5, <1>6, <1>7, <1>8 DEF Next

-----------------------------------------------------------------------------
(* The stack.                                                              *)

\* Leave puts the end of the program on a stack that is empty.
LEMMA LeaveNested ==
  ASSUME Leave(<< >>)
  PROVE  Nested(stack')
  <1>1. Append(<< >>, "close") = <<"close">> /\ Nested(<<"close">>)
    BY Single DEF Frames
  <1>2. stack' = <<"close">> \/ CheckRestartService(<<"close">>)
    BY <1>1 DEF Leave
  <1> QED BY <1>1, <1>2, Asked

\* The stack stays as Nested says.
LEMMA NestedStep == Nested(stack) /\ [Next]_vars => Nested(stack')
  <1> SUFFICES ASSUME Nested(stack), [Next]_vars PROVE Nested(stack')
    OBVIOUS
  <1>1. ASSUME stack' = Front(stack), stack # << >> PROVE Nested(stack')
    BY <1>1, FrontOK
  <1>2. ASSUME NEW f \in Asking, stack' = Append(Front(stack), f), stack # << >>
        PROVE  Nested(stack')
    BY <1>2, FrontOK, AppendOK
  <1>3. ASSUME CheckRestartService(stack) PROVE Nested(stack')
    BY <1>3, Asked
  <1>4. ASSUME NEW f \in Frames, stack' = <<f>> PROVE Nested(stack')
    BY <1>4, Single
  <1>5. Top # "window" => stack # << >>
    BY DEF Top
  <1>6. CASE UNCHANGED stack
    BY <1>6
  <1>7. CASE AnswerNo \/ StayOpen \/ Discard \/ Restart
    BY <1>1, <1>5, <1>7 DEF AnswerNo, StayOpen, Discard, LeaveDialog, Restart
  <1>8. CASE AnswerYes \/ StopBoxClosed
    <2>1. PICK f \in Asking : stack' = Append(Front(stack), f)
      BY <1>8 DEF AnswerYes, StopBoxClosed, StopOrWait, Asking
    <2> QED BY <1>2, <1>5, <1>8, <2>1 DEF AnswerYes, StopBoxClosed
  <1>9. CASE Poll
    BY <1>2, <1>5, <1>9 DEF Poll, Asking
  <1>10. CASE ForwardEvents \/ ForwardApplication \/ UseMirror \/ RadioUdp
              \/ AddApplication \/ RemoveApplication \/ OnTimer3
    BY <1>3, <1>10 DEF ForwardEvents, ForwardApplication, UseMirror, RadioUdp,
                       AddApplication, RemoveApplication, OnTimer3
  <1>11. CASE RadioUdpPing
    <2>1. stack' = <<"mirror box">> \/ CheckRestartService(<<"check">>)
      BY <1>11 DEF RadioUdpPing
    <2>2. Nested(<<"check">>)
      BY Single DEF Frames
    <2> QED BY <1>4, <2>1, <2>2, Asked DEF Frames
  <1>12. CASE MirrorOff
    <2>1. Front(stack) = << >>
      <3>1. Top = "mirror box" /\ "mirror box" \notin Asking
        BY <1>12 DEF MirrorOff, Asking
      <3> QED BY <3>1, Lowest, Zenon
    <2>2. Append(Front(stack), "check") = <<"check">> /\ Nested(<<"check">>)
      BY <2>1, Single DEF Frames
    <2> QED BY <1>12, <2>2, Asked DEF MirrorOff
  <1>13. CASE CheckAgain
    BY <1>5, <1>13, FrontOK, Asked DEF CheckAgain
  <1>14. CASE OnOK
    BY <1>5, <1>14, FrontOK, Asked DEF OnOK
  <1>15. CASE OnCancel
    BY <1>4, <1>15, LeaveNested DEF OnCancel, Frames
  <1>16. CASE QuitAnyway
    <2>1. Front(stack) = << >>
      <3>1. Top = "quit box" /\ "quit box" \notin Asking
        BY <1>16 DEF QuitAnyway, Asking
      <3> QED BY <3>1, Lowest, Zenon
    <2> QED BY <1>16, <2>1, LeaveNested DEF QuitAnyway
  <1>17. CASE Close
    BY <1>17, Empty DEF Close
  <1>18. CASE OnEventLog
    BY <1>4, <1>18 DEF OnEventLog, Frames
  <1>19. CASE User
    <2>1. UNCHANGED stack \/ AnswerNo \/ StayOpen \/ Discard \/ AnswerYes \/ StopBoxClosed
          \/ ForwardEvents \/ ForwardApplication \/ UseMirror \/ RadioUdp
          \/ AddApplication \/ RemoveApplication \/ RadioUdpPing \/ MirrorOff
          \/ OnOK \/ OnCancel \/ QuitAnyway \/ OnEventLog
      BY <1>19 DEF User, ClickStart, ClickStop, Edit, Install, Uninstall, Launch, EditDialog,
                   Defaults, OnOKFails
    <2> QED BY <1>6, <1>7, <1>8, <1>10, <1>11, <1>12, <1>14, <1>15, <1>16, <1>18, <2>1
  <1>20. CASE Agent \/ Elsewhere \/ OnTimer1 \/ OnTimer2 \/ UNCHANGED vars
    BY <1>6, <1>20
    DEF Agent, SyslogHostInRegistryOK, InitRegistry, AgentAt, ReadSettings, NtslInit, NtslDie,
        Load,
        ReportRunning, AppWatchMain, StartApplications, Stopped, Elsewhere, OthersStart,
        OthersStop, ServiceInstall, ServiceRemove, RemoveStopped, OnTimer1, OnTimer2, vars
  <1> QED BY <1>7, <1>9, <1>10, <1>13, <1>17, <1>19, <1>20 DEF Next, Thread

-----------------------------------------------------------------------------
(* Reasons.                                                                *)

\* A step that leaves the settings, the agent and what is going to be asked alone.
LEMMA Undisturbed ==
  ASSUME Fresh, UNCHANGED <<reg, sections, agent, reasons>>,
         gui.timer3 => gui'.timer3, Asks(stack) => Asks(stack')
  PROVE  Fresh'
  <1>1. LoadedSame => LoadedSame'
    BY DEF LoadedSame, InRegistry
  <1>2. Asks(stack)' <=> Asks(stack')
    BY DEF Asks
  <1> QED BY <1>1, <1>2, Zenon DEF Fresh

\* A step that asks or says why not.
LEMMA AskedFresh == Asks(stack)' \/ reasons' # {} => Fresh'
  BY DEF Fresh

\* An agent that starts has nothing old yet.
LEMMA StartFresh ==
  ASSUME Fields, OnStartService
  PROVE  Fresh'
  <1>1. CASE reasons' # {}
    BY <1>1 DEF Fresh
  <1>2. CASE reasons' = {}
    <2>1. agent' = [agent EXCEPT !.pc = "host"]
      BY <1>2 DEF OnStartService
    <2>2. agent'.pc = "host"
      BY <2>1 DEF Fields, AgentFields
    <2>3. LoadedSame'
      BY <2>2 DEF LoadedSame
    <2> QED BY <2>3 DEF Fresh
  <1> QED BY <1>1, <1>2

\* Nothing asks on a stack of one box that has nothing to do with a restart.
LEMMA NotAsking ==
  ASSUME NEW st, Len(st) = 1, st[1] \notin AskingOrToAsk
  PROVE  ~Asks(st)
  <1>1. \A i \in 1..1 : i = 1
    OBVIOUS
  <1> QED BY <1>1 DEF Asks

\* Closing the program with something saved asks.
LEMMA LeaveFresh ==
  ASSUME Fields, Fresh, Leave(<< >>), UNCHANGED <<sections, agent>>, ~Asks(stack)
  PROVE  Fresh'
  <1>1. Append(<< >>, "close") = <<"close">> /\ Nested(<<"close">>)
    BY Single DEF Frames
  <1>2. CASE CheckRestartService(<<"close">>)
    BY <1>1, <1>2, Asked, AskedFresh
  <1>3. CASE ~CheckRestartService(<<"close">>)
    <2>1. /\ reg' = Saved /\ gui' = [gui EXCEPT !.known = gui.shown]
          /\ gui.shown = gui.known /\ UNCHANGED reasons
      BY <1>1, <1>3 DEF Leave
    <2>2. reg' = reg
      BY <2>1, SavedOK DEF Fields
    <2>3. gui'.timer3 = gui.timer3
      BY <2>1 DEF Fields, GuiFields
    <2> QED BY <2>1, <2>2, <2>3, Undisturbed
  <1> QED BY <1>2, <1>3

\* The user's answers and clicks that lead to a question.
LEMMA FreshAsking ==
  ASSUME Nested(stack),
         \/ AnswerYes \/ StopBoxClosed
         \/ ForwardEvents \/ ForwardApplication \/ UseMirror \/ RadioUdp \/ RadioUdpPing \/ MirrorOff \/ AddApplication \/ RemoveApplication \/ OnOK
         \/ CheckAgain \/ OnTimer3
  PROVE  Fresh'
  <1>1. ASSUME NEW below, Nested(below), CheckRestartService(below) PROVE Fresh'
    BY <1>1, Asked, AskedFresh
  <1>2. Top # "window" => stack # << >>
    BY DEF Top
  <1>3. CASE AnswerYes \/ StopBoxClosed
    <2>1. PICK f \in Asking : stack' = Append(Front(stack), f)
      BY <1>3 DEF AnswerYes, StopBoxClosed, StopOrWait, Asking
    <2>2. Nested(Front(stack))
      BY <1>2, <1>3, FrontOK DEF AnswerYes, StopBoxClosed
    <2>3. Asks(stack)'
      BY <2>1, <2>2, AppendOK DEF Asks
    <2> QED BY <2>3, AskedFresh
  <1>4. CASE ForwardEvents \/ UseMirror \/ RadioUdp \/ AddApplication
             \/ RemoveApplication \/ OnTimer3
    BY <1>1, <1>4 DEF ForwardEvents, UseMirror, RadioUdp, AddApplication,
                      RemoveApplication, OnTimer3
  <1>5. CASE ForwardApplication
    <2>1. CheckRestartService(stack) \/ reasons' = reasons \cup {"unlisted"}
      BY <1>5 DEF ForwardApplication
    <2> QED BY <1>1, <2>1, AskedFresh
  <1>6. CASE RadioUdpPing
    <2>1. stack' = <<"mirror box">> \/ CheckRestartService(<<"check">>)
      BY <1>6 DEF RadioUdpPing
    <2>2. Nested(<<"check">>)
      BY Single DEF Frames
    <2>3. ASSUME stack' = <<"mirror box">> PROVE Asks(stack)'
      <3>1. Len(stack') = 1 /\ stack'[1] = "mirror box"
        BY <2>3
      <3>2. 1 \in 1..1 /\ "mirror box" \in AskingOrToAsk
        BY DEF AskingOrToAsk
      <3> QED BY <3>1, <3>2 DEF Asks
    <2> QED BY <1>1, <2>1, <2>2, <2>3, AskedFresh
  <1>7. CASE MirrorOff
    <2>1. Front(stack) = << >>
      <3>1. Top = "mirror box" /\ "mirror box" \notin Asking
        BY <1>7 DEF MirrorOff, Asking
      <3> QED BY <3>1, Lowest, Zenon
    <2>2. Append(Front(stack), "check") = <<"check">> /\ Nested(<<"check">>)
      BY <2>1, Single DEF Frames
    <2> QED BY <1>1, <1>7, <2>2 DEF MirrorOff
  <1>8. CASE OnOK
    BY <1>1, <1>2, <1>8, FrontOK DEF OnOK
  <1>9. CASE CheckAgain
    BY <1>1, <1>2, <1>9, FrontOK DEF CheckAgain
  <1> QED BY <1>3, <1>4, <1>5, <1>6, <1>7, <1>8, <1>9

\* What the user does besides, and the program's thread.
LEMMA FreshUser ==
  ASSUME Fields, Nested(stack), Fresh, User \/ Thread
  PROVE  Fresh'
  <1>1. GuiFields /\ AgentFields
    BY DEF Fields
  <1>3. ~Asks(<< >>)
    BY Empty DEF Asks
  <1>4. CASE AnswerNo
    BY <1>4, AskedFresh DEF AnswerNo
  <1>5. CASE ClickStart \/ Restart
    BY <1>5, StartFresh DEF ClickStart, Restart
  <1>6. CASE ClickStop
    <2>1. gui'.timer3 = gui.timer3
      BY <1>1, <1>6, StatusOK DEF ClickStop
    <2> QED BY <1>6, <2>1, Undisturbed DEF ClickStop
  <1>7. CASE Edit
    <2>1. gui'.timer3 = gui.timer3
      BY <1>1, <1>7 DEF Edit, GuiFields
    <2> QED BY <1>7, <2>1, Undisturbed DEF Edit
  <1>8. CASE Install
    <2>1. gui'.timer3 = gui.timer3
      BY <1>1, <1>8, MainOK, ZenonT(30) DEF Install
    <2>2. CASE sections' = sections
      BY <1>8, <2>1, <2>2, Undisturbed DEF Install
    <2>3. CASE sections' # sections
      BY <1>8, <2>3, AskedFresh DEF Install
    <2> QED BY <2>2, <2>3
  <1>9. CASE Uninstall
    <2>1. gui'.timer3 = gui.timer3
      BY <1>1, <1>9, StatusOK DEF Uninstall
    <2> QED BY <1>9, <2>1, Undisturbed DEF Uninstall
  <1>10. CASE OnCancel
    <2>1. CASE stack' = <<"quit box">> /\ UNCHANGED <<reg, gui, reasons>>
      BY <1>3, <1>10, <2>1, Undisturbed DEF OnCancel, ClickWindow
    <2>2. CASE Leave(<< >>)
      BY <1>3, <1>10, <2>2, LeaveFresh DEF OnCancel, ClickWindow
    <2> QED BY <1>10, <2>1, <2>2 DEF OnCancel
  <1>11. CASE QuitAnyway
    <2>1. Front(stack) = << >> /\ ~Asks(stack)
      <3>1. Top = "quit box" /\ "quit box" \notin Asking /\ "quit box" \notin AskingOrToAsk
        BY <1>11 DEF QuitAnyway, Asking, AskingOrToAsk
      <3>2. Front(stack) = << >> /\ Len(stack) = 1 /\ stack[1] = "quit box"
        BY <3>1, Lowest, Zenon
      <3> QED BY <3>1, <3>2, NotAsking
    <2> QED BY <1>11, <2>1, LeaveFresh DEF QuitAnyway
  <1>12. CASE StayOpen \/ Discard
    <2>1. ~Asks(stack)
      <3>1. PICK f \in {"quit box", "log"} : Top = f
        BY <1>12 DEF StayOpen, Discard
      <3>2. f \notin Asking /\ f # "window" /\ f \notin AskingOrToAsk
        BY DEF Asking, AskingOrToAsk
      <3>3. Len(stack) = 1 /\ stack[1] = f
        BY <3>1, <3>2, Lowest, Zenon
      <3> QED BY <3>2, <3>3, NotAsking
    <2> QED BY <1>12, <2>1, Undisturbed DEF StayOpen, Discard
  <1>13. CASE Launch
    <2>1. gui'.timer3 = gui.timer3
      BY <1>1, <1>13, LaunchOK
    <2> QED BY <1>13, <2>1, Undisturbed DEF Launch
  <1>14. CASE OnEventLog
    BY <1>3, <1>14, Undisturbed DEF OnEventLog, ClickWindow
  <1>15. CASE EditDialog \/ Defaults
    BY <1>15, Undisturbed DEF EditDialog, Defaults
  <1>16. CASE OnOKFails
    BY <1>16, AskedFresh DEF OnOKFails
  <1>17. CASE Poll
    <2>1. gui'.timer3 = gui.timer3
      BY <1>1, <1>17, StatusOK DEF Poll, QueryServiceStatus
    <2>2. CASE stack' = stack
      BY <1>17, <2>1, <2>2, Undisturbed DEF Poll
    <2>3. CASE stack' = Append(Front(stack), "start")
      <3>1. Nested(Front(stack))
        BY <1>17, FrontOK DEF Poll, Top
      <3>2. Asks(stack)'
        BY <2>3, <3>1, AppendOK DEF Asks, Asking
      <3> QED BY <3>2, AskedFresh
    <2> QED BY <1>17, <2>2, <2>3 DEF Poll
  <1>18. CASE Close
    <2>1. CASE gui.timer3
      BY <1>18, <2>1, AskedFresh DEF Close
    <2>2. CASE ~gui.timer3
      <3>1. Top = "close" /\ "close" \notin Asking /\ "close" \notin AskingOrToAsk
        BY <1>18 DEF Close, Asking, AskingOrToAsk
      <3>2. Len(stack) = 1 /\ stack[1] = "close"
        BY <3>1, Lowest, Zenon
      <3>3. ~Asks(stack)
        BY <3>1, <3>2, NotAsking
      <3> QED BY <1>18, <2>2, <3>3, Undisturbed DEF Close
    <2> QED BY <2>1, <2>2
  <1> QED BY <1>4, <1>5, <1>6, <1>7, <1>8, <1>9, <1>10, <1>11, <1>12, <1>13, <1>14,
             <1>15, <1>16, <1>17, <1>18, FreshAsking DEF User, Thread

\* The agent reads, and others start and stop the service.
LEMMA FreshElsewhere ==
  ASSUME Fields, Fresh, Agent \/ Elsewhere
  PROVE  Fresh'
  <1>1. AgentFields /\ RegFields
    BY DEF Fields
  <1>2. ASSUME UNCHANGED <<gui, stack, reasons>>, LoadedSame => LoadedSame' PROVE Fresh'
    BY <1>2, Zenon DEF Fresh, Asks
  <1>3. CASE \/ SyslogHostInRegistryOK \/ InitRegistry \/ NtslDie \/ Stopped
             \/ OthersStart
    <2>1. agent'.pc \in {"off", "init", "settings", "host", "dying"}
      BY <1>1, <1>3, OffOK DEF SyslogHostInRegistryOK, InitRegistry, NtslDie, Stopped,
                        OthersStart, AgentAt, AgentFields
    <2>2. LoadedSame'
      BY <2>1 DEF LoadedSame
    <2> QED BY <2>2 DEF Fresh
  <1>4. CASE ReadSettings
    <2>1. LoadedSame'
      BY <1>1, <1>4 DEF ReadSettings, Load, LoadedSame, AgentFields, LoadedFields, InRegistry
    <2> QED BY <2>1 DEF Fresh
  <1>5. CASE NtslInit
    <2>1. LoadedSame => LoadedSame'
      BY <1>1, <1>5, ZenonT(30) DEF NtslInit, NtslDie, Load, LoadedSame, AgentFields, LoadedFields,
                        InRegistry
    <2> QED BY <1>2, <1>5, <2>1 DEF NtslInit, Load
  <1>6. CASE ReportRunning
    <2>1. LoadedSame => LoadedSame'
      BY <1>1, <1>6 DEF ReportRunning, AgentAt, LoadedSame, AgentFields, InRegistry
    <2> QED BY <1>2, <1>6, <2>1 DEF ReportRunning, AgentAt
  <1>7. CASE AppWatchMain
    <2>1. LoadedSame => LoadedSame'
      BY <1>1, <1>7, ZenonT(30) DEF AppWatchMain, Load, LoadedSame, AgentFields, LoadedFields, InRegistry
    <2> QED BY <1>2, <1>7, <2>1 DEF AppWatchMain, Load
  <1>8. CASE StartApplications
    <2>1. LoadedSame => LoadedSame'
      BY <1>1, <1>8 DEF StartApplications, AgentAt, LoadedSame, AgentFields, RegFields,
                        InRegistry
    <2> QED BY <1>2, <1>8, <2>1 DEF StartApplications, AgentAt
  <1>9. CASE OthersStop \/ ServiceRemove \/ RemoveStopped
    BY <1>9, Undisturbed DEF OthersStop, ServiceRemove, RemoveStopped
  <1>10. CASE ServiceInstall
    BY <1>10, AskedFresh DEF ServiceInstall
  <1> QED BY <1>3, <1>4, <1>5, <1>6, <1>7, <1>8, <1>9, <1>10 DEF Agent, Elsewhere

\* The timers.
LEMMA FreshTimers ==
  ASSUME Fields, Nested(stack), Fresh, OnTimer1 \/ OnTimer2 \/ OnTimer3
  PROVE  Fresh'
  <1>1. GuiFields
    BY DEF Fields
  <1>2. CASE OnTimer1
    <2>1. gui'.timer3 = gui.timer3
      BY <1>1, <1>2, StatusOK DEF OnTimer1, QueryServiceStatus
    <2> QED BY <1>2, <2>1, Undisturbed DEF OnTimer1
  <1>3. CASE OnTimer2
    <2>1. gui'.timer3 = TRUE
      BY <1>1, <1>3 DEF OnTimer2, GuiFields
    <2> QED BY <2>1 DEF Fresh
  <1> QED BY <1>2, <1>3, FreshAsking

\* What every reachable state satisfies: an agent with old settings is going to be asked
\* about, or has a reason.
Inv == Fields /\ Nested(stack) /\ Fresh

\* The invariant holds at first ...
LEMMA InvInit == Init => Inv
  <1> SUFFICES ASSUME Init PROVE Inv
    OBVIOUS
  <1>1. Fields
    BY FieldsInit
  <1>2. Nested(stack)
    BY Empty DEF Init
  <1>3. agent.pc = "off" \/ agent.loaded = InRegistry
    <2>1. agent = Off \/ agent = [pc |-> "done", loaded |-> InRegistry]
      BY Zenon DEF Init
    <2> QED BY <2>1, OffOK
  <1>4. LoadedSame
    <2>1. CASE agent.pc = "off"
      BY <2>1 DEF LoadedSame
    <2>2. CASE agent.loaded = InRegistry
      BY <2>2 DEF LoadedSame, InRegistry
    <2> QED BY <1>3, <2>1, <2>2
  <1> QED BY <1>1, <1>2, <1>4 DEF Inv, Fresh

\* ... and after each step.
LEMMA InvStep == Inv /\ [Next]_vars => Inv'
  <1> SUFFICES ASSUME Inv, [Next]_vars PROVE Inv'
    OBVIOUS
  <1>1. Fields /\ Nested(stack) /\ Fresh
    BY DEF Inv
  <1>2. Fields'
    BY <1>1, FieldsStep
  <1>3. Nested(stack)'
    BY <1>1, NestedStep DEF Nested
  <1>4. Fresh'
    <2>1. CASE UNCHANGED vars
      BY <1>1, <2>1, Undisturbed DEF vars
    <2> QED BY <1>1, <2>1, FreshUser, FreshElsewhere, FreshTimers DEF Next
  <1> QED BY <1>2, <1>3, <1>4 DEF Inv

\* If the agent runs with other settings than those in the registry and nothing is under
\* way, there is a reason: CNTSyslogCtrlDlg asks about everything else it writes. For any
\* number of inputs, in any order, whoever starts and stops the service.
THEOREM OldSettingsExplained == Spec => []StaleExplained
  <1>1. Inv => StaleExplained
    <2> SUFFICES ASSUME Inv, agent.pc = "done", stack = << >>, ~gui.timer3, reasons = {}
                 PROVE  agent.loaded = InRegistry
      BY DEF StaleExplained
    <2>1. ~Asks(stack)
      BY Empty DEF Asks
    <2>2. LoadedSame
      BY <2>1, Zenon DEF Inv, Fresh
    <2>3. LoadedFields(agent.loaded)
      BY DEF Inv, Fields, AgentFields
    <2>4. /\ agent.loaded.events = InRegistry.events
          /\ agent.loaded.filter = InRegistry.filter
          /\ agent.loaded.logs = InRegistry.logs
          /\ agent.loaded.to = InRegistry.to
          /\ agent.loaded.watched = InRegistry.watched
      BY <2>2 DEF LoadedSame, InRegistry
    <2>5. LoadedFields(InRegistry)
      BY DEF LoadedFields, InRegistry
    <2> QED BY <2>3, <2>4, <2>5 DEF LoadedFields
  <1> QED BY <1>1, InvInit, InvStep, PTL DEF Spec

-----------------------------------------------------------------------------
(* The keys of the event logs and their two readers.                       *)

\* What a key may hold, and what the dialog may show of it.
Values == {v \in [Entries -> None..191] : \A e \in Entries : e[2] = "flag" => v[e] \in {None, 0, 1}}

Shown == {v \in [Entries -> 0..191] : \A e \in Entries : e[2] = "flag" => v[e] \in {0, 1}}

RightKeys == {key \in Keys : key.values \in Values}

KeysOK == sections \in [Logs -> RightKeys]

\* The defaults are a facility and a severity.
LEMMA DefaultsOK ==
  ASSUME NEW l
  PROVE  OnDefaults(l) \in Shown
  <1>1. Facility(l) \in {23, 4, 3}
    BY DEF Facility
  <1>2. \A t \in Types : Severity[t] \in {4, 3, 5, 6}
    BY DEF Severity
  <1>3. \A e \in Entries : Facility(l) * 8 + Severity[e[1]] \in 0..191
    <2> TAKE e \in Entries
    <2>1. e[1] \in Types
      BY DEF Entries
    <2>2. PICK n \in {4, 3, 5, 6} : n = Severity[e[1]]
      BY <1>2, <2>1
    <2>3. PICK m \in {23, 4, 3} : m = Facility(l)
      BY <1>1
    <2>4. m * 8 + n \in 0..191
      OBVIOUS
    <2> QED BY <2>2, <2>3, <2>4
  <1>4. \A e \in Entries : OnDefaults(l)[e] \in 0..191
    BY <1>3 DEF OnDefaults
  <1>5. OnDefaults(l) = [e \in Entries |-> OnDefaults(l)[e]]
    BY DEF OnDefaults
  <1>6. OnDefaults(l) \in [Entries -> 0..191]
    BY <1>4, <1>5
  <1>7. \A e \in Entries : e[2] = "flag" => OnDefaults(l)[e] \in {0, 1}
    BY DEF OnDefaults
  <1> QED BY <1>6, <1>7 DEF Shown

\* What is written into a key is what may be there.
LEMMA WrittenOK ==
  ASSUME NEW key \in RightKeys, NEW v \in Shown, NEW S
  PROVE  Written(key, v, S) \in RightKeys
  <1> DEFINE w == [e \in Entries |-> IF e \in S THEN v[e] ELSE key.values[e]]
  <1>1. Written(key, v, S) = [key |-> TRUE, values |-> w]
    BY DEF Written
  <1>2. key.values \in [Entries -> None..191] /\ v \in [Entries -> 0..191]
    BY DEF RightKeys, Values, Shown
  <1>3. \A e \in Entries : w[e] = v[e] \/ w[e] = key.values[e]
    OBVIOUS
  <1>4. \A e \in Entries : v[e] \in None..191 /\ key.values[e] \in None..191
    BY <1>2 DEF None
  <1>5. w \in [Entries -> None..191]
    BY <1>3, <1>4
  <1>6. \A e \in Entries : e[2] = "flag" => w[e] \in {None, 0, 1}
    BY <1>3 DEF RightKeys, Values, Shown
  <1>7. w \in Values
    BY <1>5, <1>6 DEF Values
  <1> QED BY <1>1, <1>5, <1>7 DEF RightKeys, Keys

\* A key that does not exist is read alike.
LEMMA NoKeyOK == NoKey \in RightKeys
  <1>1. [e \in Entries |-> None] \in Values
    BY DEF Values, None
  <1> QED BY <1>1 DEF NoKey, RightKeys, Keys, Values

\* What initRegistry leaves is what may be there.
LEMMA RegistryOK ==
  ASSUME NEW keys \in [Logs -> RightKeys], NEW f, NEW new \in initRegistry(keys, f)
  PROVE  new \in [Logs -> RightKeys]
  <1>1. new = [l \in Logs |-> new[l]]
    BY DEF initRegistry
  <1>2. \A l \in Logs : new[l] = keys[l] \/ new[l] \in initEventLogTypeEntry(l, f)
    BY DEF initRegistry
  <1>3. ASSUME NEW l \in Logs, NEW k \in initEventLogTypeEntry(l, f)
        PROVE  k \in RightKeys
    <2>1. k = NoKey \/ \E S : k = Written(NoKey, OnDefaults(l), S)
      BY <1>3 DEF initEventLogTypeEntry
    <2> QED BY <2>1, NoKeyOK, DefaultsOK, WrittenOK
  <1> QED BY <1>1, <1>2, <1>3

\* What the dialog shows of a key can be written back.
LEMMA ShownOK ==
  ASSUME NEW key \in RightKeys
  PROVE  OnInitDialog(key) \in Shown
  <1> DEFINE v == OnInitDialog(key)
  <1>1. key.values \in [Entries -> None..191]
    BY DEF RightKeys, Values
  <1>2. \A e \in Entries : e[2] # "priority" => v[e] \in {0, 1}
    BY DEF OnInitDialog
  <1>3. \A e \in Entries : e[2] = "priority" =>
          v[e] \in {30, Default} \/ (v[e] = key.values[e] /\ key.values[e] # None)
    BY DEF OnInitDialog
  <1>4. \A e \in Entries : v[e] \in 0..191
    BY <1>1, <1>2, <1>3 DEF None, Default
  <1>5. v = [e \in Entries |-> v[e]]
    BY DEF OnInitDialog
  <1> HIDE DEF v
  <1>6. v \in [Entries -> 0..191]
    BY <1>4, <1>5
  <1>7. \A e \in Entries : e[2] = "flag" => v[e] \in {0, 1}
    BY <1>2
  <1> QED BY <1>6, <1>7 DEF Shown, v

\* The two readers agree about every such key.
LEMMA SameReading ==
  ASSUME NEW key \in RightKeys, key.key, NEW e \in Entries
  PROVE  \/ OnInitDialog(key)[e] = eventlog_read_reg(key)[e]
         \/ e = <<"Success", "priority">> /\ key.values[e] = None
         \/ e[2] = "priority" /\ key.values[e] = 0
  <1>1. key.values[e] \in None..191
    BY DEF RightKeys, Values
  <1>2. e[2] \in {"flag", "priority"} /\ e = <<e[1], e[2]>>
    BY DEF Entries
  <1>3. CASE e[2] = "flag"
    <2>1. key.values[e] \in {None, 0, 1}
      BY <1>3 DEF RightKeys, Values
    <2>2. OnInitDialog(key)[e] =
            IF (e[1] = "Success" /\ key.values[e] = None) \/ key.values[e] = 1 THEN 1 ELSE 0
      BY <1>3 DEF OnInitDialog
    <2>3. eventlog_read_reg(key)[e] =
            IF \/ e[1] = "Success" /\ key.values[e] = None
               \/ key.values[e] \notin {None, 0} THEN 1 ELSE 0
      BY <1>3 DEF eventlog_read_reg
    <2> QED BY <2>1, <2>2, <2>3 DEF None
  <1>4. CASE e[2] = "priority"
    <2>1. CASE e[1] = "Success" /\ key.values[e] = None
      BY <1>2, <1>4, <2>1
    <2>2. CASE ~(e[1] = "Success" /\ key.values[e] = None)
      <3>1. OnInitDialog(key)[e] =
              IF key.values[e] = None THEN Default ELSE key.values[e]
        BY <1>4, <2>2 DEF OnInitDialog
      <3>2. eventlog_read_reg(key)[e] =
              IF key.values[e] > 0 THEN key.values[e] ELSE Default
        BY <1>4, <2>2 DEF eventlog_read_reg
      <3> QED BY <1>1, <1>4, <3>1, <3>2 DEF None, Default
    <2> QED BY <2>1, <2>2
  <1> QED BY <1>2, <1>3, <1>4

-----------------------------------------------------------------------------
(* The dialog of an event log.                                             *)

LogShown(st) == st # << >> /\ st[1] = "log"

\* The dialog has its data while it is open, and they can be written.
DialogOK ==
  /\ dialog # << >> <=> LogShown(stack)
  /\ dialog = << >> \/
     \E d : /\ dialog = <<d>> /\ d.log \in Logs /\ d.current \in Shown
            /\ d = [log |-> d.log, initial |-> d.initial, current |-> d.current]

\* The lowest frame stays when something is put on top of it,
LEMMA AppendBottom ==
  ASSUME NEW st, Nested(st), NEW f \in Asking
  PROVE  LogShown(Append(st, f)) <=> LogShown(st)
  <1>1. st \in Seq(Frames)
    BY DEF Nested
  <1>2. f \in Frames /\ f # "log"
    BY DEF Asking, Frames
  <1>3. CASE st = << >>
    <2>1. Append(st, f) = <<f>>
      BY <1>2, <1>3, Single
    <2> QED BY <1>2, <1>3, <2>1 DEF LogShown
  <1>4. CASE st # << >>
    <2>1. PICK n \in Nat : n = Len(st) /\ n > 0
      BY <1>1, <1>4
    <2>2. Append(st, f)[1] = st[1]
      BY <2>1, AppendOK
    <2>3. Append(st, f) # << >>
      BY <1>1, <1>2
    <2> QED BY <1>4, <2>2, <2>3 DEF LogShown
  <1> QED BY <1>3, <1>4

\* and when it is taken off, if that was not the dialog.
LEMMA FrontBottom ==
  ASSUME Nested(stack), Top # "window", Top # "log"
  PROVE  LogShown(Front(stack)) <=> LogShown(stack)
  <1>1. stack # << >> /\ Top = stack[Len(stack)]
    BY DEF Top, Last
  <1>2. PICK n \in Nat : n = Len(stack) /\ n > 0
    BY <1>1 DEF Nested
  <1>3. Len(Front(stack)) = n - 1
    BY <1>1, <1>2, FrontOK
  <1>4. CASE n = 1
    <2>1. Front(stack) = << >>
      BY <1>2, <1>4, SubSeqEmpty DEF Front
    <2> QED BY <1>1, <1>2, <1>4, <2>1 DEF LogShown
  <1>5. CASE n > 1
    <2>1. Front(stack)[1] = stack[1]
      BY <1>1, <1>2, <1>5, FrontOK
    <2>2. Front(stack) # << >>
      BY <1>3, <1>5, Empty
    <2> QED BY <1>1, <2>1, <2>2 DEF LogShown
  <1> QED BY <1>2, <1>4, <1>5

\* A question is asked on top of the dialog if it is there.
LEMMA AskedBottom ==
  ASSUME NEW below, Nested(below), CheckRestartService(below)
  PROVE  LogShown(stack') <=> LogShown(below)
  <1>1. "question" \in Asking
    BY DEF Asking
  <1>2. LogShown(Append(below, "question")) <=> LogShown(below)
    BY <1>1, AppendBottom
  <1>3. stack' = below \/ stack' = Append(below, "question")
    BY Asked
  <1> QED BY <1>2, <1>3

\* Only the actions of the dialog put it there or take it away.
LEMMA BottomStep ==
  ASSUME Nested(stack), [Next]_vars
  PROVE  \/ UNCHANGED dialog /\ (LogShown(stack') <=> LogShown(stack))
         \/ OnEventLog \/ EditDialog \/ Defaults \/ Discard \/ OnOK
  <1> DEFINE Same == UNCHANGED dialog /\ (LogShown(stack') <=> LogShown(stack))
  <1>1. CASE UNCHANGED <<stack, dialog>>
    BY <1>1
  <1>2. Top # "window" => stack # << >>
    BY DEF Top
  <1>3. ASSUME Top # "window" PROVE Nested(Front(stack))
    BY <1>2, <1>3, FrontOK
  <1>4. ASSUME stack = << >>, stack' # << >>, stack'[1] # "log", UNCHANGED dialog PROVE Same
    BY <1>4 DEF LogShown
  <1>5. CASE AnswerNo \/ StayOpen \/ Restart
    <2>1. Top # "window" /\ Top # "log" /\ UNCHANGED dialog /\ stack' = Front(stack)
      BY <1>5 DEF AnswerNo, StayOpen, Restart, OnStartService
    <2> QED BY <2>1, FrontBottom
  <1>6. CASE AnswerYes \/ StopBoxClosed \/ Poll
    <2>1. /\ Top # "window" /\ Top # "log" /\ UNCHANGED dialog
          /\ stack' = stack \/ \E f \in Asking : stack' = Append(Front(stack), f)
      BY <1>6 DEF AnswerYes, StopBoxClosed, StopOrWait, Poll, Asking
    <2> QED BY <1>3, <2>1, FrontBottom, AppendBottom
  <1>7. CASE ForwardEvents \/ ForwardApplication \/ UseMirror \/ RadioUdp
             \/ AddApplication \/ RemoveApplication \/ OnTimer3
    <2>1. UNCHANGED dialog /\ (stack' = stack \/ CheckRestartService(stack))
      BY <1>7 DEF ForwardEvents, ForwardApplication, UseMirror, RadioUdp, AddApplication,
                  RemoveApplication, OnTimer3
    <2> QED BY <2>1, AskedBottom
  <1>8. CASE RadioUdpPing
    <2>1. /\ stack = << >> /\ UNCHANGED dialog
          /\ stack' = <<"mirror box">> \/ CheckRestartService(<<"check">>)
      BY <1>8 DEF RadioUdpPing, ClickWindow
    <2>2. Nested(<<"check">>) /\ ~LogShown(<<"check">>)
      BY Single DEF Frames, LogShown
    <2>3. ~LogShown(<<"mirror box">>) /\ ~LogShown(stack)
      BY <2>1 DEF LogShown
    <2>4. CASE CheckRestartService(<<"check">>)
      BY <2>1, <2>2, <2>3, <2>4, AskedBottom
    <2> QED BY <2>1, <2>3, <2>4
  <1>9. CASE MirrorOff
    <2>1. Top = "mirror box" /\ "mirror box" \notin Asking
      BY <1>9 DEF MirrorOff, Asking
    <2>2. Front(stack) = << >> /\ stack[1] = "mirror box"
      BY <2>1, Lowest, Zenon
    <2>3. Append(Front(stack), "check") = <<"check">> /\ Nested(<<"check">>)
      BY <2>2, Single DEF Frames
    <2>4. ~LogShown(<<"check">>)
      BY DEF LogShown
    <2> QED BY <1>9, <2>2, <2>3, <2>4, AskedBottom DEF MirrorOff, LogShown
  <1>10. CASE CheckAgain
    <2>1. Top = "check" /\ UNCHANGED dialog /\ CheckRestartService(Front(stack))
      BY <1>10 DEF CheckAgain
    <2>2. LogShown(stack') <=> LogShown(Front(stack))
      BY <1>3, <2>1, AskedBottom
    <2> QED BY <2>1, <2>2, FrontBottom
  <1>11. ASSUME Leave(<< >>) PROVE ~LogShown(stack')
    <2>1. Append(<< >>, "close") = <<"close">> /\ Nested(<<"close">>)
      BY Single DEF Frames
    <2>2. stack' = <<"close">> \/ CheckRestartService(<<"close">>)
      BY <1>11, <2>1 DEF Leave
    <2>3. ~LogShown(<<"close">>)
      BY DEF LogShown
    <2> QED BY <2>1, <2>2, <2>3, AskedBottom
  <1>12. CASE OnCancel
    <2>1. /\ stack = << >> /\ UNCHANGED dialog
          /\ stack' = <<"quit box">> \/ Leave(<< >>)
      BY <1>12 DEF OnCancel, ClickWindow
    <2>2. ~LogShown(<<"quit box">>) /\ ~LogShown(stack)
      BY <2>1 DEF LogShown
    <2> QED BY <1>11, <2>1, <2>2
  <1>13. CASE QuitAnyway
    <2>1. Top = "quit box" /\ "quit box" \notin Asking
      BY <1>13 DEF QuitAnyway, Asking
    <2>2. Front(stack) = << >> /\ stack[1] = "quit box"
      BY <2>1, Lowest, Zenon
    <2> QED BY <1>11, <1>13, <2>2 DEF QuitAnyway, LogShown
  <1>14. CASE Close
    <2>1. Top = "close" /\ "close" \notin Asking
      BY <1>14 DEF Close, Asking
    <2>2. stack[1] = "close"
      BY <2>1, Lowest, Zenon
    <2> QED BY <1>14, <2>2 DEF Close, LogShown
  <1>15. CASE User
    <2>1. \/ UNCHANGED <<stack, dialog>>
          \/ AnswerNo \/ StayOpen \/ AnswerYes \/ StopBoxClosed
          \/ ForwardEvents \/ ForwardApplication
          \/ UseMirror \/ RadioUdp \/ AddApplication \/ RemoveApplication \/ RadioUdpPing
          \/ MirrorOff \/ OnCancel \/ QuitAnyway
          \/ OnEventLog \/ EditDialog \/ Defaults \/ Discard \/ OnOK
      BY <1>15 DEF User, ClickStart, OnStartService, ClickStop, Edit, Install, Uninstall,
                   Launch, OnOKFails
    <2> QED BY <1>1, <1>5, <1>6, <1>7, <1>8, <1>9, <1>12, <1>13, <2>1
  <1>16. CASE Agent \/ Elsewhere \/ OnTimer1 \/ OnTimer2 \/ UNCHANGED vars
    BY <1>1, <1>16
    DEF Agent, SyslogHostInRegistryOK, InitRegistry, AgentAt, ReadSettings, NtslInit, NtslDie,
        Load,
        ReportRunning, AppWatchMain, StartApplications, Stopped, Elsewhere, OthersStart,
        OthersStop, ServiceInstall, ServiceRemove, RemoveStopped, OnTimer1, OnTimer2, vars
  <1> QED BY <1>5, <1>6, <1>7, <1>10, <1>14, <1>15, <1>16 DEF Next, Thread

\* The dialog and what it shows belong together in every step.
LEMMA DialogStep ==
  ASSUME Nested(stack), DialogOK, KeysOK, [Next]_vars
  PROVE  DialogOK'
  <1>1. CASE UNCHANGED dialog /\ (LogShown(stack') <=> LogShown(stack))
    BY <1>1, Zenon DEF DialogOK, LogShown
  <1>2. ASSUME Top = "log"
        PROVE  /\ LogShown(stack) /\ Front(stack) = << >>
               /\ \E d : /\ dialog = <<d>> /\ d.log \in Logs /\ d.current \in Shown
                       /\ d = [log |-> d.log, initial |-> d.initial, current |-> d.current]
    <2>1. "log" \notin Asking
      BY DEF Asking
    <2>2. stack # << >> /\ stack[1] = "log" /\ Front(stack) = << >>
      BY <1>2, <2>1, Lowest, Zenon
    <2> QED BY <2>2 DEF LogShown, DialogOK
  <1>3. CASE OnEventLog
    <2>1. PICK l \in Logs :
            dialog' = <<[log |-> l, initial |-> OnInitDialog(sections[l]),
                         current |-> OnInitDialog(sections[l])]>>
      BY <1>3 DEF OnEventLog
    <2>2. OnInitDialog(sections[l]) \in Shown
      BY ShownOK DEF KeysOK
    <2>3. stack' = <<"log">> /\ dialog' # << >>
      BY <1>3, <2>1 DEF OnEventLog
    <2> DEFINE d == [log |-> l, initial |-> OnInitDialog(sections[l]),
                     current |-> OnInitDialog(sections[l])]
    <2>4. /\ dialog' = <<d>> /\ d.log \in Logs /\ d.current \in Shown
          /\ d = [log |-> d.log, initial |-> d.initial, current |-> d.current]
      BY <2>1, <2>2
    <2> QED BY <2>3, <2>4 DEF DialogOK, LogShown
  <1>4. CASE EditDialog
    <2>1. PICK d : /\ dialog = <<d>> /\ d.log \in Logs /\ d.current \in Shown
                   /\ d = [log |-> d.log, initial |-> d.initial, current |-> d.current]
      BY <1>2, <1>4 DEF EditDialog
    <2>2. PICK e \in Entries :
            \E v \in (IF e[2] = "flag" THEN {0, 1} ELSE Priorities) \ {dialog[1].current[e]} :
              dialog' = [dialog EXCEPT ![1].current[e] = v]
      BY <1>4 DEF EditDialog
    <2>3. PICK v \in (IF e[2] = "flag" THEN {0, 1} ELSE Priorities) :
            dialog' = [dialog EXCEPT ![1].current[e] = v]
      BY <2>2
    <2> DEFINE new == [d.current EXCEPT ![e] = v]
               c == [log |-> d.log, initial |-> d.initial, current |-> new]
    <2>4. v \in 0..191 /\ (e[2] = "flag" => v \in {0, 1})
      BY <2>3, ConfigurationAssumption
    <2>5. new \in Shown
      BY <2>1, <2>4 DEF Shown
    <2>6. dialog' = <<c>>
      BY <2>1, <2>3
    <2>7. /\ c.log \in Logs /\ c.current \in Shown
          /\ c = [log |-> c.log, initial |-> c.initial, current |-> c.current]
      BY <2>1, <2>5
    <2>8. LogShown(stack') /\ dialog' # << >>
      BY <1>2, <1>4, <2>6 DEF EditDialog
    <2> QED BY <2>6, <2>7, <2>8 DEF DialogOK, LogShown
  <1>5. CASE Defaults
    <2>1. PICK d : /\ dialog = <<d>> /\ d.log \in Logs /\ d.current \in Shown
                   /\ d = [log |-> d.log, initial |-> d.initial, current |-> d.current]
      BY <1>2, <1>5 DEF Defaults
    <2> DEFINE new == OnDefaults(dialog[1].log)
               c == [log |-> d.log, initial |-> d.initial, current |-> new]
    <2>2. new \in Shown
      BY DefaultsOK
    <2>3. dialog' = <<c>>
      BY <1>5, <2>1 DEF Defaults
    <2>4. /\ c.log \in Logs /\ c.current \in Shown
          /\ c = [log |-> c.log, initial |-> c.initial, current |-> c.current]
      BY <2>1, <2>2
    <2>5. LogShown(stack')
      BY <1>2, <1>5 DEF Defaults
    <2>6. dialog' # << >>
      <3> HIDE DEF c
      <3> QED BY <2>3
    <2> QED BY <2>3, <2>4, <2>5, <2>6 DEF DialogOK, LogShown
  <1>6. CASE Discard
    <2>1. dialog' = << >> /\ stack' = << >>
      BY <1>2, <1>6 DEF Discard, LeaveDialog
    <2> QED BY <2>1 DEF DialogOK, LogShown
  <1>7. CASE OnOK
    <2>1. dialog' = << >> /\ CheckRestartService(<< >>)
      BY <1>2, <1>7 DEF OnOK
    <2>2. ~LogShown(stack')
      BY <2>1, Empty, AskedBottom DEF LogShown
    <2> QED BY <2>1, <2>2 DEF DialogOK, LogShown
  <1> QED BY <1>1, <1>3, <1>4, <1>5, <1>6, <1>7, BottomStep

\* The keys of the logs hold what may be there after every step.
LEMMA KeysStep ==
  ASSUME Nested(stack), DialogOK, KeysOK, [Next]_vars
  PROVE  KeysOK'
  <1>1. CASE UNCHANGED sections
    BY <1>1 DEF KeysOK
  <1>2. CASE Install \/ InitRegistry \/ ServiceInstall
    <2>1. sections' \in initRegistry(sections, KeysFail)
      BY <1>2 DEF Install, InitRegistry, ServiceInstall
    <2> QED BY <2>1, RegistryOK DEF KeysOK
  <1>3. ASSUME Top = "log", NEW S,
               sections' = [sections EXCEPT ![dialog[1].log] =
                              Written(sections[dialog[1].log], dialog[1].current, S)]
        PROVE  KeysOK'
    <2>1. "log" \notin Asking
      BY DEF Asking
    <2>2. stack # << >> /\ stack[1] = "log"
      BY <1>3, <2>1, Lowest, Zenon
    <2>3. PICK d : dialog = <<d>> /\ d.log \in Logs /\ d.current \in Shown
      BY <2>2 DEF DialogOK, LogShown
    <2> DEFINE k == d.log
               w == Written(sections[k], d.current, S)
    <2>4. sections' = [sections EXCEPT ![k] = w]
      BY <1>3, <2>3
    <2>5. w \in RightKeys
      BY <2>3, WrittenOK DEF KeysOK
    <2> HIDE DEF w
    <2> QED BY <2>4, <2>5 DEF KeysOK
  <1>4. CASE OnOK
    BY <1>3, <1>4 DEF OnOK
  <1>5. CASE OnOKFails
    BY <1>3, <1>5 DEF OnOKFails
  <1>6. CASE User
    <2>1. UNCHANGED sections \/ Install \/ OnOK \/ OnOKFails
      BY <1>6 DEF User, AnswerNo, AnswerYes, StopBoxClosed, ClickStart, OnStartService,
                  ClickStop, Edit,
                  ForwardEvents, ForwardApplication, UseMirror, RadioUdp, RadioUdpPing,
                  MirrorOff, AddApplication, RemoveApplication, Uninstall, OnCancel,
                  QuitAnyway, StayOpen, Launch, OnEventLog, EditDialog, Defaults, Discard
    <2> QED BY <1>1, <1>2, <1>4, <1>5, <2>1
  <1>7. CASE Thread \/ Agent \/ Elsewhere \/ OnTimer1 \/ OnTimer2 \/ OnTimer3
             \/ UNCHANGED vars
    <2>1. UNCHANGED sections \/ InitRegistry \/ ServiceInstall
      BY <1>7
      DEF Thread, Poll, Restart, OnStartService, CheckAgain, Close, Agent,
          SyslogHostInRegistryOK, AgentAt, ReadSettings, NtslInit, NtslDie, Load, ReportRunning,
          AppWatchMain, StartApplications, Stopped, Elsewhere, OthersStart, OthersStop,
          ServiceRemove, RemoveStopped, OnTimer1, OnTimer2, OnTimer3, vars
    <2> QED BY <1>1, <1>2, <2>1
  <1> QED BY <1>6, <1>7 DEF Next

\* No writer has left anything at first, and no dialog is open.
LEMMA KeysInit == Init => KeysOK /\ DialogOK
  <1> SUFFICES ASSUME Init PROVE KeysOK /\ DialogOK
    OBVIOUS
  <1>1. DialogOK
    BY DEF Init, DialogOK, LogShown
  <1>2. [l \in Logs |-> NoKey] \in [Logs -> RightKeys]
    BY NoKeyOK
  <1>3. ASSUME sections = [l \in Logs |-> NoKey] PROVE KeysOK
    BY <1>2, <1>3 DEF KeysOK
  <1>4. ASSUME sections \in initRegistry([l \in Logs |-> NoKey], FALSE) PROVE KeysOK
    BY <1>2, <1>4, RegistryOK DEF KeysOK
  <1> QED BY <1>1, <1>3, <1>4 DEF Init

\* CConfigLogging::OnInitDialog and eventlog_read_reg read every key alike that the
\* dialog, its defaults and initRegistry can leave, wherever a write has failed; but for
\* the priority of Success that was never written, and a priority of 0.
THEOREM TwoReadersAgree == Spec => []ReadersAgree
  <1> DEFINE KInv == Nested(stack) /\ DialogOK /\ KeysOK
  <1>1. Init => KInv
    BY KeysInit, Empty DEF Init
  <1>2. KInv /\ [Next]_vars => KInv'
    BY NestedStep, DialogStep, KeysStep DEF Nested
  <1>3. KInv => ReadersAgree
    BY SameReading DEF KeysOK, ReadersAgree
  <1> QED BY <1>1, <1>2, <1>3, PTL DEF Spec

-----------------------------------------------------------------------------
(* Types.                                                                  *)

RegType ==
  reg \in [fields : Texts, mode : {"udp", "ping"}, mirror : BOOLEAN,
           events : BOOLEAN, apps : BOOLEAN, list : SUBSET Applications]

GuiType ==
  gui \in [open : BOOLEAN, shown : Texts, known : Texts, planned : BOOLEAN,
           timer3 : BOOLEAN, text : States, installable : BOOLEAN,
           list : SUBSET Applications]

SvcType == svc \in [state : States, marked : BOOLEAN]

Places ==
  {"off", "host", "init", "settings", "logs", "dying", "dead", "report", "main", "apps", "done"}

AgentType == agent.pc \in Places /\ agent.loaded.watched \subseteq Applications

OtherTypes == remover \in BOOLEAN /\ clicks \in 0..MaxClicks

EditedType == edited \in [text : Texts, lost : BOOLEAN]

TypesOK == RegType /\ GuiType /\ SvcType /\ AgentType /\ OtherTypes /\ EditedType

\* The values of the agent's key.
LEMMA RegTypeStep ==
  ASSUME RegType, GuiType, AgentType, [Next]_vars
  PROVE  RegType'
  <1>1. CASE UNCHANGED reg
    BY <1>1 DEF RegType
  <1>2. CASE reg' = Saved
    BY <1>2 DEF RegType, GuiType, Saved
  <1>3. CASE ForwardEvents \/ ForwardApplication \/ UseMirror \/ MirrorOff
    BY <1>3 DEF RegType, ForwardEvents, ForwardApplication, UseMirror, MirrorOff
  <1>4. CASE RadioUdp \/ RadioUdpPing
    BY <1>4 DEF RegType, RadioUdp, RadioUdpPing
  <1>5. CASE AddApplication \/ RemoveApplication
    BY <1>5 DEF RegType, AddApplication, RemoveApplication
  <1>6. CASE StartApplications
    BY <1>6 DEF RegType, StartApplications, AgentType
  <1>7. CASE ServiceInstall
    BY <1>7 DEF RegType, ServiceInstall
  <1>8. CASE User
    <2>1. \/ UNCHANGED reg \/ reg' = Saved
          \/ ForwardEvents \/ ForwardApplication \/ UseMirror \/ MirrorOff
          \/ RadioUdp \/ RadioUdpPing \/ AddApplication \/ RemoveApplication
      BY <1>8 DEF User, AnswerNo, AnswerYes, StopBoxClosed, ClickStart, OnStartService,
                  ClickStop, Edit,
                  Install, Uninstall, OnCancel, QuitAnyway, Leave, StayOpen, Launch,
                  OnEventLog, EditDialog, Defaults, Discard, OnOK, OnOKFails
    <2> QED BY <1>1, <1>2, <1>3, <1>4, <1>5, <2>1
  <1>9. CASE Thread \/ Agent \/ Elsewhere \/ OnTimer1 \/ OnTimer2 \/ OnTimer3
             \/ UNCHANGED vars
    <2>1. UNCHANGED reg \/ reg' = Saved \/ StartApplications \/ ServiceInstall
      BY <1>9
      DEF Thread, Poll, Restart, OnStartService, CheckAgain, Close, Agent,
          SyslogHostInRegistryOK, InitRegistry, AgentAt, ReadSettings, NtslInit, NtslDie, Load,
          ReportRunning, AppWatchMain, Stopped, Elsewhere, OthersStart, OthersStop,
          ServiceRemove, RemoveStopped, OnTimer1, OnTimer2, OnTimer3, vars
    <2> QED BY <1>1, <1>2, <1>6, <1>7, <2>1
  <1> QED BY <1>8, <1>9 DEF Next

\* The service.
LEMMA SvcTypeStep ==
  ASSUME SvcType, [Next]_vars
  PROVE  SvcType'
  <1>1. CASE UNCHANGED svc
    BY <1>1 DEF SvcType
  <1>2. ASSUME NEW s \in States, svc' = [svc EXCEPT !.state = s] PROVE SvcType'
    BY <1>2 DEF SvcType
  <1>3. CASE svc' = Deleted
    BY <1>3 DEF SvcType, Deleted, States
  <1>4. CASE svc' = Ended
    BY <1>4 DEF SvcType, Ended, States
  <1>5. CASE User
    <2>1. \/ UNCHANGED svc \/ svc' = Deleted
          \/ \E s \in States : svc' = [svc EXCEPT !.state = s]
      BY <1>5 DEF User, AnswerNo, AnswerYes, StopBoxClosed, ClickStart, OnStartService,
                  ClickStop, Edit,
                  ForwardEvents, ForwardApplication, UseMirror, RadioUdp, RadioUdpPing,
                  MirrorOff, AddApplication, RemoveApplication, Install, Uninstall, OnCancel,
                  QuitAnyway, StayOpen, Launch, OnEventLog, EditDialog, Defaults, Discard,
                  OnOK, OnOKFails, States
    <2> QED BY <1>1, <1>2, <1>3, <2>1
  <1>6. CASE Thread \/ Agent \/ Elsewhere \/ OnTimer1 \/ OnTimer2 \/ OnTimer3
             \/ UNCHANGED vars
    <2>1. \/ UNCHANGED svc \/ svc' = Deleted \/ svc' = Ended
          \/ \E s \in States : svc' = [svc EXCEPT !.state = s]
      BY <1>6
      DEF Thread, Poll, Restart, OnStartService, CheckAgain, Close, Agent,
          SyslogHostInRegistryOK, InitRegistry, AgentAt, ReadSettings, NtslInit, NtslDie, Load,
          ReportRunning, AppWatchMain, StartApplications, Stopped, Elsewhere, OthersStart,
          OthersStop, ServiceInstall, ServiceRemove, RemoveStopped, OnTimer1, OnTimer2,
          OnTimer3, vars, States
    <2> QED BY <1>1, <1>2, <1>3, <1>4, <2>1
  <1> QED BY <1>5, <1>6 DEF Next

\* The main window.
LEMMA GuiTypeStep ==
  ASSUME RegType, GuiType, SvcType, [Next]_vars
  PROVE  GuiType'
  <1>1. CASE UNCHANGED gui
    BY <1>1 DEF GuiType
  <1>2. ASSUME NEW s \in States, gui' = DisplayStatus(s) PROVE GuiType'
    BY <1>2 DEF GuiType, DisplayStatus
  <1>3. ASSUME NEW s \in States, NEW b \in BOOLEAN,
               gui' = OnInitMain(s) \/ gui' = [OnInitMain(s) EXCEPT !.installable = b]
        PROVE  GuiType'
    <2>1. DisplayStatus(s) \in [open : BOOLEAN, shown : Texts, known : Texts,
                                planned : BOOLEAN, timer3 : BOOLEAN, text : States,
                                installable : BOOLEAN, list : SUBSET Applications]
      BY DEF GuiType, DisplayStatus
    <2> QED BY <1>3, <2>1 DEF GuiType, RegType, OnInitMain
  <1>4. svc.state \in States /\ svc'.state \in States
    BY SvcTypeStep DEF SvcType
  <1>5. CASE ClickStart \/ Restart
    <2>1. OnStartService
      BY <1>5 DEF ClickStart, Restart
    <2> QED BY <2>1, ZenonT(30) DEF OnStartService, GuiType, States
  <1>6. CASE Edit \/ OnTimer2 \/ OnTimer3 \/ Close
    BY <1>6 DEF Edit, OnTimer2, OnTimer3, Close, GuiType
  <1>7. CASE AddApplication \/ RemoveApplication
    BY <1>7 DEF AddApplication, RemoveApplication, GuiType, RegType
  <1>8. CASE OnCancel \/ QuitAnyway
    BY <1>8 DEF OnCancel, QuitAnyway, Leave, GuiType
  <1>9. CASE Uninstall
    <2>1. PICK s \in {"absent", svc'.state} : gui' = DisplayStatus(s)
      BY <1>9 DEF Uninstall
    <2>2. s \in States
      BY <1>4, <2>1 DEF States
    <2> QED BY <1>2, <2>1, <2>2
  <1>10. CASE User
    <2>1. \/ UNCHANGED gui \/ gui' = DisplayStatus("stopping")
          \/ gui' = OnInitMain(svc'.state)
          \/ gui' = [OnInitMain(svc.state) EXCEPT !.installable = svc.state # "running"]
          \/ ClickStart \/ Edit \/ AddApplication \/ RemoveApplication \/ Uninstall
          \/ OnCancel \/ QuitAnyway
      BY <1>10 DEF User, AnswerNo, AnswerYes, StopBoxClosed, ClickStop, ForwardEvents,
                   ForwardApplication,
                   UseMirror, RadioUdp, RadioUdpPing, MirrorOff, Install, StayOpen, Launch,
                   OnEventLog, EditDialog, Defaults, Discard, OnOK, OnOKFails
    <2>2. "stopping" \in States
      BY DEF States
    <2> QED BY <1>1, <1>2, <1>3, <1>4, <1>5, <1>6, <1>7, <1>8, <1>9, <2>1, <2>2
  <1>11. CASE Thread \/ Agent \/ Elsewhere \/ OnTimer1 \/ OnTimer2 \/ OnTimer3
              \/ UNCHANGED vars
    <2>1. \/ UNCHANGED gui \/ gui' = DisplayStatus(svc.state)
          \/ Restart \/ OnTimer2 \/ OnTimer3 \/ Close
      BY <1>11
      DEF Thread, Poll, QueryServiceStatus, CheckAgain, Agent, SyslogHostInRegistryOK,
          InitRegistry, AgentAt, ReadSettings, NtslInit, NtslDie, Load, ReportRunning,
          AppWatchMain,
          StartApplications, Stopped, Elsewhere, OthersStart, OthersStop, ServiceInstall,
          ServiceRemove, RemoveStopped, OnTimer1, vars
    <2> QED BY <1>1, <1>2, <1>4, <1>5, <1>6, <2>1
  <1> QED BY <1>10, <1>11 DEF Next

\* The agent.
LEMMA AgentTypeStep ==
  ASSUME Fields, RegType, AgentType, [Next]_vars
  PROVE  AgentType'
  <1>1. AgentFields
    BY DEF Fields
  <1>2. ASSUME NEW p \in Places, agent' = [agent EXCEPT !.pc = p] PROVE AgentType'
    BY <1>1, <1>2 DEF AgentType, AgentFields
  <1>3. CASE ReadSettings \/ NtslInit
    <2>1. agent'.pc \in {"logs", "report"} /\ agent'.loaded.watched = agent.loaded.watched
      <3>1. CASE ReadSettings
        BY <1>1, <3>1 DEF ReadSettings, Load, AgentFields, LoadedFields
      <3>2. CASE NtslInit
        BY <1>1, <3>2 DEF NtslInit, NtslDie, Load, AgentFields, LoadedFields
      <3> QED BY <1>3, <3>1, <3>2
    <2> QED BY <2>1 DEF AgentType, Places
  <1>4. CASE AppWatchMain
    BY <1>1, <1>4 DEF AppWatchMain, Load, AgentType, Places, AgentFields, LoadedFields,
                      InRegistry, RegType
  <1>5. CASE UNCHANGED agent
    BY <1>5 DEF AgentType
  <1>6. CASE User
    <2>1. UNCHANGED agent \/ agent' = [agent EXCEPT !.pc = "host"]
      BY <1>6 DEF User, AnswerNo, AnswerYes, StopBoxClosed, ClickStart, OnStartService,
                  ClickStop, Edit,
                  ForwardEvents, ForwardApplication, UseMirror, RadioUdp, RadioUdpPing,
                  MirrorOff, AddApplication, RemoveApplication, Install, Uninstall, OnCancel,
                  QuitAnyway, StayOpen, Launch, OnEventLog, EditDialog, Defaults, Discard,
                  OnOK, OnOKFails
    <2> QED BY <1>2, <1>5, <2>1 DEF Places
  <1>7. CASE Thread \/ Agent \/ Elsewhere \/ OnTimer1 \/ OnTimer2 \/ OnTimer3
             \/ UNCHANGED vars
    <2>1. \/ UNCHANGED agent \/ ReadSettings \/ NtslInit \/ AppWatchMain
          \/ Stopped \/ \E p \in Places : agent' = [agent EXCEPT !.pc = p]
      BY <1>7
      DEF Thread, Poll, Restart, OnStartService, CheckAgain, Close, Agent,
          SyslogHostInRegistryOK, InitRegistry, NtslDie, AgentAt, ReportRunning,
          StartApplications, Elsewhere, OthersStart, OthersStop, ServiceInstall, ServiceRemove,
          RemoveStopped, OnTimer1, OnTimer2, OnTimer3, vars, Places
    <2>2. ASSUME Stopped PROVE AgentType'
      BY <2>2, OffOK DEF Stopped, AgentType, Places
    <2> QED BY <1>2, <1>3, <1>4, <1>5, <2>1, <2>2
  <1> QED BY <1>6, <1>7 DEF Next

\* The number of inputs, and the other process.
LEMMA OtherTypesStep ==
  ASSUME OtherTypes, [Next]_vars
  PROVE  OtherTypes'
  <1>1. CASE UNCHANGED <<remover, clicks>>
    BY <1>1 DEF OtherTypes
  <1>2. CASE Click /\ remover' \in {remover, TRUE}
    <2>1. clicks' \in 0..MaxClicks
      BY <1>2, ConfigurationAssumption DEF OtherTypes, Click
    <2>2. remover' \in BOOLEAN
      BY <1>2 DEF OtherTypes
    <2> QED BY <2>1, <2>2 DEF OtherTypes
  <1>3. CASE RemoveStopped
    BY <1>3 DEF RemoveStopped, OtherTypes
  <1>4. CASE User
    <2>1. UNCHANGED <<remover, clicks>> \/ (Click /\ remover' = remover)
      BY <1>4 DEF User, AnswerNo, AnswerYes, StopBoxClosed, ClickStart, OnStartService,
                  ClickStop, Edit,
                  ForwardEvents, ForwardApplication, UseMirror, RadioUdp, RadioUdpPing,
                  MirrorOff, AddApplication, RemoveApplication, Install, Uninstall, OnCancel,
                  QuitAnyway, StayOpen, Launch, OnEventLog, EditDialog, Defaults, Discard,
                  OnOK, OnOKFails, ClickWindow
    <2> QED BY <1>1, <1>2, <2>1
  <1>5. CASE Thread \/ Agent \/ Elsewhere \/ OnTimer1 \/ OnTimer2 \/ OnTimer3
             \/ UNCHANGED vars
    <2>1. \/ UNCHANGED <<remover, clicks>> \/ (Click /\ remover' \in {remover, TRUE})
          \/ RemoveStopped
      BY <1>5
      DEF Thread, Poll, Restart, OnStartService, CheckAgain, Close, Agent,
          SyslogHostInRegistryOK, InitRegistry, AgentAt, ReadSettings, NtslInit, NtslDie, Load,
          ReportRunning, AppWatchMain, StartApplications, Stopped, Elsewhere, OthersStart,
          OthersStop, ServiceInstall, ServiceRemove, OnTimer1, OnTimer2, OnTimer3, vars
    <2> QED BY <1>1, <1>2, <1>3, <2>1
  <1> QED BY <1>4, <1>5 DEF Next

\* What the user last entered.
LEMMA EditedTypeStep ==
  ASSUME EditedType, [Next]_vars
  PROVE  EditedType'
  <1>1. CASE UNCHANGED edited
    BY <1>1 DEF EditedType
  <1>2. CASE Edit
    BY <1>2 DEF Edit, EditedType
  <1>3. CASE GivenUp
    <2>1. (gui.shown # gui.known) \in BOOLEAN
      OBVIOUS
    <2> QED BY <1>3, <2>1 DEF GivenUp, EditedType
  <1>4. CASE User
    <2>1. UNCHANGED edited \/ Edit \/ GivenUp
      BY <1>4 DEF User, AnswerNo, AnswerYes, StopBoxClosed, ClickStart, OnStartService,
                  ClickStop, ForwardEvents, ForwardApplication, UseMirror, RadioUdp,
                  RadioUdpPing, MirrorOff, AddApplication, RemoveApplication, Install,
                  Uninstall, OnCancel, QuitAnyway, Leave, StayOpen, Launch, OnEventLog,
                  EditDialog, Defaults, Discard, OnOK, OnOKFails
    <2> QED BY <1>1, <1>2, <1>3, <2>1
  <1>5. CASE Thread \/ Agent \/ Elsewhere \/ OnTimer1 \/ OnTimer2 \/ OnTimer3
             \/ UNCHANGED vars
    <2>1. UNCHANGED edited
      BY <1>5
      DEF Thread, Poll, Restart, OnStartService, CheckAgain, Close, Agent,
          SyslogHostInRegistryOK, InitRegistry, AgentAt, ReadSettings, NtslInit, NtslDie, Load,
          ReportRunning, AppWatchMain, StartApplications, Stopped, Elsewhere, OthersStart,
          OthersStop, ServiceInstall, ServiceRemove, RemoveStopped, OnTimer1, OnTimer2,
          OnTimer3, vars
    <2> QED BY <1>1, <2>1
  <1> QED BY <1>4, <1>5 DEF Next

-----------------------------------------------------------------------------
(* Boxes on top of each other.                                             *)

\* The frames of CheckRestartService.
Boxes(st) == IF st # << >> /\ st[1] \notin Asking THEN Len(st) - 1 ELSE Len(st)

One(b) == IF b THEN 1 ELSE 0

\* Each of them was opened by a click, by the timer that was on then, or by the timer that
\* OnTimer2 started for what was edited before.
Timer == One(gui.timer3)

Edited == One(gui.shown # gui.known)

Few == Boxes(stack) + Timer + Edited <= 3

\* The open boxes can be counted.
LEMMA BoxesNat ==
  ASSUME NEW st, Nested(st)
  PROVE  Boxes(st) \in Nat /\ Boxes(<< >>) = 0
  <1>1. st \in Seq(Frames)
    BY DEF Nested
  <1>2. PICK n \in Nat : n = Len(st) /\ (st # << >> => n > 0)
    BY <1>1
  <1>3. Boxes(st) = IF st # << >> /\ st[1] \notin Asking THEN n - 1 ELSE n
    BY <1>2 DEF Boxes
  <1>4. Boxes(<< >>) = 0
    BY Empty DEF Boxes
  <1> QED BY <1>2, <1>3, <1>4

\* One more,
LEMMA BoxesAppend ==
  ASSUME NEW st, Nested(st), NEW f \in Asking
  PROVE  Boxes(Append(st, f)) = Boxes(st) + 1
  <1>1. st \in Seq(Frames)
    BY DEF Nested
  <1>2. PICK n \in Nat : n = Len(st) /\ (st # << >> => n > 0)
    BY <1>1
  <1>3. Len(Append(st, f)) = n + 1
    BY <1>2, AppendOK
  <1>4. Append(st, f) # << >>
    BY <1>2, <1>3, Empty
  <1>5. CASE st = << >>
    <2>1. Append(st, f)[1] = f
      BY <1>5
    <2>2. Boxes(Append(st, f)) = n + 1
      BY <1>3, <1>4, <2>1 DEF Boxes
    <2>3. n = 0
      BY <1>2, <1>5, Empty
    <2>4. Boxes(st) = 0
      BY <1>5, Empty DEF Boxes
    <2> QED BY <2>2, <2>3, <2>4
  <1>6. CASE st # << >>
    <2>1. Append(st, f)[1] = st[1]
      BY <1>2, <1>6, AppendOK
    <2>2. Boxes(Append(st, f)) = IF st[1] \notin Asking THEN n + 1 - 1 ELSE n + 1
      BY <1>3, <1>4, <2>1 DEF Boxes
    <2>3. Boxes(st) = IF st[1] \notin Asking THEN n - 1 ELSE n
      BY <1>2, <1>6 DEF Boxes
    <2> QED BY <1>2, <2>2, <2>3
  <1> QED BY <1>5, <1>6

\* and one fewer.
LEMMA BoxesFront ==
  ASSUME Nested(stack), Top \in Asking
  PROVE  Boxes(Front(stack)) = Boxes(stack) - 1 /\ stack # << >>
  <1>1. stack # << >> /\ stack[Len(stack)] \in Asking
    BY DEF Top, Last, Asking
  <1>2. PICK n \in Nat : n = Len(stack) /\ n > 0
    BY <1>1 DEF Nested
  <1>3. Len(Front(stack)) = n - 1
    BY <1>1, <1>2, FrontOK
  <1>4. CASE n = 1
    <2>1. Front(stack) = << >>
      BY <1>2, <1>4, SubSeqEmpty DEF Front
    <2>2. Boxes(stack) = 1
      BY <1>1, <1>2, <1>4 DEF Boxes
    <2>3. Boxes(Front(stack)) = 0
      BY <2>1, Empty DEF Boxes
    <2> QED BY <1>1, <2>2, <2>3
  <1>5. CASE n > 1
    <2>1. Front(stack)[1] = stack[1]
      BY <1>1, <1>2, <1>5, FrontOK
    <2>2. Front(stack) # << >>
      BY <1>3, <1>5, Empty
    <2>3. Boxes(Front(stack)) = IF stack[1] \notin Asking THEN n - 1 - 1 ELSE n - 1
      BY <1>3, <2>1, <2>2 DEF Boxes
    <2>4. Boxes(stack) = IF stack[1] \notin Asking THEN n - 1 ELSE n
      BY <1>1, <1>2 DEF Boxes
    <2> QED BY <1>1, <1>2, <2>3, <2>4
  <1> QED BY <1>2, <1>4, <1>5

\* At most one box is opened by CheckRestartService.
LEMMA BoxesAsked ==
  ASSUME NEW below, Nested(below), CheckRestartService(below)
  PROVE  Boxes(stack') \in {Boxes(below), Boxes(below) + 1}
  <1>1. "question" \in Asking
    BY DEF Asking
  <1>2. stack' = below \/ stack' = Append(below, "question")
    BY Asked
  <1>3. Boxes(Append(below, "question")) = Boxes(below) + 1
    BY <1>1, BoxesAppend
  <1> QED BY <1>2, <1>3

\* A stack with one frame that does not ask.
LEMMA BoxesNone ==
  ASSUME NEW st, Nested(st), Len(st) = 1, st[1] \notin Asking
  PROVE  Boxes(st) = 0
  <1>1. st # << >>
    BY Empty
  <1> QED BY <1>1 DEF Boxes

\* There are never more than three, whatever the timers do while the boxes are open.
LEMMA FewStep ==
  ASSUME GuiType, GuiFields, Nested(stack), Few, [Next]_vars
  PROVE  Few'
  <1>1. PICK b \in Nat, t \in {0, 1}, e \in {0, 1} :
          b = Boxes(stack) /\ t = Timer /\ e = Edited /\ b + t + e <= 3
    <2>1. Boxes(stack) \in Nat
      BY BoxesNat
    <2>2. Timer \in {0, 1} /\ Edited \in {0, 1}
      BY DEF Timer, Edited, One
    <2> QED BY <2>1, <2>2 DEF Few
  <1>2. PICK t1 \in {0, 1}, e1 \in {0, 1} : t1 = Timer' /\ e1 = Edited'
    BY DEF Timer, Edited, One
  <1>3. PICK b1 \in Nat : b1 = Boxes(stack')
    <2>1. Nested(stack')
      BY NestedStep
    <2> QED BY <2>1, BoxesNat
  <1>4. Few' <=> b1 + t1 + e1 <= 3
    BY <1>2, <1>3 DEF Few, Boxes
  <1>5. ASSUME b1 \in {0, 1} PROVE Few'
    BY <1>4, <1>5
  <1>6. ASSUME b1 \in {b, b - 1}, t1 \in {t, 0}, e1 \in {e, 0} PROVE Few'
    BY <1>1, <1>4, <1>6
  <1>7. Boxes(<< >>) = 0 /\ Nested(<< >>)
    BY BoxesNat, Empty
  <1>8. ASSUME NEW below, Nested(below), Boxes(below) = 0, CheckRestartService(below)
        PROVE  Few'
    <2>1. b1 \in {0, 0 + 1}
      BY <1>3, <1>8, BoxesAsked
    <2> QED BY <1>5, <2>1
  <1>9. ASSUME NEW f \in Frames, f \notin Asking
        PROVE  Boxes(<<f>>) = 0 /\ Nested(<<f>>)
    <2>1. Len(<<f>>) = 1 /\ <<f>>[1] = f /\ Nested(<<f>>)
      BY Single
    <2>2. Boxes(<<f>>) = 0
      BY <1>9, <2>1, BoxesNone, Zenon
    <2> QED BY <2>1, <2>2
  <1>10. ASSUME UNCHANGED <<stack, gui>> PROVE Few'
    BY <1>10 DEF Few, Timer, Edited
  <1>11. ASSUME stack' = << >> PROVE Few'
    BY <1>3, <1>5, <1>7, <1>11
  <1>12. ASSUME NEW f \in Frames, f \notin Asking,
                stack' = <<f>> \/ CheckRestartService(<<f>>)
         PROVE  Few'
    BY <1>3, <1>5, <1>8, <1>9, <1>12
  <1>13. CASE stack = << >> /\ (stack' = stack \/ CheckRestartService(stack))
    BY <1>7, <1>8, <1>11, <1>13
  <1>14. CASE RadioUdpPing
    <2>1. "mirror box" \in Frames \ Asking /\ "check" \in Frames \ Asking
      BY DEF Frames, Asking
    <2>2. stack' = <<"mirror box">> \/ CheckRestartService(<<"check">>)
      BY <1>14 DEF RadioUdpPing
    <2> QED BY <1>12, <2>1, <2>2
  <1>15. ASSUME Leave(<< >>) PROVE Few'
    <2>1. "close" \in Frames \ Asking /\ Append(<< >>, "close") = <<"close">>
      BY Single DEF Frames, Asking
    <2>2. stack' = <<"close">> \/ CheckRestartService(<<"close">>)
      BY <1>15, <2>1 DEF Leave
    <2> QED BY <1>12, <2>1, <2>2
  <1>16. CASE OnCancel
    <2>1. "quit box" \in Frames \ Asking
      BY DEF Frames, Asking
    <2>2. stack' = <<"quit box">> \/ Leave(<< >>)
      BY <1>16 DEF OnCancel
    <2> QED BY <1>12, <1>15, <2>1, <2>2
  <1>17. ASSUME NEW f \in {"mirror box", "check", "quit box", "log"}, Top = f
         PROVE  Front(stack) = << >>
    <2>1. f \notin Asking /\ f # "window"
      BY DEF Asking
    <2> QED BY <1>17, <2>1, Lowest, Zenon
  <1>18. CASE MirrorOff
    <2>1. "check" \in Frames \ Asking
      BY DEF Frames, Asking
    <2>2. Front(stack) = << >>
      BY <1>17, <1>18 DEF MirrorOff
    <2>3. CheckRestartService(<<"check">>)
      BY <1>18, <2>1, <2>2, Single DEF MirrorOff
    <2> QED BY <1>12, <2>1, <2>3
  <1>19. CASE QuitAnyway
    BY <1>15, <1>17, <1>19 DEF QuitAnyway
  <1>20. CASE OnOK \/ CheckAgain
    <2>1. CheckRestartService(<< >>)
      BY <1>17, <1>20 DEF OnOK, CheckAgain
    <2> QED BY <1>7, <1>8, <2>1
  <1>21. CASE StayOpen \/ Discard \/ Close
    BY <1>11, <1>17, <1>21 DEF StayOpen, Discard, LeaveDialog, Close
  <1>22. ASSUME Top \in Asking, stack' = Front(stack) PROVE b1 = b - 1
    BY <1>1, <1>3, <1>22, BoxesFront
  <1>23. CASE AnswerNo
    <2>1. b1 = b - 1
      BY <1>22, <1>23 DEF AnswerNo, Asking
    <2>2. t1 = t /\ e1 = e
      BY <1>1, <1>2, <1>23 DEF AnswerNo, Timer, Edited
    <2> QED BY <1>6, <2>1, <2>2
  <1>24. CASE Restart
    <2>1. b1 = b - 1
      BY <1>22, <1>24 DEF Restart, Asking
    <2>2. gui'.timer3 = FALSE /\ gui'.shown = gui'.known
      BY <1>24 DEF Restart, OnStartService, GuiFields
    <2>3. t1 = 0 /\ e1 = 0
      BY <1>2, <2>2 DEF Timer, Edited, One
    <2> QED BY <1>6, <2>1, <2>3
  <1>25. ASSUME NEW s, gui' = DisplayStatus(s) PROVE t1 = t /\ e1 = e
    <2>1. gui'.timer3 = gui.timer3 /\ gui'.shown = gui.shown /\ gui'.known = gui.known
      BY <1>25, StatusOK
    <2> QED BY <1>1, <1>2, <2>1 DEF Timer, Edited
  <1>26. CASE AnswerYes \/ StopBoxClosed \/ Poll
    <2>1. Top \in Asking
      BY <1>26 DEF AnswerYes, StopBoxClosed, Poll, Asking
    <2>2. stack' = stack \/ \E f \in Asking : stack' = Append(Front(stack), f)
      BY <1>26 DEF AnswerYes, StopBoxClosed, StopOrWait, Poll, Asking
    <2>3. b1 = b
      <3>1. CASE stack' = stack
        BY <1>1, <1>3, <3>1
      <3>2. ASSUME NEW f \in Asking, stack' = Append(Front(stack), f) PROVE b1 = b
        <4>1. Boxes(Front(stack)) = b - 1 /\ Nested(Front(stack))
          BY <1>1, <2>1, BoxesFront, FrontOK
        <4>2. b1 = b - 1 + 1
          BY <1>3, <3>2, <4>1, BoxesAppend
        <4> QED BY <4>2
      <3> QED BY <2>2, <3>1, <3>2
    <2>4. gui' = gui \/ \E s : gui' = DisplayStatus(s)
      BY <1>26 DEF AnswerYes, StopBoxClosed, Poll, QueryServiceStatus
    <2>5. t1 = t /\ e1 = e
      BY <1>1, <1>2, <1>25, <2>4 DEF Timer, Edited
    <2> QED BY <1>6, <2>3, <2>5
  <1>27. CASE OnTimer1
    BY <1>1, <1>3, <1>6, <1>25, <1>27 DEF OnTimer1, QueryServiceStatus
  <1>28. CASE OnTimer2
    <2>1. b1 = b /\ e = 1
      BY <1>1, <1>3, <1>28 DEF OnTimer2, Edited, One
    <2>2. gui'.shown = gui'.known
      BY <1>28 DEF OnTimer2, GuiFields
    <2>3. e1 = 0
      BY <1>2, <2>2 DEF Edited, One
    <2> QED BY <1>1, <1>4, <2>1, <2>3
  <1>29. CASE OnTimer3
    <2>1. b1 \in {b, b + 1}
      BY <1>1, <1>3, <1>29, BoxesAsked DEF OnTimer3
    <2>2. t = 1
      BY <1>1, <1>29 DEF OnTimer3, Timer, One
    <2>3. gui'.timer3 = FALSE /\ gui'.shown = gui.shown /\ gui'.known = gui.known
      BY <1>29 DEF OnTimer3, GuiFields
    <2>4. t1 = 0 /\ e1 = e
      BY <1>1, <1>2, <2>3 DEF Timer, Edited, One
    <2> QED BY <1>1, <1>4, <2>1, <2>2, <2>4
  <1>30. CASE Launch
    <2>1. b1 = b
      BY <1>1, <1>3, <1>30 DEF Launch
    <2>2. gui'.timer3 = gui.timer3 /\ gui'.shown = reg.fields /\ gui'.known = reg.fields
      BY <1>30, LaunchOK
    <2>3. t1 = t /\ e1 = 0
      BY <1>1, <1>2, <2>2 DEF Timer, Edited, One
    <2> QED BY <1>6, <2>1, <2>3
  <1>31. CASE User
    <2>1. \/ stack = << >> /\ (stack' = stack \/ CheckRestartService(stack))
          \/ RadioUdpPing \/ OnCancel \/ MirrorOff \/ QuitAnyway \/ OnOK \/ StayOpen
          \/ Discard \/ AnswerNo \/ AnswerYes \/ StopBoxClosed \/ Launch
          \/ stack' = <<"log">>
          \/ UNCHANGED <<stack, gui>>
      BY <1>31 DEF User, ClickWindow, ClickStart, ClickStop, Edit, ForwardEvents,
                   ForwardApplication, UseMirror, RadioUdp, AddApplication,
                   RemoveApplication, Install, Uninstall, OnEventLog, EditDialog, Defaults,
                   OnOKFails
    <2>2. "log" \in Frames \ Asking
      BY DEF Frames, Asking
    <2> QED BY <1>10, <1>12, <1>13, <1>14, <1>16, <1>18, <1>19, <1>20, <1>21, <1>23, <1>26,
               <1>30, <2>1, <2>2
  <1>32. CASE Agent \/ Elsewhere \/ UNCHANGED vars
    BY <1>10, <1>32
    DEF Agent, SyslogHostInRegistryOK, InitRegistry, AgentAt, ReadSettings, NtslInit, NtslDie,
        Load,
        ReportRunning, AppWatchMain, StartApplications, Stopped, Elsewhere, OthersStart,
        OthersStop, ServiceInstall, ServiceRemove, RemoveStopped, vars
  <1> QED BY <1>20, <1>21, <1>24, <1>26, <1>27, <1>28, <1>29, <1>31, <1>32 DEF Next, Thread

\* So few frames are questions.
LEMMA QuestionsFew ==
  ASSUME Nested(stack), Boxes(stack) <= 3
  PROVE  Cardinality({i \in DOMAIN stack : stack[i] = "question"}) <= 3
  <1> DEFINE Q == {i \in DOMAIN stack : stack[i] = "question"}
  <1>1. stack \in Seq(Frames)
    BY DEF Nested
  <1>2. PICK n \in Nat : n = Len(stack) /\ DOMAIN stack = 1..n
    BY <1>1
  <1>3. "question" \in Asking
    BY DEF Asking
  <1>4. PICK m \in {1, 2} : Q \subseteq m..n /\ n - m + 1 <= 3
    <2>1. CASE stack # << >> /\ stack[1] \notin Asking
      <3>1. n - 1 <= 3
        BY <1>2, <2>1 DEF Boxes
      <3>2. Q \subseteq 2..n
        <4>1. \A i \in Q : i \in 1..n /\ i # 1
          BY <1>2, <1>3, <2>1
        <4> QED BY <1>2, <4>1
      <3> QED BY <1>2, <3>1, <3>2
    <2>2. CASE ~(stack # << >> /\ stack[1] \notin Asking)
      <3>1. n <= 3
        BY <1>2, <2>2 DEF Boxes
      <3>2. Q \subseteq 1..n
        BY <1>2
      <3> QED BY <1>2, <3>1, <3>2
    <2> QED BY <2>1, <2>2
  <1>5. IsFiniteSet(m..n) /\ Cardinality(m..n) <= 3
    <2>1. m \in Int /\ n \in Int
      BY <1>2, <1>4
    <2>2. IsFiniteSet(m..n) /\ Cardinality(m..n) = IF m > n THEN 0 ELSE n - m + 1
      BY <2>1, FS_Interval
    <2> QED BY <1>2, <1>4, <2>2
  <1>6. IsFiniteSet(Q) /\ Cardinality(Q) <= Cardinality(m..n)
    BY <1>4, <1>5, FS_Subset
  <1>7. Cardinality(Q) \in Nat /\ Cardinality(m..n) \in Nat
    BY <1>5, <1>6, FS_CardinalityType
  <1> HIDE DEF Q
  <1>8. Cardinality(Q) <= 3
    BY <1>5, <1>6, <1>7
  <1> QED BY <1>8 DEF Q

\* The frames of a stack and the dialog's.
LEMMA DialogFrame ==
  ASSUME Nested(stack), DialogOK
  PROVE  /\ \A i \in DOMAIN stack : stack[i] \in Frames
         /\ (dialog # << >>) <=> \E i \in DOMAIN stack : stack[i] = "log"
  <1>1. stack \in Seq(Frames)
    BY DEF Nested
  <1>2. PICK n \in Nat : n = Len(stack) /\ DOMAIN stack = 1..n /\ (stack # << >> <=> n > 0)
    BY <1>1
  <1>3. "log" \notin Asking
    BY DEF Asking
  <1>4. \A i \in DOMAIN stack : stack[i] = "log" => i = 1
    BY <1>2, <1>3 DEF Nested
  <1>5. LogShown(stack) <=> \E i \in DOMAIN stack : stack[i] = "log"
    BY <1>2, <1>4 DEF LogShown
  <1> QED BY <1>1, <1>5 DEF DialogOK

\* Every variable has its type at first, and no box is open.
LEMMA TypesInit == Init => TypesOK /\ Few
  <1> SUFFICES ASSUME Init PROVE TypesOK /\ Few
    OBVIOUS
  <1>1. RegType
    BY ConfigurationAssumption DEF Init, RegType
  <1>2. SvcType
    <2>1. PICK st \in {"absent", "running"} : svc = [state |-> st, marked |-> FALSE]
      BY Zenon DEF Init
    <2> QED BY <2>1 DEF SvcType, States
  <1>3. GuiType
    BY <1>1, <1>2 DEF Init, GuiType, RegType, SvcType
  <1>4. agent = Off \/ agent = [pc |-> "done", loaded |-> InRegistry]
    BY Zenon DEF Init
  <1>5. AgentType
    <2>1. CASE agent = Off
      BY <2>1, OffOK DEF AgentType, Places
    <2>2. CASE agent = [pc |-> "done", loaded |-> InRegistry]
      BY <1>1, <2>2 DEF AgentType, Places, InRegistry, RegType
    <2> QED BY <1>4, <2>1, <2>2
  <1>6. OtherTypes
    <2>1. remover = FALSE /\ clicks = 0
      BY DEF Init
    <2>2. 0 \in 0..MaxClicks
      BY ConfigurationAssumption
    <2> QED BY <2>1, <2>2 DEF OtherTypes
  <1>8. EditedType
    BY <1>1 DEF Init, RegType, EditedType
  <1>7. Few
    <2>1. Boxes(stack) = 0
      BY Empty DEF Init, Boxes
    <2>2. Timer \in {0, 1} /\ Edited \in {0, 1}
      BY DEF Timer, Edited, One
    <2> QED BY <2>1, <2>2 DEF Few
  <1> QED BY <1>1, <1>2, <1>3, <1>5, <1>6, <1>7, <1>8 DEF TypesOK

\* Every variable of the configuration program, the service and the agent has its type.
\* CheckRestartService runs a message loop in which the timers call it again: at most
\* three of its questions are open at once. The dialog of a log is open while it has data.
THEOREM TypeCorrect == Spec => []TypeOK
  <1> DEFINE TInv == Fields /\ Nested(stack) /\ TypesOK /\ Few /\ DialogOK /\ KeysOK
  <1>1. Init => TInv
    BY FieldsInit, TypesInit, KeysInit, Empty DEF Init
  <1>2. TInv /\ [Next]_vars => TInv'
    <2> SUFFICES ASSUME TInv, [Next]_vars PROVE TInv'
      OBVIOUS
    <2>1. Fields' /\ Nested(stack)' /\ DialogOK' /\ KeysOK'
      BY FieldsStep, NestedStep, DialogStep, KeysStep DEF Nested
    <2>2. TypesOK'
      BY RegTypeStep, GuiTypeStep, SvcTypeStep, AgentTypeStep, OtherTypesStep,
         EditedTypeStep DEF TypesOK
    <2>3. Few'
      BY FewStep DEF TypesOK, Fields
    <2> QED BY <2>1, <2>2, <2>3
  <1>3. TInv => TypeOK
    <2> SUFFICES ASSUME TInv PROVE TypeOK
      OBVIOUS
    <2>1. Boxes(stack) <= 3
      <3>1. Boxes(stack) \in Nat /\ Timer \in {0, 1} /\ Edited \in {0, 1}
        BY BoxesNat DEF Timer, Edited, One
      <3> QED BY <3>1 DEF Few
    <2>2. Cardinality({i \in DOMAIN stack : stack[i] = "question"}) <= 3
      BY <2>1, QuestionsFew
    <2>3. sections \in [Logs -> Keys]
      BY DEF KeysOK, RightKeys
    <2> QED BY <2>2, <2>3, DialogFrame
            DEF TypeOK, TypesOK, RegType, GuiType, SvcType, AgentType, OtherTypes,
                EditedType, Places
  <1> QED BY <1>1, <1>2, <1>3, PTL DEF Spec
=============================================================================
