------------------------------ MODULE Configuration ------------------------------
(***************************************************************************)
(* The settings of the agent in the registry and the three that share      *)
(* them: the configuration program (CNTSyslogCtrlDlg and CConfigLogging),  *)
(* the agent that reads them when the service starts, and the service      *)
(* control manager between the two, which others use as well.              *)
(*                                                                         *)
(* The program has one thread. What it is in the middle of is a stack:     *)
(* while a box or a dialog is on top it waits for the user and its timers  *)
(* go on; the main window takes clicks only when the stack is empty.       *)
(***************************************************************************)
EXTENDS LoggingSettings, FiniteSets, SequencesExt

CONSTANTS
  Texts,         \* what the edited fields (addresses, ports, filter) may hold
  NoAddress,     \* one of them: the address is 0.0.0.0 or empty
  Address,       \* another, with which a service runs at first
  Priorities,    \* the priorities the user may select
  Applications,  \* names of application logs
  Others,        \* what others do: "start", "stop", "install", "remove"
  KeysFail,      \* whether a log's key may refuse to be written or opened
  MaxClicks      \* bound on the inputs of the user and of others

ASSUME ConfigurationAssumption ==
  /\ {NoAddress, Address} \subseteq Texts /\ Address # NoAddress
  /\ Priorities \subseteq 0..191
  /\ Others \subseteq {"start", "stop", "install", "remove"}
  /\ KeysFail \in BOOLEAN
  /\ MaxClicks \in Nat

VARIABLES
  reg,       \* the values of the agent's key, and the names of its application logs
  sections,  \* the keys of the event logs
  gui,       \* the main window, its timers and its members
  stack,     \* what the program's thread is in the middle of
  dialog,    \* the dialog of one event log
  svc,       \* the service as the service control manager knows it
  agent,     \* where the agent is in its start, and the settings it goes by
  remover,   \* whether SyslogAgent -remove waits for the service to stop
  reasons,   \* history: why the agent may not have the present settings
  edited,    \* history: what the user last entered, and whether the program gave it up
  clicks     \* how many inputs there were

vars == <<reg, sections, gui, stack, dialog, svc, agent, remover, reasons, edited, clicks>>

Top == IF stack = << >> THEN "window" ELSE Last(stack)

\* Frames that run a message loop.
Pumps ==
  gui.open /\ Top \in {"window", "question", "stop box", "mirror box", "quit box", "log"}

Click == clicks < MaxClicks /\ clicks' = clicks + 1
ClickWindow == Click /\ gui.open /\ stack = << >>

\* What the agent would go by if it read the settings now: it knows the logs by their
\* keys.
InRegistry ==
  [events  |-> reg.events,
   filter  |-> reg.fields,
   logs    |-> [l \in {k \in Logs : sections[k].key} |-> eventlog_read_reg(sections[l])],
   to      |-> <<reg.fields, reg.mode, reg.mirror>>,
   watched |-> IF reg.apps THEN reg.list ELSE {}]

\* An agent that is not there has read nothing.
Off ==
  [pc |-> "off",
   loaded |-> [events |-> TRUE, filter |-> NoAddress, logs |-> << >>,
               to |-> <<NoAddress, "udp", FALSE>>, watched |-> {}]]

\* The text of the status, and whether the Install button is enabled.
DisplayStatus(state) ==
  [gui EXCEPT !.text = state,
              !.installable = CASE state = "running" -> FALSE
                                [] state = "stopped" -> TRUE
                                [] OTHER             -> @]

QueryServiceStatus == DisplayStatus(svc.state)

\* CNTSyslogCtrlDlg::OnInitDialog, while the service is as given.
OnInitMain(state) ==
  [DisplayStatus(state) EXCEPT !.open = TRUE, !.shown = reg.fields, !.known = reg.fields,
                               !.planned = FALSE, !.list = reg.list]

\* Either a computer without the service, or one where it runs with these settings.
Init ==
  /\ reg \in [fields : {NoAddress, Address}, mode : {"udp"}, mirror : BOOLEAN, events : {TRUE},
              apps : {TRUE}, list : SUBSET Applications]
  /\ \/ /\ svc = [state |-> "absent", marked |-> FALSE]
        /\ reg.fields = NoAddress /\ ~reg.mirror /\ reg.list = {}
        /\ sections = [l \in Logs |-> NoKey]
        /\ agent = Off
     \/ /\ svc = [state |-> "running", marked |-> FALSE]
        /\ reg.fields # NoAddress
        /\ sections \in initRegistry([l \in Logs |-> NoKey], FALSE)
        /\ agent = [pc |-> "done", loaded |-> InRegistry]
  /\ gui = [open |-> TRUE, shown |-> reg.fields, known |-> reg.fields, planned |-> FALSE,
            timer3 |-> FALSE, text |-> svc.state,
            installable |-> svc.state = "absent", list |-> reg.list]
  /\ stack = << >> /\ dialog = << >>
  /\ remover = FALSE /\ reasons = {} /\ clicks = 0
  /\ edited = [text |-> reg.fields, lost |-> FALSE]
-----------------------------------------------------------------------------
(* CheckRestartService, with the frames below it.                          *)

\* "Service not stopped?": it asks only if the text says that the service runs.
CheckRestartService(below) ==
  IF gui.text = "running"
    THEN stack' = Append(below, "question") /\ UNCHANGED reasons
    ELSE stack' = below /\ reasons' = reasons \cup {"status"}

AnswerNo ==
  /\ Top = "question"
  /\ stack' = Front(stack)
  /\ reasons' = reasons \cup {"declined"}
  /\ UNCHANGED <<reg, sections, gui, dialog, svc, agent, remover, edited, clicks>>

\* The text is compared before the status is asked for again.
StopOrWait(text) == Append(Front(stack), IF text = "stopped" THEN "start" ELSE "wait")

\* OnStopService; a box says so if the service cannot be stopped.
AnswerYes ==
  /\ Top = "question"
  /\ IF svc.state = "running"
       THEN /\ svc' = [svc EXCEPT !.state = "stopping"] /\ gui' = DisplayStatus("stopping")
            /\ stack' = StopOrWait("stopping")
       ELSE /\ UNCHANGED <<svc, gui>>
            /\ stack' = Append(Front(stack), "stop box")
  /\ UNCHANGED <<reg, sections, dialog, agent, remover, reasons, edited, clicks>>

\* It is not asked whether OnStopService was successful.
StopBoxClosed ==
  /\ Top = "stop box"
  /\ stack' = StopOrWait(gui.text)
  /\ UNCHANGED <<reg, sections, gui, dialog, svc, agent, remover, reasons, edited, clicks>>

\* Mutant of Poll: the status is not asked for.
PollText ==
  /\ Top = "wait"
  /\ gui.text = "stopped"
  /\ stack' = Append(Front(stack), "start")
  /\ UNCHANGED <<reg, sections, gui, dialog, svc, agent, remover, reasons, edited, clicks>>

\* while(text!="Service is stopped."): there is no other way out.
Poll ==
  /\ Top = "wait"
  /\ gui' = QueryServiceStatus
  /\ stack' = IF svc.state = "stopped" THEN Append(Front(stack), "start") ELSE stack
  /\ UNCHANGED <<reg, sections, dialog, svc, agent, remover, reasons, edited, clicks>>

\* OnTimer(2) and OnBnClickedCancel write all the fields if one was edited.
Saved == IF gui.shown # gui.known THEN [reg EXCEPT !.fields = gui.shown] ELSE reg

\* OnStartService: it saves what was edited and plans no question. The box about a
\* refusal is left out: with nothing edited and nothing planned its timers change only
\* the text.
OnStartService ==
  LET quiet == [gui EXCEPT !.known = gui.shown, !.planned = FALSE, !.timer3 = FALSE]
  IN  /\ reg' = Saved
      /\ IF Saved.fields # NoAddress /\ svc = [state |-> "stopped", marked |-> FALSE]
           THEN /\ svc' = [svc EXCEPT !.state = "starting"]
                /\ agent' = [agent EXCEPT !.pc = "host"]
                /\ gui' = [quiet EXCEPT !.installable = FALSE, !.text = "starting"]
                /\ reasons' = {}
           ELSE /\ UNCHANGED <<svc, agent>>
                /\ gui' = quiet
                /\ reasons' = reasons \cup {"refused"}
      /\ UNCHANGED <<sections, dialog, remover, edited>>

Restart == Top = "start" /\ OnStartService /\ stack' = Front(stack) /\ UNCHANGED clicks

ClickStart == ClickWindow /\ gui.text = "stopped" /\ OnStartService /\ UNCHANGED stack

ClickStop ==
  /\ ClickWindow
  /\ gui.text = "running"
  /\ IF svc.state = "running"
       THEN svc' = [svc EXCEPT !.state = "stopping"] /\ gui' = DisplayStatus("stopping")
       ELSE UNCHANGED <<svc, gui>>
  /\ UNCHANGED <<reg, sections, stack, dialog, agent, remover, reasons, edited>>
-----------------------------------------------------------------------------
(* The timers.                                                             *)

OnTimer1 ==
  /\ Pumps
  /\ gui' = QueryServiceStatus
  /\ UNCHANGED <<reg, sections, stack, dialog, svc, agent, remover, reasons, edited, clicks>>

\* Mutant of OnTimer2: the values are not written.
OnTimer2Unwritten ==
  /\ Pumps
  /\ gui.shown # gui.known
  /\ gui' = [gui EXCEPT !.known = gui.shown, !.planned = TRUE, !.timer3 = TRUE]
  /\ UNCHANGED <<reg, sections, stack, dialog, svc, agent, remover, reasons, edited, clicks>>

OnTimer2 ==
  /\ Pumps
  /\ gui.shown # gui.known
  /\ reg' = Saved
  /\ gui' = [gui EXCEPT !.known = gui.shown, !.planned = TRUE, !.timer3 = TRUE]
  /\ UNCHANGED <<sections, stack, dialog, svc, agent, remover, reasons, edited, clicks>>

OnTimer3 ==
  /\ Pumps
  /\ gui.timer3
  /\ gui' = [gui EXCEPT !.planned = FALSE, !.timer3 = FALSE]
  /\ CheckRestartService(stack)
  /\ UNCHANGED <<reg, sections, dialog, svc, agent, remover, edited, clicks>>
-----------------------------------------------------------------------------
(* The main window.                                                        *)

Edit ==
  /\ ClickWindow
  /\ \E t \in Texts \ {gui.shown} :
       /\ gui' = [gui EXCEPT !.shown = t]
       /\ edited' = [text |-> t, lost |-> FALSE]
  /\ UNCHANGED <<reg, sections, stack, dialog, svc, agent, remover, reasons>>

ForwardEvents ==
  /\ ClickWindow
  /\ reg' = [reg EXCEPT !.events = ~@]
  /\ CheckRestartService(stack)
  /\ UNCHANGED <<sections, gui, dialog, svc, agent, remover, edited>>

\* Asks only if the list box has an entry.
ForwardApplication ==
  /\ ClickWindow
  /\ reg' = [reg EXCEPT !.apps = ~@]
  /\ IF gui.list # {} THEN CheckRestartService(stack)
     ELSE UNCHANGED stack /\ reasons' = reasons \cup {"unlisted"}
  /\ UNCHANGED <<sections, gui, dialog, svc, agent, remover, edited>>

UseMirror ==
  /\ ClickWindow
  /\ reg.mode = "udp"
  /\ reg' = [reg EXCEPT !.mirror = ~@]
  /\ CheckRestartService(stack)
  /\ UNCHANGED <<sections, gui, dialog, svc, agent, remover, edited>>

RadioUdp ==
  /\ ClickWindow
  /\ reg' = [reg EXCEPT !.mode = "udp"]
  /\ CheckRestartService(stack)
  /\ UNCHANGED <<sections, gui, dialog, svc, agent, remover, edited>>

\* A box, if the mirror is on; then OnBnClickedUseMirror asks, and then this handler.
RadioUdpPing ==
  /\ ClickWindow
  /\ reg' = [reg EXCEPT !.mode = "ping"]
  /\ IF reg.mirror THEN stack' = <<"mirror box">> /\ UNCHANGED reasons
     ELSE CheckRestartService(<<"check">>)
  /\ UNCHANGED <<sections, gui, dialog, svc, agent, remover, edited>>

MirrorOff ==
  /\ Top = "mirror box"
  /\ reg' = [reg EXCEPT !.mirror = FALSE]
  /\ CheckRestartService(Append(Front(stack), "check"))
  /\ UNCHANGED <<sections, gui, dialog, svc, agent, remover, edited, clicks>>

CheckAgain ==
  /\ Top = "check"
  /\ CheckRestartService(Front(stack))
  /\ UNCHANGED <<reg, sections, gui, dialog, svc, agent, remover, edited, clicks>>

\* AddApplication, and EditApplication: under another name it adds a key.
AddApplication ==
  /\ ClickWindow
  /\ gui.text # "absent"
  /\ \E a \in Applications :
       /\ reg' = [reg EXCEPT !.list = @ \cup {a}]
       /\ gui' = [gui EXCEPT !.list = reg.list \cup {a}]
  /\ CheckRestartService(stack)
  /\ UNCHANGED <<sections, dialog, svc, agent, remover, edited>>

\* The list box is not filled again.
RemoveApplication ==
  /\ ClickWindow
  /\ \E a \in gui.list :
       /\ reg' = [reg EXCEPT !.list = @ \ {a}]
       /\ gui' = [gui EXCEPT !.list = @ \ {a}]
  /\ CheckRestartService(stack)
  /\ UNCHANGED <<sections, dialog, svc, agent, remover, edited>>

\* What was edited since the last save is not going to be saved.
GivenUp == edited' = [edited EXCEPT !.lost = @ \/ gui.shown # gui.known]

\* A service that is there or is about to be deleted is left alone, but keys that are
\* missing are created, and nobody asks. The window is filled again from the registry.
Install ==
  /\ ClickWindow
  /\ gui.installable
  /\ gui.text = "absent"
  /\ svc' = IF svc.state = "absent" THEN [svc EXCEPT !.state = "stopped"] ELSE svc
  /\ sections' \in initRegistry(sections, KeysFail)
  /\ gui' = OnInitMain(svc'.state)
  /\ reasons' = IF sections' = sections THEN reasons ELSE reasons \cup {"installed"}
  /\ GivenUp
  /\ UNCHANGED <<reg, stack, dialog, agent, remover>>

\* DeleteService: a service that is not stopped is deleted when it has stopped.
Deleted == IF svc.state \in {"absent", "stopped"} THEN [state |-> "absent", marked |-> FALSE]
           ELSE [svc EXCEPT !.marked = TRUE]

Uninstall ==
  /\ ClickWindow
  /\ gui.installable
  /\ gui.text # "absent"
  /\ svc' = Deleted
  /\ gui' = DisplayStatus(IF svc.marked THEN "absent" ELSE svc'.state)
  /\ UNCHANGED <<reg, sections, stack, dialog, agent, remover, reasons, edited>>

\* Mutant of Leave: a question that is planned is dropped.
LeaveQuietly(below) ==
  /\ reg' = Saved /\ UNCHANGED edited
  /\ gui' = [gui EXCEPT !.known = gui.shown, !.planned = FALSE, !.timer3 = FALSE]
  /\ IF gui.shown # gui.known THEN CheckRestartService(Append(below, "close"))
     ELSE stack' = Append(below, "close") /\ UNCHANGED reasons

\* OnBnClickedCancel, after its first question. If it asks about an earlier edit it does
\* not save the last one.
Leave(below) ==
  LET closing == Append(below, "close")
  IN  IF gui.planned
        THEN /\ gui' = [gui EXCEPT !.planned = FALSE, !.timer3 = FALSE]
             /\ CheckRestartService(closing)
             /\ GivenUp
             /\ UNCHANGED reg
        ELSE /\ reg' = Saved /\ UNCHANGED edited
             /\ gui' = [gui EXCEPT !.known = gui.shown]
             /\ IF gui.shown # gui.known THEN CheckRestartService(closing)
                ELSE stack' = closing /\ UNCHANGED reasons

OnCancel ==
  /\ ClickWindow
  /\ IF gui.shown = NoAddress
       THEN stack' = <<"quit box">> /\ UNCHANGED <<reg, gui, reasons, edited>>
       ELSE Leave(<< >>)
  /\ UNCHANGED <<sections, dialog, svc, agent, remover>>

QuitAnyway ==
  /\ Top = "quit box"
  /\ Leave(Front(stack))
  /\ UNCHANGED <<sections, dialog, svc, agent, remover, clicks>>

StayOpen ==
  /\ Top = "quit box"
  /\ stack' = Front(stack)
  /\ UNCHANGED <<reg, sections, gui, dialog, svc, agent, remover, reasons, edited, clicks>>

\* The timer goes with the window: nobody asks about what OnTimer(2) saved during the
\* last question, or before the service was installed.
Close ==
  /\ Top = "close"
  /\ gui' = [gui EXCEPT !.open = FALSE, !.planned = FALSE, !.timer3 = FALSE]
  /\ stack' = << >>
  /\ reasons' = IF gui.timer3 THEN reasons \cup {"closed"} ELSE reasons
  /\ UNCHANGED <<reg, sections, dialog, svc, agent, remover, edited, clicks>>

\* A new window, in which the button is enabled until the service is seen to run.
Launch ==
  /\ Click
  /\ ~gui.open
  /\ gui' = [OnInitMain(svc.state) EXCEPT !.installable = svc.state # "running"]
  /\ UNCHANGED <<reg, sections, stack, dialog, svc, agent, remover, reasons, edited>>
-----------------------------------------------------------------------------
(* The dialog of an event log (CConfigLogging).                            *)

OnEventLog ==
  /\ ClickWindow
  /\ gui.text # "absent"
  /\ \E l \in Logs :
       LET shown == OnInitDialog(sections[l])
       IN  dialog' = <<[log |-> l, initial |-> shown, current |-> shown]>>
  /\ stack' = <<"log">>
  /\ UNCHANGED <<reg, sections, gui, svc, agent, remover, reasons, edited>>

IsModified == dialog[1].current # dialog[1].initial

EditDialog ==
  /\ Top = "log"
  /\ Click
  /\ \E e \in Entries :
       \E v \in (IF e[2] = "flag" THEN {0, 1} ELSE Priorities) \ {dialog[1].current[e]} :
         dialog' = [dialog EXCEPT ![1].current[e] = v]
  /\ UNCHANGED <<reg, sections, gui, stack, svc, agent, remover, reasons, edited>>

Defaults ==
  /\ Top = "log"
  /\ Click
  /\ dialog' = [dialog EXCEPT ![1].current = OnDefaults(dialog[1].log)]
  /\ UNCHANGED <<reg, sections, gui, stack, svc, agent, remover, reasons, edited>>

LeaveDialog == stack' = Front(stack) /\ dialog' = << >>

\* OnCancel, confirmed; or OnOK, not confirmed: the caller sees IDCANCEL.
Discard ==
  /\ Top = "log"
  /\ LeaveDialog
  /\ UNCHANGED <<reg, sections, gui, svc, agent, remover, reasons, edited, clicks>>

\* OnOK: everything is written, also what was not changed.
OnOK ==
  /\ Top = "log"
  /\ LET d == dialog[1]
     IN  sections' = [sections EXCEPT ![d.log] = Written(@, d.current, Entries)]
  /\ dialog' = << >>
  /\ CheckRestartService(Front(stack))
  /\ UNCHANGED <<reg, gui, svc, agent, remover, edited, clicks>>

\* OnOK when a write fails: what was written remains, and the dialog stays open.
OnOKFails ==
  /\ KeysFail
  /\ Top = "log"
  /\ LET d == dialog[1]
     IN  \E n \in 0..11 :
           sections' = [sections EXCEPT ![d.log] = Written(@, d.current, FirstEntries(n))]
  /\ reasons' = reasons \cup {"half"}
  /\ UNCHANGED <<reg, gui, stack, dialog, svc, agent, remover, edited, clicks>>
-----------------------------------------------------------------------------
(* The agent: service_start, ntsl_init and AppWatchMain.                   *)

Ended == IF svc.marked THEN [state |-> "absent", marked |-> FALSE]
         ELSE [svc EXCEPT !.state = "stopped"]

AgentAt(from, to) ==
  /\ agent.pc = from
  /\ agent' = [agent EXCEPT !.pc = to]
  /\ UNCHANGED <<gui, stack, dialog, remover, reasons, edited, clicks>>

SyslogHostInRegistryOK ==
  /\ AgentAt("host", IF reg.fields = NoAddress THEN "off" ELSE "init")
  /\ svc' = IF reg.fields = NoAddress THEN Ended ELSE svc
  /\ UNCHANGED <<reg, sections>>

\* initRegistry(NULL): only what is not there is written.
InitRegistry ==
  /\ AgentAt("init", "settings")
  /\ sections' \in initRegistry(sections, KeysFail)
  /\ UNCHANGED <<reg, svc>>

Load(from, to, loaded) ==
  /\ agent.pc = from
  /\ agent' = [pc |-> to, loaded |-> loaded]
  /\ UNCHANGED <<gui, stack, dialog, remover, reasons, edited, clicks>>

ReadSettings ==
  /\ Load("settings", "logs", [agent.loaded EXCEPT !.events = InRegistry.events])
  /\ UNCHANGED <<reg, sections, svc>>

\* initFilterEventArray and eventlog_init.
NtslInit ==
  /\ Load("logs", "report", [agent.loaded EXCEPT !.filter = InRegistry.filter,
                                                !.logs = InRegistry.logs])
  /\ UNCHANGED <<reg, sections, svc>>

\* A log's key cannot be opened: ntsl_die stops the service, and the start goes on.
NtslDie ==
  /\ KeysFail /\ \E l \in Logs : sections[l].key
  /\ AgentAt("logs", "dying")
  /\ svc' = [svc EXCEPT !.state = "stopping"]
  /\ UNCHANGED <<reg, sections>>

ReportRunning ==
  /\ AgentAt("report", "main") \/ AgentAt("dying", "dead")
  /\ svc' = [svc EXCEPT !.state = "running"]
  /\ UNCHANGED <<reg, sections>>

AppWatchMain ==
  /\ Load("main", "apps", [agent.loaded EXCEPT !.to = InRegistry.to,
                                              !.watched = InRegistry.watched])
  /\ UNCHANGED <<reg, sections, svc>>

\* GoToRegKey creates the key of an application that was removed since.
StartApplications ==
  /\ AgentAt("apps", "done")
  /\ reg' = [reg EXCEPT !.list = @ \cup agent.loaded.watched]
  /\ UNCHANGED <<sections, svc>>

\* service_main leaves when it sees that it is to stop.
Stopped ==
  /\ svc.state = "stopping" \/ agent.pc = "dead"
  /\ agent.pc # "dying"
  /\ svc' = Ended
  /\ agent' = Off
  /\ UNCHANGED <<reg, sections, gui, stack, dialog, remover, reasons, edited, clicks>>
-----------------------------------------------------------------------------
(* Others: the service control panel, the boot, SyslogAgent -install and -remove. *)

OthersStart ==
  /\ "start" \in Others /\ Click
  /\ svc = [state |-> "stopped", marked |-> FALSE]
  /\ svc' = [svc EXCEPT !.state = "starting"]
  /\ agent' = [agent EXCEPT !.pc = "host"]
  /\ reasons' = {}
  /\ UNCHANGED <<reg, sections, gui, stack, dialog, remover, edited>>

OthersStop ==
  /\ "stop" \in Others /\ Click
  /\ svc.state = "running"
  /\ svc' = [svc EXCEPT !.state = "stopping"]
  /\ UNCHANGED <<reg, sections, gui, stack, dialog, agent, remover, reasons, edited>>

\* service_install and initRegistry(address): if the service is there, the address
\* is written all the same, and nobody asks.
ServiceInstall ==
  /\ "install" \in Others /\ Click
  /\ svc' = IF svc.state = "absent" THEN [svc EXCEPT !.state = "stopped"] ELSE svc
  /\ \E t \in Texts \ {NoAddress} : reg' = [reg EXCEPT !.fields = t]
  /\ sections' \in initRegistry(sections, KeysFail)
  /\ reasons' = reasons \cup {"installed"}
  /\ UNCHANGED <<gui, stack, dialog, agent, remover, edited>>

\* service_remove: stop if it can be stopped, and wait; delete in any case.
ServiceRemove ==
  /\ "remove" \in Others /\ Click
  /\ ~remover
  /\ IF svc.state = "running"
       THEN svc' = [svc EXCEPT !.state = "stopping"] /\ remover' = TRUE
       ELSE svc' = Deleted /\ UNCHANGED remover
  /\ UNCHANGED <<reg, sections, gui, stack, dialog, agent, reasons, edited>>

RemoveStopped ==
  /\ remover
  /\ svc.state # "stopping"
  /\ svc' = Deleted
  /\ remover' = FALSE
  /\ UNCHANGED <<reg, sections, gui, stack, dialog, agent, reasons, edited, clicks>>
-----------------------------------------------------------------------------
User == \/ AnswerNo \/ AnswerYes \/ StopBoxClosed \/ ClickStart \/ ClickStop \/ Edit
        \/ ForwardEvents \/ ForwardApplication \/ UseMirror \/ RadioUdp \/ RadioUdpPing
        \/ MirrorOff \/ AddApplication \/ RemoveApplication \/ Install \/ Uninstall
        \/ OnCancel \/ QuitAnyway \/ StayOpen \/ Launch
        \/ OnEventLog \/ EditDialog \/ Defaults \/ Discard \/ OnOK \/ OnOKFails

Thread == Poll \/ Restart \/ CheckAgain \/ Close

Agent == \/ SyslogHostInRegistryOK \/ InitRegistry \/ ReadSettings \/ NtslInit \/ NtslDie
         \/ ReportRunning \/ AppWatchMain \/ StartApplications \/ Stopped

Elsewhere == \/ OthersStart \/ OthersStop \/ ServiceInstall \/ ServiceRemove
             \/ RemoveStopped

Next == User \/ Thread \/ OnTimer1 \/ OnTimer2 \/ OnTimer3 \/ Agent \/ Elsewhere

Spec == Init /\ [][Next]_vars

\* The timers go off, the program's thread and the agent run. The user need not answer.
FairSpec ==
  /\ Spec
  /\ WF_vars(Thread) /\ WF_vars(OnTimer2) /\ WF_vars(OnTimer3) /\ WF_vars(Agent)
-----------------------------------------------------------------------------
States == {"absent", "stopped", "starting", "running", "stopping"}
Frames ==
  {"question", "stop box", "wait", "start", "mirror box", "check", "quit box", "close", "log"}

\* Every variable has its type, at most three questions are open at once, and the
\* dialog of a log has its data while it is open.
TypeOK ==
  /\ reg \in [fields : Texts, mode : {"udp", "ping"}, mirror : BOOLEAN,
              events : BOOLEAN, apps : BOOLEAN, list : SUBSET Applications]
  /\ sections \in [Logs -> Keys]
  /\ gui \in [open : BOOLEAN, shown : Texts, known : Texts, planned : BOOLEAN,
              timer3 : BOOLEAN, text : States, installable : BOOLEAN,
              list : SUBSET Applications]
  /\ \A i \in DOMAIN stack : stack[i] \in Frames
  /\ Cardinality({i \in DOMAIN stack : stack[i] = "question"}) <= 3
  /\ (dialog # << >>) <=> \E i \in DOMAIN stack : stack[i] = "log"
  /\ svc \in [state : States, marked : BOOLEAN]
  /\ agent.pc \in {"off", "host", "init", "settings", "logs", "dying", "dead", "report",
                   "main", "apps", "done"}
  /\ remover \in BOOLEAN
  /\ edited \in [text : Texts, lost : BOOLEAN]
  /\ clicks \in 0..MaxClicks

\* The dialog and the agent read a log's key alike, also one that was written in part
\* only, except for the priority of Success and a priority of 0.
ReadersAgree ==
  \A l \in Logs : sections[l].key =>
    \A e \in Entries :
      \/ OnInitDialog(sections[l])[e] = eventlog_read_reg(sections[l])[e]
      \/ e = <<"Success", "priority">> /\ sections[l].values[e] = None
      \/ e[2] = "priority" /\ sections[l].values[e] = 0

\* If the agent runs with other settings than those in the registry and nothing is
\* under way, then since it began the user declined a restart, a start was refused, or
\* one of the ways around the question was taken, each of which is named.
StaleExplained ==
  (/\ agent.pc = "done" /\ svc.state = "running"
   /\ stack = << >> /\ ~gui.timer3
   /\ agent.loaded # InRegistry)
  => reasons # {}

\* Only while the box about it is open, the mirror is on without plain UDP.
MirrorNeedsUdp ==
  reg.mirror /\ reg.mode # "udp" => \E i \in DOMAIN stack : stack[i] = "mirror box"

\* The loop after a restart was agreed to waits for what nobody is going to do.
Hopeless == Top = "wait" /\ (svc.state \notin {"stopped", "stopping"} \/ svc.marked)

\* What the user enters and the program does not yet know comes to the registry,
\* whatever boxes are open and whoever else writes there, unless the user enters
\* something else first or the program waits in vain. In two places the program gives an
\* edit up: after Install the window is filled from the registry again, and with a
\* question planned it is closed without a save.
EditsSaved ==
  \A t \in Texts :
    edited.text = t /\ gui.shown = t /\ gui.known # t
    ~> reg.fields = t \/ edited.text # t \/ edited.lost \/ Hopeless

\* A restart that was agreed to comes to its start, unless it waits in vain.
RestartEnds == Top = "wait" ~> Top # "wait" \/ Hopeless

\* "//if different from registry, save changes": the program is not closed with
\* edits that were not saved. The code does not keep this.
QuitSaves == [][gui.open /\ ~gui'.open => gui.shown = gui.known]_vars
=============================================================================
