-------------------------- MODULE ServiceControlProofs --------------------------
(***************************************************************************)
(* Proofs about ServiceControl. That no thread takes a wait which timed    *)
(* out for a stop rests on the event never being reset: CreateEvent, which *)
(* makes it, comes before any thread can set it or ask for it. The         *)
(* invariant therefore tells the time before CreateEvent (Early) from the  *)
(* time after, when no label is left that leads to it (Late). That the     *)
(* states Windows is told follow one another rests on who is about to      *)
(* report one, and on what comes before each report.                       *)
(***************************************************************************)
EXTENDS ServiceControl, SequenceTheorems, TLAPS

LateLabels == Labels \ {"main", "start", "create"}

\* What the service thread goes through up to CreateEvent.
EarlyMain ==
  \/ Len(stack[Main]) = 1 /\ stack[Main][1] \in {"main", "start", "create"}
  \/ Len(stack[Main]) = 2 /\ stack[Main][1] = "set" /\ stack[Main][2] \in {"start", "create"}

\* Windows may already interrogate.
EarlyControl ==
  \/ Len(stack[Control]) = 1 /\ stack[Control][1] = "idle"
  \/ Len(stack[Control]) = 2 /\ stack[Control][1] \in {"report", "set"}
                             /\ stack[Control][2] = "idle"

Early ==
  /\ EarlyMain /\ EarlyControl
  /\ \A t \in Workers : stack[t] = << >>
  /\ status.state # "running" /\ scm.state # "running" /\ asked # "running"
  /\ event = "none"
  /\ ServiceStop = FALSE
  /\ \A t \in Threads : answer[t] = FALSE

Late == stack[Main] \in Seq(LateLabels)

\* A yes means that the event is set.
Answers == NoFalseStop /\ \A t \in Threads : answer[t] => event = "set"

Clock == setBack \/ age >= 0

Inv == TypeOK /\ Clock /\ Answers /\ (Early \/ Late)
-----------------------------------------------------------------------------
(* What a step does to the stack of the thread that takes it.              *)

\* A stack whose first label is replaced is one of the same labels.
LEMMA GotoType ==
  ASSUME NEW S, NEW s \in Seq(S), s # << >>, NEW labels \in Seq(S)
  PROVE  labels \o Tail(s) \in Seq(S)
OBVIOUS

\* A single label replaced by two.
LEMMA OneLabel ==
  ASSUME NEW S, NEW s \in Seq(S), Len(s) = 1, NEW a \in S, NEW b \in S
  PROVE  LET u == (<<a>> \o <<b>>) \o Tail(s)
         IN  u \in Seq(S) /\ Len(u) = 2 /\ u[1] = a /\ u[2] = b
<1> DEFINE p == <<a>> \o <<b>>
           r == Tail(s)
<1>1. p \in Seq(S) /\ Len(p) = 2
  OBVIOUS
<1>2. p[1] = a /\ p[2] = b
  OBVIOUS
<1>3. r \in Seq(S) /\ Len(r) = 0
  OBVIOUS
<1> HIDE DEF p, r
<1>4. p \o r \in Seq(S) /\ Len(p \o r) = 2
  BY <1>1, <1>3
<1>5. (p \o r)[1] = a /\ (p \o r)[2] = b
  BY <1>1, <1>2, <1>3
<1>6. QED BY <1>4, <1>5 DEF p, r

\* The first of two labels removed.
LEMMA TwoLabels ==
  ASSUME NEW S, NEW s \in Seq(S), Len(s) = 2
  PROVE  LET u == << >> \o Tail(s)
         IN  u \in Seq(S) /\ Len(u) = 1 /\ u[1] = s[2]
<1> DEFINE r == Tail(s)
           e == << >>
<1>1. r \in Seq(S) /\ Len(r) = 1 /\ r[1] = s[2]
  <2>1. s # << >>
    OBVIOUS
  <2>2. r \in Seq(S) /\ Len(r) = Len(s) - 1 /\ \A i \in 1..Len(r) : r[i] = s[i + 1]
    BY <2>1, HeadTailProperties
  <2>3. QED BY <2>2
<1>2. e \in Seq(S) /\ Len(e) = 0
  OBVIOUS
<1> HIDE DEF r, e
<1>3. e \o r \in Seq(S) /\ Len(e \o r) = 1 /\ (e \o r)[1] = s[2]
  BY <1>1, <1>2
<1>4. QED BY <1>3 DEF r, e

\* Thread t leaves its label for others, all of them in S.
Moves(t, S) ==
  stack[t] # << >> /\ \E labels \in Seq(S) : Goto(t, labels)

\* The other threads stay where they are.
LEMMA MovesType ==
  ASSUME stack \in [Threads -> Seq(Labels)], NEW t \in Threads, Moves(t, Labels)
  PROVE  /\ stack' \in [Threads -> Seq(Labels)]
         /\ \A u \in Threads \ {t} : stack'[u] = stack[u]
<1>1. PICK labels \in Seq(Labels) : stack' = [stack EXCEPT ![t] = labels \o Tail(stack[t])]
  BY DEF Moves, Goto
<1>2. labels \o Tail(stack[t]) \in Seq(Labels)
  <2>1. stack[t] \in Seq(Labels) /\ stack[t] # << >>
    BY DEF Moves
  <2>2. QED BY <2>1, GotoType
<1>3. QED BY <1>1, <1>2

\* No thread brings back a label that it does not name.
LEMMA MovesLate ==
  ASSUME stack \in [Threads -> Seq(Labels)], NEW t \in Threads, Moves(t, LateLabels), Late
  PROVE  Late'
<1>1. PICK labels \in Seq(LateLabels) : stack' = [stack EXCEPT ![t] = labels \o Tail(stack[t])]
  BY DEF Moves, Goto
<1>2. CASE t = Main
  <2>1. stack[Main] \in Seq(LateLabels) /\ stack[Main] # << >>
    BY <1>2 DEF Moves, Late
  <2>2. labels \o Tail(stack[Main]) \in Seq(LateLabels)
    BY <2>1, GotoType
  <2>3. QED BY <1>1, <1>2, <2>2 DEF Late
<1>3. CASE t # Main
  BY <1>1, <1>3 DEF Late, Threads
<1>4. QED BY <1>2, <1>3

\* Late labels are labels.
LEMMA LateMoves == ASSUME NEW t, Moves(t, LateLabels) PROVE Moves(t, Labels)
<1>1. PICK labels \in Seq(LateLabels) : Goto(t, labels)
  BY DEF Moves
<1>2. labels \in Seq(Labels)
  BY DEF LateLabels
<1>3. QED BY <1>1, <1>2 DEF Moves

\* The label a thread is at is one of its stack's.
LEMMA LateHead ==
  ASSUME Late, NEW label, At(Main, label)
  PROVE  label \in LateLabels
BY DEF Late, At

\* Where service_halting leads to is late.
LEMMA Branches ==
  ASSUME NEW t
  PROVE  Halted(t) \in Seq(LateLabels) /\ GoesOn(t) \in Seq(LateLabels)
<1>1. {"end", "ask", "work"} \subseteq LateLabels
  BY DEF LateLabels, Labels
<1>2. << >> \in Seq(LateLabels) /\ \A label \in LateLabels : <<label>> \in Seq(LateLabels)
  OBVIOUS
<1>3. QED BY <1>1, <1>2 DEF Halted, GoesOn

\* Sequences of up to three labels.
LEMMA Tuples ==
  ASSUME NEW S
  PROVE  /\ << >> \in Seq(S)
         /\ \A a \in S : <<a>> \in Seq(S)
         /\ \A a, b \in S : <<a, b>> \in Seq(S)
         /\ \A a, b, c \in S : <<a, b, c>> \in Seq(S)
OBVIOUS

\* service_report_status leads nowhere but to SetServiceStatus.
LEMMA FillMoves ==
  ASSUME NEW t, NEW state, NEW code, NEW next \in Seq(LateLabels), stack[t] # << >>,
         Fill(t, state, code, next)
  PROVE  Moves(t, LateLabels)
<1>1. <<"set">> \o next \in Seq(LateLabels)
  <2>1. <<"set">> \in Seq(LateLabels)
    BY Tuples DEF LateLabels, Labels
  <2>2. QED BY <2>1
<1>2. QED BY <1>1 DEF Fill, Moves

\* Every action of a thread but the first two of the service thread moves it to
\* late labels.
LEMMA ThreadMoves ==
  ASSUME stack \in [Threads -> Seq(Labels)], NEW t \in Threads, Thread(t)
  PROVE  Moves(t, LateLabels)
<1> USE Tuples DEF At
<1>0. {"signal", "stop with error", "wait", "assign", "return"} \subseteq LateLabels
  BY DEF LateLabels, Labels
<1>1. CASE SetServiceStatus(t)
  BY <1>1 DEF SetServiceStatus, Moves
<1>2. CASE service_stop(t)
  <2>1. CASE Goto(t, << >>)
    BY <1>2, <2>1 DEF service_stop, Moves
  <2>2. CASE Fill(t, "stop_pending", 0, <<"signal">>)
    BY <1>0, <1>2, <2>2, FillMoves DEF service_stop
  <2>3. QED BY <1>2, <2>1, <2>2 DEF service_stop
<1>3. CASE service_stop_with_error(t)
  BY <1>0, <1>3, FillMoves DEF service_stop_with_error
<1>4. CASE SetEvent(t)
  BY <1>4 DEF SetEvent, Moves
<1>5. CASE Ask(t)
  BY <1>0, <1>5, Branches DEF Ask, Moves
<1>6. CASE Wait(t)
  BY <1>0, <1>6 DEF Wait, Moves
<1>7. CASE Assign(t)
  BY <1>0, <1>7 DEF Assign, Moves
<1>8. CASE Return(t)
  <2>1. (IF ServiceStop THEN Halted(t) ELSE GoesOn(t)) \in Seq(LateLabels)
    BY Branches
  <2>2. QED BY <1>8, <2>1 DEF Return, Moves
<1>9. QED BY <1>1, <1>2, <1>3, <1>4, <1>5, <1>6, <1>7, <1>8 DEF Thread

\* The same for the thread of service_ctrl,
LEMMA ControlMoves ==
  ASSUME ControlThread
  PROVE  Moves(Control, LateLabels)
<1> USE Tuples DEF At
<1>0. {"stop", "unload", "idle", "report"} \subseteq LateLabels
  BY DEF LateLabels, Labels
<1>1. CASE StopControl
  BY <1>0, <1>1 DEF StopControl, Moves
<1>2. CASE ernoUnloadLoadLibrary
  BY <1>2 DEF ernoUnloadLoadLibrary, Moves
<1>3. CASE InterrogateControl
  BY <1>0, <1>3 DEF InterrogateControl, Moves
<1>4. CASE ReportAsked
  BY <1>4, FillMoves DEF ReportAsked
<1>5. QED BY <1>1, <1>2, <1>3, <1>4 DEF ControlThread

\* for the other threads,
LEMMA WorkerMoves ==
  ASSUME NEW t \in Workers, Worker(t)
  PROVE  Moves(t, LateLabels)
<1> USE Tuples DEF At
<1>0. {"stop", "stop with error", "ask"} \subseteq LateLabels
  BY DEF LateLabels, Labels
<1>1. CASE Works(t)
  BY <1>0, <1>1 DEF Works, Moves
<1>2. CASE WorkerError(t)
  BY <1>0, <1>2 DEF WorkerError, Moves
<1>3. CASE WorkerDies(t)
  BY <1>0, <1>3 DEF WorkerDies, Moves
<1>4. QED BY <1>1, <1>2, <1>3 DEF Worker

\* and for the rest of the service thread.
LEMMA MainMoves ==
  ASSUME MainThread, ~service_main, ~service_start, ~ntsl_run
  PROVE  Moves(Main, LateLabels)
<1> USE Tuples DEF At
<1>0. {"set", "host", "end", "init", "running", "stop", "run"} \subseteq LateLabels
  BY DEF LateLabels, Labels
<1>1. CASE CreateEvent
  BY <1>0, <1>1 DEF CreateEvent, Moves
<1>2. CASE StartFails
  BY <1>0, <1>2 DEF StartFails, Moves
<1>3. CASE SyslogHostInRegistryOK
  BY <1>0, <1>3 DEF SyslogHostInRegistryOK, Moves
<1>4. CASE NoSyslogHost
  BY <1>0, <1>4, FillMoves DEF NoSyslogHost
<1>5. CASE ntsl_init
  BY <1>0, <1>5 DEF ntsl_init, Moves
<1>6. CASE InitDies
  BY <1>0, <1>6 DEF InitDies, Moves
<1>7. CASE ReportRunning
  BY <1>0, <1>7, FillMoves DEF ReportRunning
<1>8. CASE MainException
  BY <1>0, <1>8 DEF MainException, Moves
<1>9. CASE ReportStopped
  BY <1>0, <1>9, FillMoves DEF ReportStopped
<1>10. QED
  BY <1>1, <1>2, <1>3, <1>4, <1>5, <1>6, <1>7, <1>8, <1>9 DEF MainThread
-----------------------------------------------------------------------------
(* Types.                                                                  *)

\* The first two actions go to labels of the start.
LEMMA FirstMoves ==
  ASSUME service_main \/ service_start
  PROVE  Moves(Main, Labels)
<1>1. {"start", "create", "set"} \subseteq Labels
  BY DEF Labels
<1>2. \A a \in Labels : <<"set">> \o <<a>> \in Seq(Labels)
  <2>1. <<"set">> \in Seq(Labels) /\ \A a \in Labels : <<a>> \in Seq(Labels)
    BY <1>1, Tuples
  <2>2. QED BY <2>1
<1>3. CASE service_main
  BY <1>1, <1>2, <1>3 DEF service_main, Fill, Moves, At
<1>4. CASE service_start
  BY <1>1, <1>2, <1>4 DEF service_start, Fill, Moves, At
<1>5. QED BY <1>3, <1>4

\* Everybody is a thread.
LEMMA ThreadNames == Main \in Threads /\ Control \in Threads /\ Workers \subseteq Threads
BY DEF Threads

\* When the threads start the service has started.
LEMMA RunStacks ==
  ASSUME stack \in [Threads -> Seq(Labels)], ntsl_run
  PROVE  stack' \in [Threads -> Seq(Labels)] /\ Late'
<1>1. \A t \in Threads : GoesOn(t) \in Seq(Labels)
  BY Branches DEF LateLabels
<1>2. stack' = [t \in Threads |-> IF t = Control THEN stack[t] ELSE GoesOn(t)]
  BY DEF ntsl_run
<1>3. stack'[Main] \in Seq(LateLabels)
  BY <1>2, Branches, ThreadNames, ServiceControlAssumption
<1>4. QED BY <1>1, <1>2, <1>3 DEF Late

\* The stacks keep their type.
LEMMA StackStep ==
  ASSUME stack \in [Threads -> Seq(Labels)], [Next]_vars
  PROVE  stack' \in [Threads -> Seq(Labels)]
<1>1. CASE UNCHANGED stack
  BY <1>1
<1>2. ASSUME NEW t \in Threads, Moves(t, Labels) PROVE stack' \in [Threads -> Seq(Labels)]
  BY <1>2, MovesType
<1>3. CASE Environment
  BY <1>1, <1>3 DEF Environment, Tick, ClockBack
<1>4. ASSUME NEW t \in Threads, Thread(t) PROVE stack' \in [Threads -> Seq(Labels)]
  BY <1>2, <1>4, ThreadMoves, LateMoves
<1>5. CASE MainThread
  <2>1. CASE service_main \/ service_start
    BY <1>2, <2>1, FirstMoves, ThreadNames
  <2>2. CASE ntsl_run
    BY <2>2, RunStacks
  <2>3. CASE ~service_main /\ ~service_start /\ ~ntsl_run
    BY <1>2, <1>5, <2>3, MainMoves, LateMoves, ThreadNames
  <2>4. QED BY <2>1, <2>2, <2>3
<1>6. CASE ControlThread
  BY <1>2, <1>6, ControlMoves, LateMoves, ThreadNames
<1>7. ASSUME NEW t \in Workers, Worker(t) PROVE stack' \in [Threads -> Seq(Labels)]
  BY <1>2, <1>7, WorkerMoves, LateMoves, ThreadNames
<1>8. QED BY <1>1, <1>3, <1>4, <1>5, <1>6, <1>7 DEF Next, vars

\* The variables other than stack, by the kind of their values.
StatusOK ==
  /\ status \in Status /\ scm \in Status
  /\ event \in {"none", "reset", "set"} /\ asked \in States

ClockOK == setBack \in BOOLEAN /\ age \in -Back..2 /\ Clock

FlagsOK ==
  /\ ServiceStop \in BOOLEAN
  /\ answer \in [Threads -> BOOLEAN]
  /\ stopping \in BOOLEAN /\ meddled \in BOOLEAN

\* What is reported keeps its type.
LEMMA StatusStep == ASSUME StatusOK, [Next]_vars PROVE StatusOK'
<1> USE DEF StatusOK, shared, asking, ghost, Status, States, Fill
<1>1. CASE Environment
  BY <1>1 DEF Environment, Tick, ClockBack
<1>2. ASSUME NEW t \in Threads, Thread(t) PROVE StatusOK'
  <2>1. CASE SetServiceStatus(t)
    BY <2>1 DEF SetServiceStatus
  <2>2. CASE service_stop(t)
    BY <2>2 DEF service_stop
  <2>3. CASE service_stop_with_error(t)
    <3>1. status' = [state |-> "stop_pending", code |-> 1]
      BY <2>3 DEF service_stop_with_error
    <3>2. status' \in Status
      BY <3>1
    <3>3. UNCHANGED <<scm, event, asked>>
      BY <2>3 DEF service_stop_with_error
    <3>4. QED BY <3>2, <3>3
  <2>4. CASE SetEvent(t)
    BY <2>4 DEF SetEvent
  <2>5. CASE Ask(t) \/ Wait(t) \/ Assign(t) \/ Return(t)
    BY <2>5 DEF Ask, Wait, Assign, Return
  <2>6. QED BY <1>2, <2>1, <2>2, <2>3, <2>4, <2>5 DEF Thread
<1>3. CASE MainThread
  <2>1. CASE service_main \/ service_start \/ CreateEvent \/ StartFails
    BY <2>1 DEF service_main, service_start, CreateEvent, StartFails
  <2>2. CASE SyslogHostInRegistryOK \/ NoSyslogHost \/ ntsl_init \/ InitDies
    BY <2>2 DEF SyslogHostInRegistryOK, NoSyslogHost, ntsl_init, InitDies
  <2>3. CASE ReportRunning \/ ntsl_run \/ MainException \/ ReportStopped
    BY <2>3 DEF ReportRunning, ntsl_run, MainException, ReportStopped
  <2>4. QED BY <1>3, <2>1, <2>2, <2>3 DEF MainThread
<1>4. CASE ControlThread
  BY <1>4 DEF ControlThread, StopControl, ernoUnloadLoadLibrary, InterrogateControl,
              ReportAsked
<1>5. ASSUME NEW t \in Workers, Worker(t) PROVE StatusOK'
  BY <1>5 DEF Worker, Works, WorkerError, WorkerDies
<1>6. CASE UNCHANGED vars
  BY <1>6 DEF vars
<1>7. QED BY <1>1, <1>2, <1>3, <1>4, <1>5, <1>6 DEF Next

\* Time keeps its type; only a clock set back makes it negative.
LEMMA ClockStep == ASSUME ClockOK, [Next]_vars PROVE ClockOK'
<1> USE ServiceControlAssumption DEF ClockOK, Clock, shared, asking, ghost, Fill
<1>1. CASE UNCHANGED <<setBack, age>>
  BY <1>1
<1>2. CASE Tick
  BY <1>2 DEF Tick
<1>3. CASE ClockBack
  BY <1>3 DEF ClockBack
<1>4. ASSUME NEW t \in Threads, Ask(t) PROVE ClockOK'
  BY <1>4 DEF Ask
<1>5. CASE MainThread \/ ControlThread \/ \E t \in Workers : Worker(t)
  <2>1. UNCHANGED <<setBack, age>>
    BY <1>5 DEF MainThread, service_main, service_start, CreateEvent, StartFails,
       SyslogHostInRegistryOK, NoSyslogHost, ntsl_init, InitDies, ReportRunning, ntsl_run,
       MainException, ReportStopped, ControlThread, StopControl, ernoUnloadLoadLibrary,
       InterrogateControl, ReportAsked, Worker, Works, WorkerError, WorkerDies
  <2>2. QED BY <1>1, <2>1
<1>6. ASSUME NEW t \in Threads, Thread(t), ~Ask(t) PROVE ClockOK'
  <2>1. UNCHANGED <<setBack, age>>
    BY <1>6 DEF Thread, SetServiceStatus, service_stop, service_stop_with_error, SetEvent,
                Wait, Assign, Return
  <2>2. QED BY <1>1, <2>1
<1>7. QED
  BY <1>1, <1>2, <1>3, <1>4, <1>5, <1>6 DEF Next, Environment, vars

\* The Boolean variables keep their type.
LEMMA FlagsStep == ASSUME FlagsOK, [Next]_vars PROVE FlagsOK'
<1> USE DEF FlagsOK, shared, asking, ghost, Fill, Stops
<1>1. CASE Environment
  BY <1>1, Zenon DEF Environment, Tick, ClockBack
<1>2. ASSUME NEW t \in Threads, Thread(t) PROVE FlagsOK'
  <2>1. CASE SetServiceStatus(t) \/ service_stop(t) \/ service_stop_with_error(t) \/ SetEvent(t)
    BY <2>1, Zenon DEF SetServiceStatus, service_stop, service_stop_with_error, SetEvent
  <2>2. CASE Ask(t) \/ Return(t)
    BY <2>2, Zenon DEF Ask, Return
  <2>3. CASE Wait(t)
    BY <2>3, Zenon DEF Wait
  <2>4. CASE Assign(t)
    BY <1>2, <2>4, Zenon DEF Assign
  <2>5. QED BY <1>2, <2>1, <2>2, <2>3, <2>4 DEF Thread
<1>3. CASE MainThread
  <2>1. CASE service_main \/ service_start \/ CreateEvent \/ StartFails
    BY <2>1, Zenon DEF service_main, service_start, CreateEvent, StartFails
  <2>2. CASE SyslogHostInRegistryOK \/ NoSyslogHost \/ ntsl_init \/ InitDies
    BY <2>2, Zenon DEF SyslogHostInRegistryOK, NoSyslogHost, ntsl_init, InitDies
  <2>3. CASE ReportRunning \/ ntsl_run \/ MainException \/ ReportStopped
    BY <2>3, Zenon DEF ReportRunning, ntsl_run, MainException, ReportStopped
  <2>4. QED BY <1>3, <2>1, <2>2, <2>3 DEF MainThread
<1>4. CASE ControlThread
  BY <1>4, Zenon DEF ControlThread, StopControl, ernoUnloadLoadLibrary,
                     InterrogateControl, ReportAsked
<1>5. ASSUME NEW t \in Workers, Worker(t) PROVE FlagsOK'
  BY <1>5, Zenon DEF Worker, Works, WorkerError, WorkerDies
<1>6. CASE UNCHANGED vars
  BY <1>6, Zenon DEF vars
<1>7. QED BY <1>1, <1>2, <1>3, <1>4, <1>5, <1>6 DEF Next

\* Together:
LEMMA TypeStep == ASSUME TypeOK, Clock, [Next]_vars PROVE TypeOK' /\ Clock'
<1>1. StatusOK /\ ClockOK /\ FlagsOK
  BY DEF TypeOK, StatusOK, ClockOK, FlagsOK
<1>2. StatusOK' /\ ClockOK' /\ FlagsOK'
  BY <1>1, StatusStep, ClockStep, FlagsStep
<1>3. stack' \in [Threads -> Seq(Labels)]
  BY StackStep DEF TypeOK
<1>4. QED BY <1>2, <1>3 DEF TypeOK, StatusOK, ClockOK, FlagsOK
-----------------------------------------------------------------------------
(* A yes means that the event is set.                                      *)

\* Only five actions change the event or an answer.
LEMMA AnswersFrame ==
  ASSUME [Next]_vars, ~CreateEvent, ~service_start,
         \A t \in Threads : ~SetEvent(t) /\ ~Wait(t) /\ ~Assign(t)
  PROVE  UNCHANGED <<event, ServiceStop, answer>>
<1> USE DEF shared, asking, Fill
<1>1. CASE Environment
  BY <1>1 DEF Environment, Tick, ClockBack
<1>2. ASSUME NEW t \in Threads, Thread(t) PROVE UNCHANGED <<event, ServiceStop, answer>>
  BY <1>2 DEF Thread, SetServiceStatus, service_stop, service_stop_with_error, Ask, Return
<1>3. CASE MainThread
  BY <1>3 DEF MainThread, service_main, StartFails,
     SyslogHostInRegistryOK, NoSyslogHost, ntsl_init, InitDies, ReportRunning, ntsl_run,
     MainException, ReportStopped
<1>4. CASE ControlThread
  BY <1>4 DEF ControlThread, StopControl, ernoUnloadLoadLibrary, InterrogateControl,
              ReportAsked
<1>5. ASSUME NEW t \in Workers, Worker(t) PROVE UNCHANGED <<event, ServiceStop, answer>>
  BY <1>5 DEF Worker, Works, WorkerError, WorkerDies
<1>6. CASE UNCHANGED vars
  BY <1>6 DEF vars
<1>7. QED BY <1>1, <1>2, <1>3, <1>4, <1>5, <1>6 DEF Next

\* CreateEvent finds nobody who was told yes; the others hand on what is true.
LEMMA AnswersStep == ASSUME Inv, [Next]_vars PROVE Answers'
<1> USE DEF Answers, NoFalseStop, shared, asking, Fill
<1>1. CASE CreateEvent
  <2>1. ~Late
    BY <1>1, LateHead DEF CreateEvent, LateLabels
  <2>2. ServiceStop = FALSE /\ \A t \in Threads : answer[t] = FALSE
    BY <2>1 DEF Inv, Early
  <2>3. UNCHANGED <<ServiceStop, answer>>
    BY <1>1 DEF CreateEvent
  <2>4. QED BY <2>2, <2>3
<1>2. CASE service_start
  BY <1>2 DEF service_start, Inv
<1>3. ASSUME NEW t \in Threads, SetEvent(t) PROVE Answers'
  BY <1>3 DEF SetEvent
<1>4. ASSUME NEW t \in Threads, Wait(t) PROVE Answers'
  <2>1. ServiceStop => event = "set"
    BY DEF Inv
  <2>2. \A u \in Threads : answer'[u] => event = "set"
    <3> TAKE u \in Threads
    <3>1. CASE u = t
      BY <1>4, <3>1 DEF Wait, Inv, TypeOK
    <3>2. CASE u # t
      BY <1>4, <3>2 DEF Wait, Inv, TypeOK
    <3>3. QED BY <3>1, <3>2
  <2>3. UNCHANGED <<event, ServiceStop>>
    BY <1>4 DEF Wait
  <2>4. QED BY <2>1, <2>2, <2>3
<1>5. ASSUME NEW t \in Threads, Assign(t) PROVE Answers'
  <2>1. answer[t] => event = "set"
    BY <1>5 DEF Inv
  <2>2. \A u \in Threads : answer[u] => event = "set"
    BY DEF Inv
  <2>3. ServiceStop' = answer[t] /\ UNCHANGED <<event, answer>>
    BY <1>5 DEF Assign
  <2>4. QED BY <2>1, <2>2, <2>3, Zenon
<1>6. CASE UNCHANGED <<event, ServiceStop, answer>>
  BY <1>6 DEF Inv
<1>7. QED BY <1>1, <1>2, <1>3, <1>4, <1>5, <1>6, AnswersFrame
-----------------------------------------------------------------------------
(* Before and after CreateEvent.                                           *)

\* There is no way back to CreateEvent.
LEMMA LateStep == ASSUME TypeOK, Late, [Next]_vars PROVE Late'
<1> USE ThreadNames DEF TypeOK
<1>1. CASE UNCHANGED stack
  BY <1>1 DEF Late
<1>2. ASSUME NEW t \in Threads, Moves(t, LateLabels) PROVE Late'
  BY <1>2, MovesLate
<1>3. CASE Environment
  BY <1>1, <1>3 DEF Environment, Tick, ClockBack
<1>4. ASSUME NEW t \in Threads, Thread(t) PROVE Late'
  BY <1>2, <1>4, ThreadMoves
<1>5. CASE MainThread
  <2>1. ~service_main /\ ~service_start
    BY LateHead DEF service_main, service_start, LateLabels
  <2>2. CASE ntsl_run
    BY <2>2, RunStacks
  <2>3. CASE ~ntsl_run
    BY <1>2, <1>5, <2>1, <2>3, MainMoves
  <2>4. QED BY <2>2, <2>3
<1>6. CASE ControlThread
  BY <1>2, <1>6, ControlMoves
<1>7. ASSUME NEW t \in Workers, Worker(t) PROVE Late'
  BY <1>2, <1>7, WorkerMoves
<1>8. QED BY <1>1, <1>3, <1>4, <1>5, <1>6, <1>7 DEF Next, vars

\* The parts of Early that are not about the stacks.
Quiet ==
  /\ status.state # "running" /\ scm.state # "running" /\ asked # "running"
  /\ event = "none"
  /\ ServiceStop = FALSE
  /\ \A t \in Threads : answer[t] = FALSE

\* A thread reports the structure it has filled.
LEMMA EarlySet ==
  ASSUME Inv, Early, NEW t \in Threads, Thread(t)
  PROVE  Early'
<1> USE ThreadNames, ServiceControlAssumption
<1>1. t = Main \/ t = Control
  <2>1. CASE t \in Workers
    <3>1. stack[t] = << >>
      BY <2>1 DEF Early
    <3>2. QED
      BY <3>1 DEF Thread, At, SetServiceStatus, service_stop, service_stop_with_error,
                  SetEvent, Ask, Wait, Assign, Return
  <2>2. QED BY <2>1 DEF Threads
<1>2. Len(stack[t]) = 2 /\ stack[t] \in Seq(Labels) /\ SetServiceStatus(t)
  <2>1. stack[t] \in Seq(Labels)
    BY DEF Inv, TypeOK
  <2>2. /\ Len(stack[t]) = 1 \/ Len(stack[t]) = 2
        /\ stack[t][1] \in {"main", "start", "create", "idle", "report", "set"}
        /\ Len(stack[t]) = 1 => stack[t][1] # "set"
    BY <1>1 DEF Early, EarlyMain, EarlyControl
  <2>3. Head(stack[t]) = stack[t][1]
    BY <2>1, <2>2
  <2>4. ~At(t, "stop") /\ ~At(t, "stop with error") /\ ~At(t, "signal") /\ ~At(t, "ask")
        /\ ~At(t, "wait") /\ ~At(t, "assign") /\ ~At(t, "return")
    BY <2>2, <2>3 DEF At
  <2>5. SetServiceStatus(t)
    BY <2>4 DEF Thread, service_stop, service_stop_with_error, SetEvent, Ask, Wait,
                Assign, Return
  <2>6. stack[t][1] = "set"
    BY <2>3, <2>5 DEF SetServiceStatus, At
  <2>7. QED BY <2>1, <2>2, <2>5, <2>6
<1>3. /\ stack'[t] = << >> \o Tail(stack[t])
      /\ \A u \in Threads \ {t} : stack'[u] = stack[u]
  BY <1>2 DEF SetServiceStatus, Goto, Inv, TypeOK
<1>4. Len(stack'[t]) = 1 /\ stack'[t][1] = stack[t][2]
  BY <1>2, <1>3, TwoLabels
<1>5. Quiet'
  BY <1>2 DEF SetServiceStatus, Quiet, Early, asking
<1>6. EarlyMain' /\ EarlyControl'
  <2>1. CASE t = Main
    BY <1>2, <1>3, <1>4, <2>1 DEF Early, EarlyMain, EarlyControl
  <2>2. CASE t = Control
    BY <1>2, <1>3, <1>4, <2>2 DEF Early, EarlyMain, EarlyControl
  <2>3. QED BY <1>1, <2>1, <2>2
<1>7. \A u \in Workers : stack'[u] = << >>
  BY <1>1, <1>3 DEF Early, Threads
<1>8. QED BY <1>5, <1>6, <1>7 DEF Early, Quiet

\* The service thread reports that it starts, fails, or makes the event.
LEMMA EarlyMainStep ==
  ASSUME Inv, Early, MainThread
  PROVE  Early' \/ Late'
<1> USE ThreadNames, ServiceControlAssumption
<1>1. stack[Main] \in Seq(Labels) /\ Len(stack[Main]) \in {1, 2}
      /\ stack[Main][1] \in {"main", "start", "create", "set"}
      /\ (Len(stack[Main]) = 1 <=> stack[Main][1] # "set")
  BY DEF Inv, TypeOK, Early, EarlyMain
<1>2. Head(stack[Main]) = stack[Main][1]
  BY <1>1
<1>3. service_main \/ service_start \/ CreateEvent \/ StartFails
  BY <1>1, <1>2 DEF MainThread, At, SyslogHostInRegistryOK, NoSyslogHost, ntsl_init,
                    InitDies, ReportRunning, ntsl_run, MainException, ReportStopped
<1>4. Len(stack[Main]) = 1
  BY <1>1, <1>2, <1>3 DEF At, service_main, service_start, CreateEvent, StartFails
<1>5. ASSUME NEW labels \in Seq(LateLabels), Goto(Main, labels) PROVE Late'
  <2>1. Tail(stack[Main]) \in Seq(LateLabels)
    <3>1. Tail(stack[Main]) \in Seq(Labels) /\ Len(Tail(stack[Main])) = 0
      BY <1>1, <1>4
    <3>2. Tail(stack[Main]) = << >>
      BY <3>1, EmptySeq
    <3>3. QED BY <3>2, Tuples
  <2>2. labels \o Tail(stack[Main]) \in Seq(LateLabels)
    BY <2>1
  <2>3. QED BY <1>5, <2>2 DEF Goto, Late, Inv, TypeOK
<1>6. CASE CreateEvent \/ StartFails
  <2>1. Moves(Main, LateLabels)
    <3>1. {"set", "host", "end"} \subseteq LateLabels
      BY DEF LateLabels, Labels
    <3>2. QED BY <1>6, <3>1, Tuples DEF At, CreateEvent, StartFails, Moves
  <2>2. QED BY <1>5, <2>1 DEF Moves
<1>7. CASE service_main \/ service_start
  <2>1. PICK a \in {"start", "create"} : Goto(Main, <<"set">> \o <<a>>)
    BY <1>7 DEF service_main, service_start, Fill
  <2>2. stack'[Main] = (<<"set">> \o <<a>>) \o Tail(stack[Main])
        /\ \A u \in Threads \ {Main} : stack'[u] = stack[u]
    BY <2>1 DEF Goto, Inv, TypeOK
  <2>3. Len(stack'[Main]) = 2 /\ stack'[Main][1] = "set" /\ stack'[Main][2] = a
    <3>1. "set" \in Labels /\ a \in Labels
      BY <2>1 DEF Labels
    <3>2. QED BY <1>1, <1>4, <2>2, <3>1, OneLabel
  <2>4. EarlyMain' /\ EarlyControl'
    BY <2>1, <2>2, <2>3 DEF Early, EarlyMain, EarlyControl
  <2>5. Quiet'
    BY <1>7 DEF service_main, service_start, Fill, Early, Quiet, asking
  <2>6. \A u \in Workers : stack'[u] = << >>
    BY <2>2 DEF Early
  <2>7. QED BY <2>4, <2>5, <2>6 DEF Early, Quiet
<1>8. QED BY <1>3, <1>6, <1>7

\* Windows may interrogate a service that starts, and not yet stop it.
LEMMA EarlyControlStep ==
  ASSUME Inv, Early, ControlThread
  PROVE  Early'
<1> USE ThreadNames, ServiceControlAssumption
<1>1. stack[Control] \in Seq(Labels) /\ Len(stack[Control]) \in {1, 2}
      /\ stack[Control][1] \in {"idle", "report", "set"}
      /\ (Len(stack[Control]) = 1 <=> stack[Control][1] = "idle")
  BY DEF Inv, TypeOK, Early, EarlyControl
<1>2. Head(stack[Control]) = stack[Control][1]
  BY <1>1
<1>3. InterrogateControl \/ ReportAsked
  BY <1>1, <1>2 DEF ControlThread, At, StopControl, ernoUnloadLoadLibrary, Early
<1>4. CASE InterrogateControl
  <2>1. Len(stack[Control]) = 1
    BY <1>1, <1>2, <1>4 DEF At, InterrogateControl
  <2>2. stack'[Control] = <<"report", "idle">> \o Tail(stack[Control])
        /\ \A u \in Threads \ {Control} : stack'[u] = stack[u]
    BY <1>4 DEF InterrogateControl, Goto, Inv, TypeOK
  <2>3. Tail(stack[Control]) \in Seq(Labels) /\ Len(Tail(stack[Control])) = 0
    BY <1>1, <2>1
  <2>4. <<"report", "idle">> \in Seq(Labels)
    BY Tuples DEF Labels
  <2>5. Len(stack'[Control]) = 2 /\ stack'[Control][1] = "report"
        /\ stack'[Control][2] = "idle"
    BY <2>2, <2>3, <2>4
  <2>6. Quiet'
    BY <1>4 DEF InterrogateControl, Early, Quiet, shared, asking
  <2>7. QED BY <2>2, <2>5, <2>6 DEF Early, EarlyMain, EarlyControl, Quiet
<1>5. CASE ReportAsked
  <2>1. Len(stack[Control]) = 2
    BY <1>1, <1>2, <1>5 DEF At, ReportAsked
  <2>2. stack'[Control] = (<<"set">> \o << >>) \o Tail(stack[Control])
        /\ \A u \in Threads \ {Control} : stack'[u] = stack[u]
    BY <1>5 DEF ReportAsked, Fill, Goto, Inv, TypeOK
  <2>3. Tail(stack[Control]) \in Seq(Labels) /\ Len(Tail(stack[Control])) = 1
        /\ Tail(stack[Control])[1] = stack[Control][2]
    <3>1. stack[Control] # << >>
      BY <1>1
    <3>2. QED BY <1>1, <2>1, <3>1, HeadTailProperties
  <2>4. <<"set">> \in Seq(Labels) /\ <<"set">> \o << >> = <<"set">>
    BY Tuples DEF Labels
  <2>5. Len(stack'[Control]) = 2 /\ stack'[Control][1] = "set"
        /\ stack'[Control][2] = stack[Control][2]
    BY <2>2, <2>3, <2>4
  <2>6. Quiet'
    BY <1>5 DEF ReportAsked, Fill, Early, Quiet, asking
  <2>7. QED BY <2>1, <2>2, <2>5, <2>6 DEF Early, EarlyMain, EarlyControl, Quiet
<1>6. QED BY <1>3, <1>4, <1>5

\* Up to CreateEvent nobody asks for the event.
LEMMA EarlyStep == ASSUME Inv, Early, [Next]_vars PROVE Early' \/ Late'
<1>1. CASE UNCHANGED <<stack, shared, ServiceStop, answer, asked>>
  BY <1>1 DEF Early, EarlyMain, EarlyControl, shared
<1>2. CASE Environment
  BY <1>1, <1>2 DEF Environment, Tick, ClockBack, shared
<1>3. ASSUME NEW t \in Workers, Worker(t) PROVE FALSE
  <2>1. stack[t] = << >>
    BY DEF Early
  <2>2. QED BY <1>3, <2>1 DEF Worker, Works, WorkerError, WorkerDies, At
<1>4. CASE UNCHANGED vars
  BY <1>1, <1>4 DEF vars, asking
<1>5. QED
  BY <1>2, <1>3, <1>4, EarlySet, EarlyMainStep, EarlyControlStep DEF Next
-----------------------------------------------------------------------------
\* The service starts early.
LEMMA InitInv == Init => Inv
<1> SUFFICES ASSUME Init PROVE Inv
  OBVIOUS
<1> USE ServiceControlAssumption, ThreadNames
<1>1. TypeOK
  <2>1. <<"main">> \in Seq(Labels) /\ <<"idle">> \in Seq(Labels) /\ << >> \in Seq(Labels)
    BY Tuples DEF Labels
  <2>2. stack \in [Threads -> Seq(Labels)]
    BY <2>1 DEF Init
  <2>3. answer \in [Threads -> BOOLEAN]
    BY Zenon DEF Init
  <2>4. StatusOK
    BY DEF Init, StatusOK, Status, States
  <2>5. ClockOK
    <3>1. setBack \in BOOLEAN
      BY Zenon DEF Init
    <3>2. age = 2
      BY DEF Init
    <3>3. QED BY <3>1, <3>2 DEF ClockOK, Clock
  <2>6. FlagsOK
    BY <2>3, Zenon DEF Init, FlagsOK
  <2>7. QED BY <2>2, <2>4, <2>5, <2>6 DEF TypeOK, StatusOK, ClockOK, FlagsOK
<1>2. Early
  <2>1. stack[Main] = <<"main">> /\ stack[Control] = <<"idle">>
        /\ \A t \in Workers : stack[t] = << >>
    BY DEF Init
  <2>2. Quiet
    BY DEF Init, Quiet
  <2>3. QED BY <2>1, <2>2 DEF Early, EarlyMain, EarlyControl, Quiet
<1>3. Clock /\ Answers
  BY DEF Init, Clock, Answers, NoFalseStop
<1>4. QED BY <1>1, <1>2, <1>3 DEF Inv

\* Until CreateEvent no thread asks for the event, and nothing resets it later.
THEOREM ServiceInvariance == Spec => []Inv
<1>1. Inv /\ [Next]_vars => Inv'
  BY TypeStep, AnswersStep, LateStep, EarlyStep DEF Inv
<1>2. QED BY <1>1, InitInv, PTL DEF Spec

\* For any number of threads ServiceStop is raised only when the service stops:
\* no wait of service_halting that timed out is taken for a stop.
THEOREM NoStopUnasked == Spec => []NoFalseStop
<1>1. Inv => NoFalseStop
  BY DEF Inv, Answers
<1>2. QED BY <1>1, ServiceInvariance, PTL

\* Every variable of the service control keeps its type.
THEOREM ServiceTypes == Spec => []TypeOK
<1>1. Inv => TypeOK
  BY DEF Inv
<1>2. QED BY <1>1, ServiceInvariance, PTL
-----------------------------------------------------------------------------
(* While one thread stops the service. The invariant says in which of      *)
(* three times the service thread is and who else is about to report: when *)
(* it starts, nobody; when it runs, at most the one thread that stops the  *)
(* service; when it ends, nobody again, because the event is set last.     *)

Others == Threads \ {Main}

\* On such a stack a label of service_stop comes next.
InStop(s) == Len(s) > 0 /\ s[1] \in {"stop", "stop with error", "set", "signal"}

\* What is left below the first label has no report to make.
Below(s) ==
  /\ Len(s) > 0 => s[1] # "report"
  /\ \A i \in 2..Len(s) : \/ s[i] \in {"unload", "idle", "ask"}
                          \/ i = 2 /\ s[1] = "set" /\ s[2] = "signal"

\* The three times of the service thread.
Starting(s) ==
  \/ Len(s) = 1 /\ s[1] \in {"main", "start", "create", "host", "init", "running"}
  \/ Len(s) = 2 /\ s[1] = "set" /\ s[2] \in {"start", "create", "host", "run"}

Running(s) == Len(s) = 1 /\ s[1] \in {"run", "ask", "wait", "assign", "return"}

Ending(s) ==
  \/ Len(s) = 0
  \/ Len(s) = 1 /\ s[1] \in {"end", "set"}
  \/ Len(s) = 2 /\ s[1] = "set" /\ s[2] = "end"

\* One thread stops the service, and sets the event last.
Lone ==
  /\ \A t \in Others : Below(stack[t])
  /\ \A t \in Others : InStop(stack[t]) => stopping /\ event # "set"
  /\ \A t, u \in Others : InStop(stack[t]) /\ InStop(stack[u]) => t = u
  /\ event = "set" => stopping

Told ==
  \A t \in Others : Len(stack[t]) > 0 /\ stack[t][1] = "set" => status.state = "stop_pending"

NoWorkers == \A t \in Workers : Len(stack[t]) = 0

WhileStarting ==
  Starting(stack[Main]) =>
    /\ ~stopping /\ scm.state = "start_pending" /\ NoWorkers
    /\ stack[Main][1] = "set" =>
         status.state = IF stack[Main][2] = "run" THEN "running" ELSE "start_pending"

WhileRunning ==
  Running(stack[Main]) =>
    /\ scm.state \in {"running", "stop_pending"}
    /\ stack[Main][1] = "run" => NoWorkers

WhileEnding ==
  Ending(stack[Main]) =>
    /\ \A t \in Others : ~InStop(stack[t])
    /\ ~stopping => scm.state # "running" /\ NoWorkers
    /\ Len(stack[Main]) > 0 /\ stack[Main][1] = "set" => status.state = "stopped"

OneStops ==
  /\ Starting(stack[Main]) \/ Running(stack[Main]) \/ Ending(stack[Main])
  /\ Lone /\ Told /\ WhileStarting /\ WhileRunning /\ WhileEnding

\* What Goto makes of the stack s of a thread: s is left with its first label
\* removed,
LEMMA Popped ==
  ASSUME NEW S, NEW s \in Seq(S), s # << >>
  PROVE  LET u == << >> \o Tail(s)
         IN  Len(u) = Len(s) - 1 /\ \A i \in 1..Len(u) : u[i] = s[i + 1]
<1> DEFINE r == Tail(s)
<1>1. r \in Seq(S) /\ Len(r) = Len(s) - 1 /\ \A i \in 1..Len(r) : r[i] = s[i + 1]
  BY HeadTailProperties
<1> HIDE DEF r
<1>2. << >> \in Seq(S) /\ Len(<< >>) = 0
  OBVIOUS
<1>3. << >> \o r \in Seq(S) /\ Len(<< >> \o r) = Len(r)
      /\ \A i \in 1..Len(r) : (<< >> \o r)[i] = r[i]
  BY <1>1, <1>2
<1>4. QED BY <1>1, <1>3 DEF r

\* or replaced by one, two or three others.
LEMMA Replaced ==
  ASSUME NEW S, NEW s \in Seq(S), s # << >>, NEW labels \in Seq(S), labels # << >>
  PROVE  LET u == labels \o Tail(s)
         IN  /\ Len(u) = Len(s) + Len(labels) - 1
             /\ \A i \in 1..Len(labels) : u[i] = labels[i]
             /\ \A i \in (Len(labels) + 1)..Len(u) : u[i] = s[i - Len(labels) + 1]
<1> DEFINE r == Tail(s)
<1>1. r \in Seq(S) /\ Len(r) = Len(s) - 1 /\ \A i \in 1..Len(r) : r[i] = s[i + 1]
  BY HeadTailProperties
<1> HIDE DEF r
<1>2. Len(labels) \in Nat /\ Len(r) \in Nat
  BY <1>1
<1>3. /\ Len(labels \o r) = Len(labels) + Len(r)
      /\ \A i \in 1..Len(labels) + Len(r) :
           (labels \o r)[i] = IF i <= Len(labels) THEN labels[i] ELSE r[i - Len(labels)]
  BY <1>1, ConcatProperties, Zenon
<1>4. ASSUME NEW i \in (Len(labels) + 1)..(Len(labels) + Len(r))
      PROVE  (labels \o r)[i] = s[i - Len(labels) + 1]
  <2>1. i - Len(labels) \in 1..Len(r)
    BY <1>2
  <2>2. (labels \o r)[i] = r[i - Len(labels)]
    BY <1>2, <1>3, <2>1
  <2>3. QED BY <1>1, <2>1, <2>2
<1>5. QED BY <1>1, <1>2, <1>3, <1>4 DEF r

\* The other threads stay where they are.
Alone(t) == \A u \in Threads \ {t} : stack'[u] = stack[u]

\* Thread t goes on below its label,
LEMMA GotoNone ==
  ASSUME stack \in [Threads -> Seq(Labels)], NEW t \in Threads, stack[t] # << >>, Goto(t, << >>)
  PROVE  /\ Alone(t)
         /\ Len(stack'[t]) = Len(stack[t]) - 1
         /\ \A i \in 1..Len(stack'[t]) : stack'[t][i] = stack[t][i + 1]
<1>1. stack'[t] = << >> \o Tail(stack[t]) /\ Alone(t)
  BY DEF Goto, Alone
<1>2. stack[t] \in Seq(Labels)
  OBVIOUS
<1>3. QED BY <1>1, <1>2, Popped

\* to one other label,
LEMMA GotoOne ==
  ASSUME stack \in [Threads -> Seq(Labels)], NEW t \in Threads, stack[t] # << >>,
         NEW a \in Labels, Goto(t, <<a>>)
  PROVE  /\ Alone(t)
         /\ Len(stack'[t]) = Len(stack[t])
         /\ stack'[t][1] = a
         /\ \A i \in 2..Len(stack'[t]) : stack'[t][i] = stack[t][i]
<1>1. stack'[t] = <<a>> \o Tail(stack[t]) /\ Alone(t)
  BY DEF Goto, Alone
<1>2. stack[t] \in Seq(Labels) /\ <<a>> \in Seq(Labels) /\ <<a>> # << >>
  OBVIOUS
<1>3. Len(<<a>>) = 1 /\ <<a>>[1] = a
  OBVIOUS
<1> DEFINE p == <<a>>
<1> HIDE DEF p
<1>4. /\ Len(stack'[t]) = Len(stack[t]) + Len(p) - 1
      /\ \A i \in 1..Len(p) : stack'[t][i] = p[i]
      /\ \A i \in (Len(p) + 1)..Len(stack'[t]) : stack'[t][i] = stack[t][i - Len(p) + 1]
  BY <1>1, <1>2, Replaced DEF p
<1>5. Len(p) = 1 /\ p[1] = a
  BY <1>3 DEF p
<1>6. QED BY <1>1, <1>2, <1>4, <1>5

\* to two
LEMMA GotoTwo ==
  ASSUME stack \in [Threads -> Seq(Labels)], NEW t \in Threads, stack[t] # << >>,
         NEW a \in Labels, NEW b \in Labels, Goto(t, <<a, b>>)
  PROVE  /\ Alone(t)
         /\ Len(stack'[t]) = Len(stack[t]) + 1
         /\ stack'[t][1] = a /\ stack'[t][2] = b
         /\ \A i \in 3..Len(stack'[t]) : stack'[t][i] = stack[t][i - 1]
<1>1. stack'[t] = <<a, b>> \o Tail(stack[t]) /\ Alone(t)
  BY DEF Goto, Alone
<1>2. stack[t] \in Seq(Labels) /\ <<a, b>> \in Seq(Labels) /\ <<a, b>> # << >>
  OBVIOUS
<1>3. Len(<<a, b>>) = 2 /\ <<a, b>>[1] = a /\ <<a, b>>[2] = b
  OBVIOUS
<1> DEFINE p == <<a, b>>
<1> HIDE DEF p
<1>4. /\ Len(stack'[t]) = Len(stack[t]) + Len(p) - 1
      /\ \A i \in 1..Len(p) : stack'[t][i] = p[i]
      /\ \A i \in (Len(p) + 1)..Len(stack'[t]) : stack'[t][i] = stack[t][i - Len(p) + 1]
  BY <1>1, <1>2, Replaced DEF p
<1>5. Len(p) = 2 /\ p[1] = a /\ p[2] = b
  BY <1>3 DEF p
<1>6. QED BY <1>1, <1>2, <1>4, <1>5

\* or to three.
LEMMA GotoThree ==
  ASSUME stack \in [Threads -> Seq(Labels)], NEW t \in Threads, stack[t] # << >>,
         NEW a \in Labels, NEW b \in Labels, NEW c \in Labels, Goto(t, <<a, b, c>>)
  PROVE  /\ Alone(t)
         /\ Len(stack'[t]) = Len(stack[t]) + 2
         /\ stack'[t][1] = a /\ stack'[t][2] = b /\ stack'[t][3] = c
         /\ \A i \in 4..Len(stack'[t]) : stack'[t][i] = stack[t][i - 2]
<1>1. stack'[t] = <<a, b, c>> \o Tail(stack[t]) /\ Alone(t)
  BY DEF Goto, Alone
<1>2. stack[t] \in Seq(Labels) /\ <<a, b, c>> \in Seq(Labels) /\ <<a, b, c>> # << >>
  OBVIOUS
<1>3. Len(<<a, b, c>>) = 3 /\ <<a, b, c>>[1] = a /\ <<a, b, c>>[2] = b /\ <<a, b, c>>[3] = c
  OBVIOUS
<1> DEFINE p == <<a, b, c>>
<1> HIDE DEF p
<1>4. /\ Len(stack'[t]) = Len(stack[t]) + Len(p) - 1
      /\ \A i \in 1..Len(p) : stack'[t][i] = p[i]
      /\ \A i \in (Len(p) + 1)..Len(stack'[t]) : stack'[t][i] = stack[t][i - Len(p) + 1]
  BY <1>1, <1>2, Replaced DEF p
<1>5. Len(p) = 3 /\ p[1] = a /\ p[2] = b /\ p[3] = c
  BY <1>3 DEF p
<1>6. QED BY <1>1, <1>2, <1>4, <1>5

\* service_report_status goes to SetServiceStatus, with nothing to do after that
LEMMA FillLast ==
  ASSUME NEW t, NEW state, NEW code, Fill(t, state, code, << >>)
  PROVE  Goto(t, <<"set">>) /\ status'.state = state /\ UNCHANGED <<scm, event>>
<1>1. <<"set">> \o << >> = <<"set">>
  OBVIOUS
<1>2. Goto(t, <<"set">>)
  BY <1>1, Zenon DEF Fill
<1>3. QED BY <1>2 DEF Fill

\* Two labels, one after the other.
LEMMA Pair == ASSUME NEW a, NEW b PROVE <<a>> \o <<b>> = <<a, b>>
<1> DEFINE S == {a, b}
           p == <<a>> \o <<b>>
           q == <<a, b>>
<1>1. p \in Seq(S) /\ Len(p) = 2 /\ p[1] = a /\ p[2] = b
  OBVIOUS
<1>2. q \in Seq(S) /\ Len(q) = 2 /\ q[1] = a /\ q[2] = b
  OBVIOUS
<1> HIDE DEF p, q
<1>3. p = q
  <2>1. \A i \in 1..Len(p) : p[i] = q[i]
    <3> TAKE i \in 1..Len(p)
    <3>1. i = 1 \/ i = 2
      BY <1>1
    <3>2. QED BY <1>1, <1>2, <3>1
  <2>2. QED BY <1>1, <1>2, <2>1, SeqEqual
<1>4. QED BY <1>3 DEF p, q

\* or with something.
LEMMA FillGoes ==
  ASSUME NEW t, NEW state, NEW code, NEW b, Fill(t, state, code, <<b>>)
  PROVE  Goto(t, <<"set", b>>) /\ status'.state = state /\ UNCHANGED <<scm, event>>
<1>1. <<"set">> \o <<b>> = <<"set", b>>
  BY Pair
<1>2. Goto(t, <<"set", b>>)
  BY <1>1, Zenon DEF Fill
<1>3. QED BY <1>2 DEF Fill

\* The label a thread is at is the first of its stack.
LEMMA AtFirst ==
  ASSUME stack \in [Threads -> Seq(Labels)], NEW t \in Threads, NEW label
  PROVE  At(t, label) <=> Len(stack[t]) > 0 /\ stack[t][1] = label
<1>1. stack[t] \in Seq(Labels)
  OBVIOUS
<1>2. QED BY <1>1 DEF At

\* There is nothing below a single label.
LEMMA ShortStack ==
  /\ Below(<< >>) /\ ~InStop(<< >>)
  /\ \A a \in {"work", "idle"} : Below(<<a>>) /\ ~InStop(<<a>>)
<1>1. Len(<< >>) = 0 /\ \A a : Len(<<a>>) = 1 /\ <<a>>[1] = a
  OBVIOUS
<1>2. \A i \in 2..0 : FALSE
  OBVIOUS
<1>3. \A i \in 2..1 : FALSE
  OBVIOUS
<1>4. Below(<< >>) /\ ~InStop(<< >>)
  BY <1>1, <1>2 DEF Below, InStop
<1>5. ASSUME NEW a \in {"work", "idle"} PROVE Below(<<a>>) /\ ~InStop(<<a>>)
  BY <1>1, <1>3 DEF Below, InStop
<1>6. QED BY <1>4, <1>5

\* A step of thread t that has nothing to do with a stop.
LEMMA OtherStep ==
  ASSUME Inv, OneStops, NEW t \in Others, Alone(t), Len(stack[t]) > 0,
         Below(stack'[t]), ~InStop(stack'[t]),
         UNCHANGED <<status, scm, event, stopping>>
  PROVE  OneStops'
<1>1. stack'[Main] = stack[Main] /\ \A u \in Others \ {t} : stack'[u] = stack[u]
  BY DEF Others, Alone, Threads
<1>2. NoWorkers => NoWorkers'
  <2>1. NoWorkers => t \notin Workers
    BY DEF NoWorkers, Inv, TypeOK, Threads
  <2>2. QED BY <2>1 DEF NoWorkers, Alone, Threads
<1>3. Lone'
  BY <1>1 DEF OneStops, Lone
<1>4. Told'
  BY <1>1 DEF OneStops, Told, InStop
<1>5. WhileStarting' /\ WhileRunning'
  BY <1>1, <1>2 DEF OneStops, WhileStarting, WhileRunning
<1>6. WhileEnding'
  BY <1>1, <1>2 DEF OneStops, WhileEnding
<1>7. QED BY <1>1, <1>3, <1>4, <1>5, <1>6 DEF OneStops

\* A step of the thread that stops the service, while the service thread runs.
LEMMA StopperStep ==
  ASSUME Inv, OneStops, Running(stack[Main]),
         NEW t \in Others, Alone(t), Len(stack[t]) > 0, Below(stack'[t]),
         \A u \in Others \ {t} : ~InStop(stack[u]),
         stopping', event' = "set" => ~InStop(stack'[t]),
         Len(stack'[t]) > 0 /\ stack'[t][1] = "set" => status'.state = "stop_pending",
         scm'.state \in {"running", "stop_pending"}
  PROVE  OneStops'
<1>1. stack'[Main] = stack[Main] /\ \A u \in Others \ {t} : stack'[u] = stack[u]
  BY DEF Others, Alone, Threads
<1>2. NoWorkers => NoWorkers'
  <2>1. NoWorkers => t \notin Workers
    BY DEF NoWorkers, Inv, TypeOK, Threads
  <2>2. QED BY <2>1 DEF NoWorkers, Alone, Threads
<1>3. Lone'
  BY <1>1 DEF OneStops, Lone
<1>4. Told'
  BY <1>1 DEF OneStops, Told, InStop
<1>5. WhileRunning'
  BY <1>1, <1>2 DEF OneStops, WhileRunning
<1>6. ~Starting(stack'[Main]) /\ ~Ending(stack'[Main])
  BY <1>1 DEF Starting, Running, Ending
<1>7. QED BY <1>1, <1>3, <1>4, <1>5, <1>6 DEF OneStops, WhileStarting, WhileEnding

\* A thread that stops the service does so while the service thread runs.
LEMMA StopsWhileRunning ==
  ASSUME OneStops, NEW t \in Others, InStop(stack[t])
  PROVE  /\ Running(stack[Main]) /\ stopping
         /\ \A u \in Others \ {t} : ~InStop(stack[u])
         /\ scm.state \in {"running", "stop_pending"}
BY DEF OneStops, Lone, WhileStarting, WhileRunning, WhileEnding

\* A step of the service thread that concerns no other thread.
LEMMA MainStep ==
  ASSUME Inv, OneStops, Alone(Main), event' = event \/ event' # "set", UNCHANGED stopping
  PROVE  /\ Lone'
         /\ (\A u \in Others : ~InStop(stack[u])) => Told' /\ \A u \in Others : ~InStop(stack'[u])
         /\ status' = status => Told'
         /\ NoWorkers => NoWorkers'
<1>1. \A u \in Others : stack'[u] = stack[u]
  BY DEF Others, Alone
<1>2. Workers \subseteq Others
  BY ServiceControlAssumption DEF Others, Threads
<1>3. QED BY <1>1, <1>2 DEF OneStops, Lone, Told, NoWorkers, InStop

\* The service thread starts: it has told that it starts, and goes on starting or
\* gives up.
LEMMA StartStep ==
  ASSUME Inv, OneStops, Starting(stack[Main]), Alone(Main),
         event' = event \/ event' # "set", UNCHANGED <<scm, stopping>>,
         \/ Starting(stack'[Main]) /\ (stack'[Main][1] = "set" =>
              status'.state = IF stack'[Main][2] = "run" THEN "running" ELSE "start_pending")
         \/ Ending(stack'[Main]) /\ (Len(stack'[Main]) > 0 /\ stack'[Main][1] = "set" =>
              status'.state = "stopped")
  PROVE  OneStops'
<1>1. ~stopping /\ scm.state = "start_pending" /\ NoWorkers
  BY DEF OneStops, WhileStarting
<1>2. \A u \in Others : ~InStop(stack[u])
  BY <1>1 DEF OneStops, Lone
<1>3. Lone' /\ Told' /\ NoWorkers' /\ \A u \in Others : ~InStop(stack'[u])
  BY <1>1, <1>2, MainStep
<1>4. ~Running(stack'[Main])
  BY DEF Starting, Ending, Running
<1>5. ~stopping' /\ scm'.state = "start_pending"
  BY <1>1
<1>6. Starting(stack'[Main]) => ~Ending(stack'[Main])
  BY DEF Starting, Ending
<1>7. WhileStarting' /\ WhileEnding'
  BY <1>3, <1>5, <1>6 DEF WhileStarting, WhileEnding
<1>8. QED BY <1>3, <1>4, <1>7 DEF OneStops, WhileRunning

\* It runs.
LEMMA RunStep ==
  ASSUME Inv, OneStops, Running(stack[Main]), Alone(Main), Running(stack'[Main]),
         stack'[Main][1] = "run" => stack[Main][1] = "run",
         UNCHANGED <<status, scm, event, stopping>>
  PROVE  OneStops'
<1>1. Lone' /\ Told' /\ (NoWorkers => NoWorkers')
  BY MainStep
<1>2. ~Starting(stack'[Main]) /\ ~Ending(stack'[Main])
  BY DEF Starting, Running, Ending
<1>3. WhileRunning'
  BY <1>1 DEF OneStops, WhileRunning
<1>4. QED BY <1>1, <1>2, <1>3 DEF OneStops, WhileStarting, WhileEnding

\* It was told to halt, or goes on ending.
LEMMA EndStep ==
  ASSUME Inv, OneStops, Alone(Main), Ending(stack'[Main]),
         event = "set" \/ Ending(stack[Main]),
         Len(stack'[Main]) > 0 /\ stack'[Main][1] = "set" => status'.state = "stopped",
         scm' = scm \/ scm'.state = "stopped", UNCHANGED <<event, stopping>>
  PROVE  OneStops'
<1>1. /\ \A u \in Others : ~InStop(stack[u])
      /\ ~stopping => scm.state # "running" /\ NoWorkers
  BY DEF OneStops, Lone, WhileEnding
<1>2. Lone' /\ Told' /\ (NoWorkers => NoWorkers') /\ \A u \in Others : ~InStop(stack'[u])
  BY <1>1, MainStep
<1>3. ~Starting(stack'[Main]) /\ ~Running(stack'[Main])
  BY DEF Starting, Running, Ending
<1>4. WhileEnding'
  BY <1>1, <1>2 DEF WhileEnding
<1>5. QED BY <1>2, <1>3, <1>4 DEF OneStops, WhileStarting, WhileRunning

\* The actions of a thread that all threads may take.
LEMMA ThreadStops ==
  ASSUME Inv, OneStops, NEW t \in Others, Thread(t)
  PROVE  OneStops'
<1> USE AtFirst
<1>1. stack \in [Threads -> Seq(Labels)] /\ t \in Threads /\ t # Main /\ stack[t] \in Seq(Labels)
  BY DEF Inv, TypeOK, Others
<1>2. Below(stack[t])
  BY DEF OneStops, Lone
<1>3. {"set", "signal", "wait", "assign", "return", "work"} \subseteq Labels
  BY DEF Labels
<1> DEFINE s == stack[t]
           u == stack'[t]
<1>4. ASSUME s # << >>, Goto(t, << >>)
      PROVE  /\ Alone(t) /\ Below(u)
             /\ s[1] # "set" => ~InStop(u)
             /\ Len(u) > 0 => u[1] # "set"
  <2>1. Alone(t) /\ Len(u) = Len(s) - 1 /\ \A i \in 1..Len(u) : u[i] = s[i + 1]
    BY <1>1, <1>4, GotoNone
  <2>2. Len(s) \in Nat
    BY <1>1
  <2> HIDE DEF s, u
  <2>3. Below(s)
    BY <1>2 DEF s
  <2>4. Len(u) > 0 => u[1] = s[2] /\ 2 \in 2..Len(s)
    BY <2>1, <2>2
  <2>5. \A i \in 2..Len(u) : u[i] \in {"unload", "idle", "ask"}
    <3> TAKE i \in 2..Len(u)
    <3>1. i + 1 \in 2..Len(s) /\ i + 1 # 2 /\ u[i] = s[i + 1]
      BY <2>1, <2>2
    <3>2. QED BY <2>3, <3>1 DEF Below
  <2>6. QED BY <2>1, <2>3, <2>4, <2>5 DEF Below, InStop
<1>5. ASSUME s # << >>, NEW a \in Labels \ {"report"}, Goto(t, <<a>>), s[1] # "set"
      PROVE  Alone(t) /\ Below(u) /\ Len(u) > 0 /\ u[1] = a
  <2>1. Alone(t) /\ Len(u) = Len(s) /\ u[1] = a /\ \A i \in 2..Len(u) : u[i] = s[i]
    BY <1>1, <1>5, GotoOne
  <2>2. Len(s) \in Nat /\ Len(s) > 0
    BY <1>1, <1>5
  <2>3. QED BY <1>2, <1>5, <2>1, <2>2 DEF Below
<1>6. ASSUME s # << >>, NEW state, NEW code, Fill(t, state, code, <<"signal">>), s[1] # "set"
      PROVE  /\ Alone(t) /\ Below(u) /\ u[1] = "set"
             /\ status'.state = state /\ UNCHANGED <<scm, event>>
  <2>1. Goto(t, <<"set", "signal">>) /\ status'.state = state /\ UNCHANGED <<scm, event>>
    BY <1>6, FillGoes
  <2>2. /\ Alone(t) /\ Len(u) = Len(s) + 1 /\ u[1] = "set" /\ u[2] = "signal"
        /\ \A i \in 3..Len(u) : u[i] = s[i - 1]
    BY <1>1, <1>3, <1>6, <2>1, GotoTwo
  <2>3. Len(s) \in Nat
    BY <1>1
  <2> HIDE DEF s, u
  <2>4. Below(s)
    BY <1>2 DEF s
  <2>5. \A i \in 2..Len(u) : u[i] \in {"unload", "idle", "ask"} \/ i = 2
    <3> TAKE i \in 2..Len(u)
    <3>1. CASE i # 2
      <4>1. i - 1 \in 2..Len(s) /\ u[i] = s[i - 1]
        BY <2>2, <2>3, <3>1
      <4>2. QED BY <1>6, <2>4, <4>1 DEF Below
    <3>2. QED BY <3>1
  <2>6. QED BY <2>1, <2>2, <2>5 DEF Below
<1>7. CASE SetServiceStatus(t)
  <2>1. s # << >> /\ s[1] = "set" /\ Len(s) > 0 /\ Goto(t, << >>)
    BY <1>1, <1>7 DEF SetServiceStatus, At
  <2>2. InStop(s) /\ status.state = "stop_pending"
    BY <2>1 DEF InStop, OneStops, Told
  <2>3. UNCHANGED <<event, stopping>> /\ scm' = status
    BY <1>7 DEF SetServiceStatus, ghost
  <2>4. event # "set"
    BY <2>2 DEF OneStops, Lone
  <2>5. QED BY <1>4, <2>1, <2>2, <2>3, <2>4, StopsWhileRunning, StopperStep
<1>8. CASE service_stop(t)
  <2>1. s # << >> /\ s[1] = "stop" /\ Len(s) > 0 /\ UNCHANGED stopping
    BY <1>1, <1>8 DEF service_stop, At, ghost
  <2>2. InStop(s)
    BY <2>1 DEF InStop
  <2>3. event # "set"
    BY <2>2 DEF OneStops, Lone
  <2>4. CASE Fill(t, "stop_pending", 0, <<"signal">>)
    BY <1>6, <2>1, <2>2, <2>3, <2>4, StopsWhileRunning, StopperStep
  <2>5. CASE Goto(t, << >>) /\ UNCHANGED shared
    BY <1>4, <2>1, <2>2, <2>5, OtherStep DEF shared
  <2>6. QED BY <1>8, <2>4, <2>5 DEF service_stop
<1>9. CASE service_stop_with_error(t)
  <2>1. s # << >> /\ s[1] = "stop with error" /\ Len(s) > 0 /\ UNCHANGED stopping
        /\ Fill(t, "stop_pending", 1, <<"signal">>)
    BY <1>1, <1>9 DEF service_stop_with_error, At, ghost
  <2>2. InStop(s)
    BY <2>1 DEF InStop
  <2>3. event # "set"
    BY <2>2 DEF OneStops, Lone
  <2>4. QED BY <1>6, <2>1, <2>2, <2>3, StopsWhileRunning, StopperStep
<1>10. CASE SetEvent(t)
  <2>1. s # << >> /\ s[1] = "signal" /\ Len(s) > 0 /\ Goto(t, << >>) /\ UNCHANGED <<scm, stopping>>
    BY <1>1, <1>10 DEF SetEvent, At, ghost
  <2>2. InStop(s)
    BY <2>1 DEF InStop
  <2>3. QED BY <1>4, <2>1, <2>2, StopsWhileRunning, StopperStep
<1>11. CASE Ask(t) \/ Wait(t) \/ Assign(t) \/ Return(t)
  <2>1. /\ s # << >> /\ Len(s) > 0 /\ s[1] # "set"
        /\ UNCHANGED <<status, scm, event, stopping>>
    BY <1>1, <1>11 DEF Ask, Wait, Assign, Return, At, ghost, shared
  <2>2. \/ Goto(t, << >>)
        \/ \E a \in {"wait", "assign", "return", "work"} : Goto(t, <<a>>)
    BY <1>1, <1>11 DEF Ask, Wait, Assign, Return, Halted, GoesOn
  <2>3. CASE Goto(t, << >>)
    BY <1>4, <2>1, <2>3, OtherStep
  <2>4. ASSUME NEW a \in {"wait", "assign", "return", "work"}, Goto(t, <<a>>) PROVE OneStops'
    <3>1. a \in Labels \ {"report"}
      BY <1>3
    <3>2. Alone(t) /\ Below(u) /\ Len(u) > 0 /\ u[1] = a
      BY <1>5, <2>1, <2>4, <3>1
    <3>3. ~InStop(u)
      BY <3>2 DEF InStop
    <3>4. QED BY <2>1, <3>2, <3>3, OtherStep
  <2>5. QED BY <2>2, <2>3, <2>4
<1>12. QED BY <1>7, <1>8, <1>9, <1>10, <1>11 DEF Thread

\* Windows delivers a stop only to a service that says that it runs; the second
\* stop meddles, and so does an interrogation.
LEMMA ControlStops ==
  ASSUME Inv, OneStops, ControlThread, ~meddled'
  PROVE  OneStops'
<1> USE AtFirst
<1>1. /\ stack \in [Threads -> Seq(Labels)] /\ Control \in Threads /\ Control \in Others
      /\ stack[Control] \in Seq(Labels)
  BY ThreadNames, ServiceControlAssumption DEF Inv, TypeOK, Others
<1> DEFINE s == stack[Control]
           u == stack'[Control]
<1>2. Below(s) /\ Len(s) \in Nat
  BY <1>1 DEF OneStops, Lone
<1>3. CASE StopControl
  <2>1. /\ s # << >> /\ s[1] = "idle" /\ scm.state = "running"
        /\ Goto(Control, <<"stop", "unload", "idle">>) /\ UNCHANGED <<status, scm, event>>
        /\ stopping' /\ ~stopping
    BY <1>1, <1>3 DEF StopControl, At, Stops, shared
  <2>2. \A t \in Others : ~InStop(stack[t])
    BY <2>1 DEF OneStops, Lone
  <2>3. Running(stack[Main]) /\ event # "set"
    BY <2>1 DEF OneStops, Lone, WhileStarting, WhileEnding
  <2>4. "stop" \in Labels /\ "unload" \in Labels /\ "idle" \in Labels
    BY DEF Labels
  <2>4a. Goto(Control, <<"stop", "unload", "idle">>) /\ stack[Control] # << >>
    BY <2>1
  <2> HIDE DEF s, u
  <2>5. /\ Alone(Control) /\ Len(u) = Len(s) + 2
        /\ u[1] = "stop" /\ u[2] = "unload" /\ u[3] = "idle"
        /\ \A i \in 4..Len(u) : u[i] = s[i - 2]
    BY <1>1, <2>4, <2>4a, GotoThree DEF s, u
  <2>6. \A i \in 2..Len(u) : u[i] \in {"unload", "idle", "ask"}
    <3> TAKE i \in 2..Len(u)
    <3>1. CASE i > 3
      <4>1. i - 2 \in 2..Len(s) /\ u[i] = s[i - 2]
        BY <1>2, <2>5, <3>1
      <4>2. QED BY <1>2, <2>1, <4>1 DEF Below
    <3>2. CASE i \in {2, 3}
      BY <2>5, <3>2
    <3>3. QED BY <3>1, <3>2
  <2>7. Below(u) /\ u[1] # "set" /\ Len(s) > 0
    BY <1>1, <2>1, <2>5, <2>6 DEF Below, s
  <2>8. QED BY <1>1, <2>1, <2>2, <2>3, <2>5, <2>7, StopperStep DEF s, u
<1>4. CASE ernoUnloadLoadLibrary
  <2>1. /\ s # << >> /\ s[1] = "unload" /\ Goto(Control, << >>)
        /\ UNCHANGED <<status, scm, event, stopping>>
    BY <1>1, <1>4 DEF ernoUnloadLoadLibrary, At, shared, ghost
  <2>2. Alone(Control) /\ Len(u) = Len(s) - 1 /\ \A i \in 1..Len(u) : u[i] = s[i + 1]
    BY <1>1, <2>1, GotoNone
  <2> HIDE DEF s, u
  <2>3. \A i \in 1..Len(u) : u[i] \in {"unload", "idle", "ask"}
    <3> TAKE i \in 1..Len(u)
    <3>1. i + 1 \in 2..Len(s)
      BY <1>2, <2>2
    <3>2. QED BY <1>2, <2>1, <2>2, <3>1 DEF Below
  <2>4. Len(s) > 0
    BY <1>1, <2>1 DEF s
  <2>5. Below(u) /\ ~InStop(u)
    <3>1. Len(u) \in Nat /\ \A i \in 2..Len(u) : i \in 1..Len(u)
      BY <1>2, <2>2, <2>4
    <3>2. Len(u) > 0 => u[1] \in {"unload", "idle", "ask"}
      BY <2>3, <3>1
    <3>3. QED BY <2>3, <3>1, <3>2 DEF Below, InStop
  <2>6. QED BY <1>1, <2>1, <2>2, <2>4, <2>5, OtherStep DEF s, u
<1>5. CASE InterrogateControl
  BY <1>5 DEF InterrogateControl
<1>6. CASE ReportAsked
  <2>1. Len(s) > 0 /\ s[1] = "report"
    BY <1>1, <1>6 DEF ReportAsked
  <2>2. QED BY <1>2, <2>1 DEF Below
<1>7. QED BY <1>3, <1>4, <1>5, <1>6 DEF ControlThread

\* A worker stops the service only when no thread has.
LEMMA WorkerStops ==
  ASSUME Inv, OneStops, NEW t \in Workers, Worker(t), ~meddled'
  PROVE  OneStops'
<1> USE AtFirst
<1>1. /\ stack \in [Threads -> Seq(Labels)] /\ t \in Threads /\ t \in Others
      /\ stack[t] \in Seq(Labels)
  BY ThreadNames, ServiceControlAssumption DEF Inv, TypeOK, Others
<1> DEFINE s == stack[t]
           u == stack'[t]
<1>2. Below(s) /\ Len(s) \in Nat
  BY <1>1 DEF OneStops, Lone
<1>3. s # << >> /\ s[1] = "work" /\ Len(s) > 0 /\ UNCHANGED <<status, scm, event>>
  BY <1>1 DEF Worker, Works, WorkerError, WorkerDies, At, shared
<1>4. {"ask", "stop with error", "stop"} \subseteq Labels
  BY DEF Labels
<1>5. ASSUME NEW a \in {"ask", "stop with error"}, Goto(t, <<a>>)
      PROVE  Alone(t) /\ Below(u) /\ u[1] = a
  <2>1. Alone(t) /\ Len(u) = Len(s) /\ u[1] = a /\ \A i \in 2..Len(u) : u[i] = s[i]
    BY <1>1, <1>3, <1>4, <1>5, GotoOne
  <2>2. QED BY <1>2, <1>3, <1>5, <2>1 DEF Below
<1>6. ASSUME ~stopping
      PROVE  /\ Running(stack[Main]) /\ event # "set" /\ \A v \in Others : ~InStop(stack[v])
             /\ scm.state \in {"running", "stop_pending"}
  <2>1. ~NoWorkers
    BY <1>3 DEF NoWorkers
  <2>2. QED BY <1>6, <2>1 DEF OneStops, Lone, WhileStarting, WhileRunning, WhileEnding
<1>7. CASE Works(t)
  <2>1. Goto(t, <<"ask">>) /\ UNCHANGED stopping
    BY <1>7 DEF Works, ghost
  <2>2. Alone(t) /\ Below(u) /\ ~InStop(u)
    BY <1>5, <2>1 DEF InStop
  <2>3. QED BY <1>1, <1>3, <2>1, <2>2, OtherStep
<1>8. CASE WorkerError(t)
  <2>1. Goto(t, <<"stop with error">>) /\ stopping' /\ ~stopping
    BY <1>8 DEF WorkerError, Stops
  <2>2. Alone(t) /\ Below(u) /\ u[1] # "set"
    BY <1>5, <2>1
  <2>3. QED BY <1>1, <1>3, <1>6, <2>1, <2>2, StopperStep
<1>9. CASE WorkerDies(t)
  <2>1. Goto(t, <<"stop", "ask">>) /\ stopping' /\ ~stopping
    BY <1>9 DEF WorkerDies, Stops
  <2>2. /\ Alone(t) /\ Len(u) = Len(s) + 1 /\ u[1] = "stop" /\ u[2] = "ask"
        /\ \A i \in 3..Len(u) : u[i] = s[i - 1]
    <3>1. stack[t] # << >> /\ "stop" \in Labels /\ "ask" \in Labels
      BY <1>3 DEF Labels
    <3>2. QED BY <1>1, <2>1, <3>1, GotoTwo
  <2> HIDE DEF s, u
  <2>3. \A i \in 2..Len(u) : u[i] \in {"unload", "idle", "ask"}
    <3> TAKE i \in 2..Len(u)
    <3>1. CASE i # 2
      <4>1. i - 1 \in 2..Len(s) /\ u[i] = s[i - 1]
        BY <1>2, <2>2, <3>1
      <4>2. QED BY <1>2, <1>3, <4>1 DEF Below
    <3>2. QED BY <2>2, <3>1
  <2>4. Below(u) /\ u[1] # "set"
    BY <2>2, <2>3 DEF Below
  <2>5. QED BY <1>1, <1>3, <1>6, <2>1, <2>2, <2>4, StopperStep DEF s, u
<1>10. QED BY <1>7, <1>8, <1>9 DEF Worker

\* A thread can be at one of the labels of the service thread's start only where
\* the service thread starts, and so on.
LEMMA MainTimes ==
  ASSUME Inv, OneStops, NEW label, At(Main, label)
  PROVE  /\ stack \in [Threads -> Seq(Labels)] /\ Main \in Threads /\ stack[Main] # << >>
         /\ stack[Main][1] = label /\ Len(stack[Main]) \in Nat
         /\ label \in {"main", "start", "create", "host", "init", "running"} =>
              Starting(stack[Main]) /\ Len(stack[Main]) = 1
         /\ label \in {"run", "ask", "wait", "assign", "return"} =>
              Running(stack[Main]) /\ Len(stack[Main]) = 1
         /\ label = "end" => Ending(stack[Main]) /\ Len(stack[Main]) = 1
         /\ label \in {"main", "start", "create", "host", "init", "running", "run", "ask",
                       "wait", "assign", "return", "end", "set"}
<1>1. stack \in [Threads -> Seq(Labels)] /\ Main \in Threads /\ stack[Main] \in Seq(Labels)
  BY ThreadNames DEF Inv, TypeOK
<1>2. stack[Main] # << >> /\ Len(stack[Main]) > 0 /\ stack[Main][1] = label
  BY <1>1, AtFirst DEF At
<1>3. QED BY <1>1, <1>2 DEF OneStops, Starting, Running, Ending

\* The service thread reports what it has filled: that it starts or runs when
\* nobody has begun to stop it, that it has stopped when nobody stops it any more.
LEMMA MainReports ==
  ASSUME Inv, OneStops, SetServiceStatus(Main)
  PROVE  OneStops' /\ Rank(scm'.state) >= Rank(scm.state)
<1> DEFINE s == stack[Main]
           u == stack'[Main]
<1>1. /\ At(Main, "set") /\ Goto(Main, << >>) /\ scm' = status
      /\ UNCHANGED <<status, event, stopping>>
  BY DEF SetServiceStatus, ghost
<1>2. stack \in [Threads -> Seq(Labels)] /\ Main \in Threads /\ s # << >> /\ s[1] = "set"
      /\ Len(s) \in Nat /\ Len(s) > 0
  BY <1>1, MainTimes, AtFirst
<1>3. Alone(Main) /\ Len(u) = Len(s) - 1 /\ \A i \in 1..Len(u) : u[i] = s[i + 1]
  BY <1>1, <1>2, GotoNone
<1> HIDE DEF s, u
<1>4. CASE Starting(s)
  <2>1. Len(s) = 2 /\ s[2] \in {"start", "create", "host", "run"}
    BY <1>2, <1>4 DEF Starting
  <2>2. Len(u) = 1 /\ u[1] = s[2]
    BY <1>3, <2>1
  <2>3. /\ ~stopping /\ scm.state = "start_pending" /\ NoWorkers
        /\ status.state = IF s[2] = "run" THEN "running" ELSE "start_pending"
    BY <1>2, <1>4 DEF OneStops, WhileStarting, s
  <2>4. \A v \in Others : ~InStop(stack[v])
    BY <2>3 DEF OneStops, Lone
  <2>5. Lone' /\ Told' /\ NoWorkers'
    BY <1>1, <1>3, <2>3, MainStep
  <2>6. CASE s[2] = "run"
    <3>1. Running(u) /\ ~Starting(u) /\ ~Ending(u)
      BY <2>2, <2>6 DEF Running, Starting, Ending
    <3>2. scm'.state = "running"
      BY <1>1, <2>3, <2>6
    <3>3. OneStops'
      BY <2>5, <3>1, <3>2 DEF OneStops, WhileStarting, WhileRunning, WhileEnding, u
    <3>4. QED BY <2>3, <3>2, <3>3 DEF Rank
  <2>7. CASE s[2] # "run"
    <3>1. scm'.state = "start_pending"
      BY <1>1, <2>3, <2>7
    <3>2. Starting(u) /\ ~Running(u) /\ ~Ending(u) /\ u[1] # "set"
      BY <2>1, <2>2, <2>7 DEF Running, Starting, Ending
    <3>3. ~stopping'
      BY <1>1, <2>3
    <3>4. OneStops'
      BY <2>5, <3>1, <3>2, <3>3 DEF OneStops, WhileStarting, WhileRunning, WhileEnding, u
    <3>5. QED BY <2>3, <3>1, <3>4 DEF Rank
  <2>8. QED BY <2>6, <2>7
<1>5. CASE Ending(s)
  <2>1. status.state = "stopped"
    BY <1>2, <1>5 DEF OneStops, WhileEnding, s
  <2>2. Ending(u) /\ (Len(u) > 0 => u[1] # "set")
    BY <1>2, <1>3, <1>5, SMTT(30) DEF Ending
  <2>3. OneStops'
    BY <1>1, <1>3, <1>5, <2>1, <2>2, EndStep DEF s, u
  <2>4. scm'.state = "stopped" /\ scm.state \in States
    BY <1>1, <2>1 DEF Inv, TypeOK, Status
  <2>5. QED BY <2>3, <2>4 DEF Rank, States
<1>6. CASE Running(s)
  BY <1>2, <1>6 DEF Running
<1>7. QED BY <1>4, <1>5, <1>6 DEF OneStops, s

\* service_halting tells the service thread to halt only if the event is set.
LEMMA MainAsks ==
  ASSUME Inv, OneStops, Thread(Main), ~SetServiceStatus(Main)
  PROVE  OneStops'
<1> DEFINE s == stack[Main]
           u == stack'[Main]
<1>1. Ask(Main) \/ Wait(Main) \/ Assign(Main) \/ Return(Main)
  <2>1. ASSUME NEW label \in {"stop", "stop with error", "signal"}, At(Main, label) PROVE FALSE
    BY <2>1, MainTimes
  <2>2. QED BY <2>1 DEF Thread, service_stop, service_stop_with_error, SetEvent
<1>2. /\ Running(s) /\ Len(s) = 1 /\ s[1] # "run" /\ s # << >>
      /\ stack \in [Threads -> Seq(Labels)] /\ Main \in Threads
      /\ UNCHANGED <<status, scm, event, stopping>>
  BY <1>1, MainTimes DEF Ask, Wait, Assign, Return, ghost, shared
<1>3. \/ \E a \in {"wait", "assign", "return", "ask"} : Goto(Main, <<a>>)
      \/ ServiceStop /\ Goto(Main, <<"end">>)
  BY <1>1 DEF Ask, Wait, Assign, Return, Halted, GoesOn
<1>4. {"wait", "assign", "return", "ask", "end"} \subseteq Labels
  BY DEF Labels
<1>5. ASSUME NEW a \in {"wait", "assign", "return", "ask"}, Goto(Main, <<a>>)
      PROVE  OneStops'
  <2>1. a \in Labels
    BY <1>4
  <2>2. Alone(Main) /\ Len(u) = Len(s) /\ u[1] = a
    BY <1>2, <1>5, <2>1, GotoOne
  <2>3. Running(u) /\ u[1] # "run"
    BY <1>2, <2>2 DEF Running
  <2>4. QED BY <1>2, <2>2, <2>3, RunStep
<1>6. CASE ServiceStop /\ Goto(Main, <<"end">>)
  <2>1. event = "set"
    BY <1>6 DEF Inv, Answers, NoFalseStop
  <2>2. "end" \in Labels
    BY <1>4
  <2>3. Alone(Main) /\ Len(u) = Len(s) /\ u[1] = "end"
    BY <1>2, <1>6, <2>2, GotoOne
  <2>4. Ending(u) /\ u[1] # "set"
    BY <1>2, <2>3 DEF Ending
  <2>5. QED BY <1>2, <2>1, <2>3, <2>4, EndStep
<1>7. QED BY <1>3, <1>5, <1>6

\* The steps of service_main, service_start and ntsl_run.
LEMMA MainStops ==
  ASSUME Inv, OneStops, MainThread, ~meddled'
  PROVE  OneStops'
<1> DEFINE s == stack[Main]
           u == stack'[Main]
<1>0. {"set", "start", "create", "host", "init", "running", "run", "end"} \subseteq Labels
  BY DEF Labels
\* What is to be shown of an action that goes on from a place of the start.
<1>1. ASSUME NEW label \in {"main", "start", "create", "host", "init", "running"}, At(Main, label)
      PROVE  /\ Starting(s) /\ Len(s) = 1 /\ s # << >>
             /\ stack \in [Threads -> Seq(Labels)] /\ Main \in Threads
  BY <1>1, MainTimes
<1>2. ASSUME Starting(s), Len(s) = 1, s # << >>, stack \in [Threads -> Seq(Labels)],
             Main \in Threads, event' = event \/ event' # "set", UNCHANGED <<scm, stopping>>,
             NEW b \in {"start", "create", "host", "run"}, Goto(Main, <<"set", b>>),
             status'.state = IF b = "run" THEN "running" ELSE "start_pending"
      PROVE  OneStops'
  <2>1. "set" \in Labels /\ b \in Labels
    BY <1>0
  <2>2. Alone(Main) /\ Len(u) = 2 /\ u[1] = "set" /\ u[2] = b
    <3>1. Alone(Main) /\ Len(u) = Len(s) + 1 /\ u[1] = "set" /\ u[2] = b
      BY <1>2, <2>1, GotoTwo, ZenonT(60)
    <3>2. QED BY <1>2, <3>1
  <2>3. Starting(u)
    BY <2>2 DEF Starting
  <2>4. QED BY <1>2, <2>2, <2>3, StartStep
<1>3. ASSUME Starting(s), Len(s) = 1, s # << >>, stack \in [Threads -> Seq(Labels)],
             Main \in Threads, UNCHANGED <<event, scm, stopping>>,
             NEW a \in {"init", "running", "end"}, Goto(Main, <<a>>)
      PROVE  OneStops'
  <2>1. a \in Labels
    BY <1>0
  <2>2. Alone(Main) /\ Len(u) = 1 /\ u[1] = a
    BY <1>3, <2>1, GotoOne
  <2>3. (Starting(u) \/ Ending(u)) /\ u[1] # "set"
    BY <2>2 DEF Starting, Ending
  <2>4. QED BY <1>3, <2>2, <2>3, StartStep
<1>4. CASE service_main
  <2>1. At(Main, "main") /\ Fill(Main, "start_pending", 0, <<"start">>) /\ UNCHANGED stopping
    BY <1>4 DEF service_main, ghost
  <2>2. Goto(Main, <<"set", "start">>) /\ status'.state = "start_pending" /\ UNCHANGED <<scm, event>>
    BY <2>1, FillGoes
  <2>3. QED BY <1>1, <1>2, <2>1, <2>2
<1>5. CASE service_start
  <2>1. At(Main, "start") /\ Fill(Main, "start_pending", 0, <<"create">>) /\ UNCHANGED stopping
    BY <1>5 DEF service_start, ghost
  <2>2. Goto(Main, <<"set", "create">>) /\ status'.state = "start_pending" /\ UNCHANGED <<scm, event>>
    BY <2>1, FillGoes
  <2>3. QED BY <1>1, <1>2, <2>1, <2>2
<1>6. CASE CreateEvent
  <2>1. At(Main, "create") /\ Goto(Main, <<"set", "host">>) /\ UNCHANGED <<scm, stopping>>
        /\ event' # "set" /\ status'.state = "start_pending"
    BY <1>6 DEF CreateEvent, ghost
  <2>2. QED BY <1>1, <1>2, <2>1
<1>7. CASE StartFails
  <2>1. UNCHANGED <<status, scm, event, stopping>>
    BY <1>7 DEF StartFails, shared, ghost
  <2>2. CASE At(Main, "main") /\ Goto(Main, << >>)
    <3>1. Starting(s) /\ Len(s) = 1 /\ s # << >> /\ stack \in [Threads -> Seq(Labels)]
          /\ Main \in Threads
      BY <1>1, <2>2
    <3>2. Alone(Main) /\ Len(u) = 0
      BY <2>2, <3>1, GotoNone
    <3>3. Ending(u)
      BY <3>2 DEF Ending
    <3>4. QED BY <2>1, <3>1, <3>2, <3>3, StartStep
  <2>3. ASSUME NEW label \in {"start", "create", "running"}, At(Main, label), Goto(Main, <<"end">>)
        PROVE  OneStops'
    BY <1>1, <1>3, <2>1, <2>3
  <2>4. QED BY <1>7, <2>2, <2>3 DEF StartFails
<1>8. CASE SyslogHostInRegistryOK
  <2>1. At(Main, "host") /\ Goto(Main, <<"init">>) /\ UNCHANGED <<scm, event, stopping>>
    BY <1>8 DEF SyslogHostInRegistryOK, shared, ghost
  <2>2. QED BY <1>1, <1>3, <2>1
<1>9. CASE NoSyslogHost
  <2>1. At(Main, "host") /\ Fill(Main, "stopped", 2, <<"end">>) /\ UNCHANGED stopping
    BY <1>9 DEF NoSyslogHost, ghost
  <2>2. Goto(Main, <<"set", "end">>) /\ status'.state = "stopped" /\ UNCHANGED <<scm, event>>
    BY <2>1, FillGoes
  <2>3. Starting(s) /\ Len(s) = 1 /\ s # << >> /\ stack \in [Threads -> Seq(Labels)]
        /\ Main \in Threads
    BY <1>1, <2>1
  <2>4. "set" \in Labels /\ "end" \in Labels
    BY <1>0
  <2>5. Alone(Main) /\ Len(u) = 2 /\ u[1] = "set" /\ u[2] = "end"
    <3>1. Alone(Main) /\ Len(u) = Len(s) + 1 /\ u[1] = "set" /\ u[2] = "end"
      BY <2>2, <2>3, <2>4, GotoTwo, ZenonT(60)
    <3>2. QED BY <2>3, <3>1
  <2>6. Ending(u)
    BY <2>5 DEF Ending
  <2>7. QED BY <2>1, <2>2, <2>3, <2>5, <2>6, StartStep
<1>10. CASE ntsl_init
  <2>1. At(Main, "init") /\ Goto(Main, <<"running">>) /\ UNCHANGED <<scm, event, stopping>>
    BY <1>10 DEF ntsl_init, shared, ghost
  <2>2. QED BY <1>1, <1>3, <2>1
<1>11. CASE InitDies
  BY <1>11 DEF InitDies
<1>12. CASE ReportRunning
  <2>1. At(Main, "running") /\ Fill(Main, "running", 0, <<"run">>) /\ UNCHANGED stopping
    BY <1>12 DEF ReportRunning, ghost
  <2>2. Goto(Main, <<"set", "run">>) /\ status'.state = "running" /\ UNCHANGED <<scm, event>>
    BY <2>1, FillGoes
  <2>3. QED BY <1>1, <1>2, <2>1, <2>2
<1>13. CASE ntsl_run
  <2>1. /\ At(Main, "run") /\ UNCHANGED <<status, scm, event, stopping>>
        /\ stack' = [t \in Threads |-> IF t = Control THEN stack[t] ELSE GoesOn(t)]
    BY <1>13 DEF ntsl_run, shared, ghost
  <2>2. Running(s) /\ s[1] = "run"
    BY <2>1, MainTimes
  <2>3. /\ u = <<"ask">> /\ stack'[Control] = stack[Control]
        /\ \A t \in Workers : stack'[t] = <<"work">>
    BY <2>1, ServiceControlAssumption DEF GoesOn, Threads
  <2>4. \A t \in Workers : Below(stack'[t]) /\ ~InStop(stack'[t])
    BY <2>3, ShortStack
  <2>5. Others = Workers \cup {Control}
    BY ServiceControlAssumption DEF Others, Threads
  <2>6. Running(u) /\ ~Starting(u) /\ ~Ending(u) /\ u[1] = "ask"
    BY <2>3 DEF Running, Starting, Ending
  <2>7. Lone'
    BY <2>1, <2>3, <2>4, <2>5 DEF OneStops, Lone
  <2>8. Told'
    BY <2>1, <2>3, <2>5 DEF OneStops, Told
  <2>9. QED BY <2>1, <2>2, <2>6, <2>7, <2>8 DEF OneStops, WhileStarting, WhileRunning, WhileEnding
<1>14. CASE MainException
  BY <1>14 DEF MainException
<1>15. CASE ReportStopped
  <2>1. At(Main, "end") /\ Fill(Main, "stopped", 0, << >>) /\ UNCHANGED stopping
    BY <1>15 DEF ReportStopped, ghost
  <2>2. Goto(Main, <<"set">>) /\ status'.state = "stopped" /\ UNCHANGED <<scm, event>>
    BY <2>1, FillLast
  <2>3. /\ Ending(s) /\ Len(s) = 1 /\ s # << >>
        /\ stack \in [Threads -> Seq(Labels)] /\ Main \in Threads
    BY <2>1, MainTimes
  <2>4. "set" \in Labels
    BY <1>0
  <2>5. Alone(Main) /\ Len(u) = 1 /\ u[1] = "set"
    BY <2>2, <2>3, <2>4, GotoOne
  <2>6. Ending(u)
    BY <2>5 DEF Ending
  <2>7. QED BY <2>1, <2>2, <2>3, <2>5, <2>6, EndStep
<1>16. QED
  BY <1>4, <1>5, <1>6, <1>7, <1>8, <1>9, <1>10, <1>11, <1>12, <1>13, <1>14, <1>15 DEF MainThread

\* Nothing takes meddling back.
LEMMA MeddlingLasts == ASSUME Inv, [Next]_vars, meddled PROVE meddled'
<1> USE DEF ghost
<1>1. CASE Environment
  BY <1>1, Zenon DEF Environment, Tick, ClockBack
<1>2. ASSUME NEW t \in Threads, Thread(t) PROVE meddled'
  BY <1>2, Zenon DEF Thread, SetServiceStatus, service_stop, service_stop_with_error, SetEvent,
                     Ask, Wait, Assign, Return
<1>3. CASE MainThread
  <2>1. CASE service_main \/ service_start \/ CreateEvent \/ StartFails
    BY <2>1, Zenon DEF service_main, service_start, CreateEvent, StartFails
  <2>2. CASE SyslogHostInRegistryOK \/ NoSyslogHost \/ ntsl_init \/ InitDies
    BY <2>2, Zenon DEF SyslogHostInRegistryOK, NoSyslogHost, ntsl_init, InitDies
  <2>3. CASE ReportRunning \/ ntsl_run \/ MainException \/ ReportStopped
    BY <2>3, Zenon DEF ReportRunning, ntsl_run, MainException, ReportStopped
  <2>4. QED BY <1>3, <2>1, <2>2, <2>3 DEF MainThread
<1>4. CASE ControlThread
  BY <1>4, Zenon DEF ControlThread, StopControl, Stops, ernoUnloadLoadLibrary,
                     InterrogateControl, ReportAsked
<1>5. ASSUME NEW t \in Workers, Worker(t) PROVE meddled'
  BY <1>5, Zenon DEF Worker, Works, WorkerError, WorkerDies, Stops
<1>6. CASE UNCHANGED vars
  BY <1>6, Zenon DEF vars
<1>7. QED BY <1>1, <1>2, <1>3, <1>4, <1>5, <1>6 DEF Next

\* While nothing meddles one thread stops the service.
LEMMA OneStopsStep ==
  ASSUME Inv, ~meddled => OneStops, [Next]_vars
  PROVE  ~meddled' => OneStops'
<1> SUFFICES ASSUME ~meddled' PROVE OneStops'
  OBVIOUS
<1>1. OneStops
  BY MeddlingLasts
<1>2. CASE UNCHANGED <<stack, status, scm, event, stopping>>
  BY <1>1, <1>2 DEF OneStops, Lone, Told, NoWorkers, WhileStarting, WhileRunning, WhileEnding
<1>3. CASE Environment
  BY <1>2, <1>3 DEF Environment, Tick, ClockBack, shared, ghost
<1>4. ASSUME NEW t \in Threads, Thread(t) PROVE OneStops'
  <2>1. CASE t = Main
    BY <1>1, <1>4, <2>1, MainReports, MainAsks
  <2>2. CASE t # Main
    BY <1>1, <1>4, <2>2, ThreadStops DEF Others
  <2>3. QED BY <2>1, <2>2
<1>5. ASSUME NEW t \in Workers, Worker(t) PROVE OneStops'
  BY <1>1, <1>5, WorkerStops
<1>6. QED
  BY <1>1, <1>2, <1>3, <1>4, <1>5, MainStops, ControlStops DEF Next, vars, shared, ghost

\* Only service_report_status tells the service control manager.
LEMMA ToldForward ==
  ASSUME Inv, OneStops, [Next]_vars
  PROVE  Rank(scm'.state) >= Rank(scm.state)
<1>0. Rank(scm.state) \in Nat
  BY DEF Inv, TypeOK, Status, States, Rank
<1>1. CASE UNCHANGED scm
  BY <1>0, <1>1
<1>2. ASSUME NEW t \in Threads, SetServiceStatus(t) PROVE Rank(scm'.state) >= Rank(scm.state)
  <2>1. CASE t = Main
    BY <1>2, <2>1, MainReports
  <2>2. CASE t # Main
    <3>1. t \in Others
      BY <2>2 DEF Others
    <3>2. Len(stack[t]) > 0 /\ stack[t][1] = "set"
      BY <1>2, AtFirst DEF SetServiceStatus, Inv, TypeOK
    <3>3. status.state = "stop_pending" /\ InStop(stack[t])
      BY <3>1, <3>2 DEF OneStops, Told, InStop
    <3>4. scm.state \in {"running", "stop_pending"}
      BY <3>1, <3>3, StopsWhileRunning
    <3>5. scm'.state = "stop_pending"
      BY <1>2, <3>3 DEF SetServiceStatus
    <3>6. QED BY <3>4, <3>5 DEF Rank
  <2>3. QED BY <2>1, <2>2
<1>3. ASSUME NEW t \in Threads, Thread(t), ~SetServiceStatus(t) PROVE UNCHANGED scm
  BY <1>3 DEF Thread, service_stop, service_stop_with_error, SetEvent, Ask, Wait, Assign,
              Return, Fill, shared
<1>4. CASE MainThread
  <2>1. UNCHANGED scm
    BY <1>4 DEF MainThread, service_main, service_start, CreateEvent, StartFails,
       SyslogHostInRegistryOK, NoSyslogHost, ntsl_init, InitDies, ReportRunning, ntsl_run,
       MainException, ReportStopped, Fill, shared
  <2>2. QED BY <1>1, <2>1
<1>5. CASE ControlThread
  <2>1. UNCHANGED scm
    BY <1>5 DEF ControlThread, StopControl, ernoUnloadLoadLibrary, InterrogateControl,
                ReportAsked, Fill, shared
  <2>2. QED BY <1>1, <2>1
<1>6. ASSUME NEW t \in Workers, Worker(t) PROVE UNCHANGED scm
  BY <1>6 DEF Worker, Works, WorkerError, WorkerDies, shared
<1>7. CASE Environment \/ UNCHANGED vars
  BY <1>1, <1>7 DEF Environment, Tick, ClockBack, vars, shared
<1>8. QED BY <1>1, <1>2, <1>3, <1>4, <1>5, <1>6, <1>7 DEF Next

\* While one thread stops the service and nobody interrogates it, the service control
\* manager is told the states in their order, however many workers there are and
\* whatever fails: SERVICE_STOP_PENDING comes before the event, and SERVICE_STOPPED after.
THEOREM ToldInOrder == Spec => StatusForward
<1>1. Init => (~meddled => OneStops)
  <2> SUFFICES ASSUME Init PROVE OneStops
    OBVIOUS
  <2>1. /\ stack[Main] = <<"main">> /\ stack[Control] = <<"idle">>
        /\ \A t \in Workers : stack[t] = << >>
    BY ServiceControlAssumption DEF Init, Threads
  <2>2. ~stopping /\ event = "none" /\ scm.state = "start_pending"
    BY DEF Init
  <2>3. Others = Workers \cup {Control}
    BY ServiceControlAssumption DEF Others, Threads
  <2>4. \A t \in Others : Below(stack[t]) /\ ~InStop(stack[t])
    BY <2>1, <2>3, ShortStack
  <2>5. Lone /\ Told
    BY <2>2, <2>4 DEF Lone, Told, InStop
  <2>6. /\ Starting(stack[Main]) /\ ~Running(stack[Main]) /\ ~Ending(stack[Main])
        /\ stack[Main][1] # "set" /\ NoWorkers
    BY <2>1 DEF Starting, Running, Ending, NoWorkers
  <2>7. QED BY <2>2, <2>5, <2>6 DEF OneStops, WhileStarting, WhileRunning, WhileEnding
<1>2. Inv /\ (~meddled => OneStops) /\ [Next]_vars => (~meddled => OneStops)'
  BY OneStopsStep
<1>3. Inv /\ (~meddled => OneStops) /\ [Next]_vars
        => [~meddled => Rank(scm'.state) >= Rank(scm.state)]_vars
  BY ToldForward
<1>4. QED BY <1>1, <1>2, <1>3, ServiceInvariance, PTL DEF Spec, StatusForward
=============================================================================
