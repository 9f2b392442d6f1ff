----------------------------- MODULE ServiceControl -----------------------------
(***************************************************************************)
(* Starting and stopping the service (service.cpp): the service thread     *)
(* (service_main, service_start, ntsl_run), the thread on which Windows    *)
(* delivers controls (service_ctrl), and the other threads of the process, *)
(* which ask service_halting and may stop the service themselves.          *)
(*                                                                         *)
(* They share, without a lock, the structure service_status, the event     *)
(* service_stop_event and the variables ServiceStop and                    *)
(* LastWaitForSingleObjectTime.                                            *)
(***************************************************************************)
EXTENDS Integers, Sequences

CONSTANTS
  Main,      \* the service thread
  Control,   \* the thread of service_ctrl
  Workers,   \* the output thread and the application log threads
  Faults,    \* which of the events below the environment may produce
  Back       \* how many seconds the clock may be set back, once in the run

FaultKinds == {"start",        \* a call of the start sequence fails
               "host",         \* there is no server in the registry
               "init",         \* ntsl_init calls ntsl_die
               "exception",    \* the service thread raises an exception
               "error",        \* a worker calls service_stop_with_error
               "die",          \* a worker calls ntsl_die
               "interrogate",  \* the service control manager asks for the status
               "clock"}        \* the clock is set back

Threads == {Main, Control} \cup Workers

ASSUME ServiceControlAssumption ==
  /\ Main # Control /\ Main \notin Workers /\ Control \notin Workers
  /\ Faults \subseteq FaultKinds
  /\ Back \in Nat

VARIABLES
  stack,        \* where each thread is, and where it goes on after that
  status,       \* service_status: state and exit code
  scm,          \* what the service control manager was last told
  event,        \* service_stop_event: "none", "reset" or "set"
  ServiceStop,
  age,          \* time() less LastWaitForSingleObjectTime, at most 2
  answer,       \* what WaitForSingleObject said to each thread
  asked,        \* the state that service_ctrl is about to report
  setBack,      \* history: the clock was set back
  stopping,     \* history: a thread began to stop the service
  meddled       \* history: something but the first stop may report a status

shared == <<status, scm, event>>
asking == <<ServiceStop, age, answer>>
ghost  == <<stopping, meddled>>
vars   == <<stack, shared, asking, asked, setBack, ghost>>

At(t, label) == stack[t] # << >> /\ Head(stack[t]) = label

Gone(t) == stack[t] = << >>

\* Thread t leaves its label for the given ones.
Goto(t, labels) == stack' = [stack EXCEPT ![t] = labels \o Tail(@)]

Init ==
  /\ stack = [t \in Threads |-> IF t = Main THEN <<"main">>
                                ELSE IF t = Control THEN <<"idle">> ELSE << >>]
  /\ status = [state |-> "none", code |-> 0]
  /\ scm = [state |-> "start_pending", code |-> 0]
  /\ event = "none"
  /\ ServiceStop = FALSE
  /\ age = 2
  /\ answer = [t \in Threads |-> FALSE]
  /\ asked = "none"
  /\ setBack = FALSE /\ stopping = FALSE /\ meddled = FALSE
-----------------------------------------------------------------------------
(* service_report_status: the structure is filled, and then handed over.   *)

Fill(t, state, code, next) ==
  /\ status' = [state |-> state, code |-> code]
  /\ Goto(t, <<"set">> \o next)
  /\ UNCHANGED <<scm, event>>

SetServiceStatus(t) ==
  /\ At(t, "set")
  /\ scm' = status
  /\ Goto(t, << >>)
  /\ UNCHANGED <<status, event, asking, asked, setBack, ghost>>
-----------------------------------------------------------------------------
(* service_stop and service_stop_with_error.                               *)

\* Mutant of service_stop: the event is set before the status is reported.
SignalFirst(t) ==
  /\ At(t, "stop")
  /\ IF event # "none"
       THEN Goto(t, <<"signal", "stop with error">>)
       ELSE Goto(t, << >>)
  /\ UNCHANGED <<shared, asking, asked, setBack, ghost>>

service_stop(t) ==
  /\ At(t, "stop")
  /\ IF event # "none"
       THEN Fill(t, "stop_pending", 0, <<"signal">>)
       ELSE Goto(t, << >>) /\ UNCHANGED shared
  /\ UNCHANGED <<asking, asked, setBack, ghost>>

service_stop_with_error(t) ==
  /\ At(t, "stop with error")
  /\ Fill(t, "stop_pending", 1, <<"signal">>)
  /\ UNCHANGED <<asking, asked, setBack, ghost>>

SetEvent(t) ==
  /\ At(t, "signal")
  /\ event' = "set"
  /\ Goto(t, << >>)
  /\ UNCHANGED <<status, scm, asking, asked, setBack, ghost>>

\* A thread sets about stopping the service; the second one meddles.
Stops == stopping' = TRUE /\ meddled' = (meddled \/ stopping)
-----------------------------------------------------------------------------
(* service_halting, which a thread calls again and again.                  *)

\* Where a thread goes that was told to halt.
Halted(t) == IF t = Main THEN <<"end">> ELSE << >>

\* ... and that was not. The service thread waits a second and asks again.
GoesOn(t) == IF t = Main THEN <<"ask">> ELSE <<"work">>

\* The event is looked at if nobody has done so for two seconds; until then the
\* answer is no.
Ask(t) ==
  /\ At(t, "ask")
  /\ \/ /\ ServiceStop
        /\ Goto(t, Halted(t))
        /\ UNCHANGED age
     \/ /\ ~ServiceStop
        /\ age >= 2
        /\ age' = 0
        /\ Goto(t, <<"wait">>)
     \/ /\ ~ServiceStop
        /\ age < 2
        /\ Goto(t, GoesOn(t))
        /\ UNCHANGED age
  /\ UNCHANGED <<shared, ServiceStop, answer, asked, setBack, ghost>>

\* Mutant of Wait: the event is reset by the thread it releases.
WaitConsumes(t) ==
  /\ At(t, "wait")
  /\ answer' = [answer EXCEPT ![t] = (event = "set")]
  /\ event' = IF event = "set" THEN "reset" ELSE event
  /\ Goto(t, <<"assign">>)
  /\ UNCHANGED <<status, scm, ServiceStop, age, asked, setBack, ghost>>

\* WaitForSingleObject: the event is set, or NTSL_LOOP_WAIT is over.
Wait(t) ==
  /\ At(t, "wait")
  /\ answer' = [answer EXCEPT ![t] = (event = "set")]
  /\ Goto(t, <<"assign">>)
  /\ UNCHANGED <<shared, ServiceStop, age, asked, setBack, ghost>>

\* Mutant of Assign: a wait that timed out counts as a stop.
AssignAnyway(t) ==
  /\ At(t, "assign")
  /\ ServiceStop' = TRUE
  /\ Goto(t, <<"return">>)
  /\ UNCHANGED <<shared, age, answer, asked, setBack, ghost>>

\* By now another thread may have assigned the opposite.
Assign(t) ==
  /\ At(t, "assign")
  /\ ServiceStop' = answer[t]
  /\ Goto(t, <<"return">>)
  /\ UNCHANGED <<shared, age, answer, asked, setBack, ghost>>

Return(t) ==
  /\ At(t, "return")
  /\ Goto(t, IF ServiceStop THEN Halted(t) ELSE GoesOn(t))
  /\ UNCHANGED <<shared, asking, asked, setBack, ghost>>
-----------------------------------------------------------------------------
(* The service thread.                                                     *)

\* service_main registers service_ctrl and reports.
service_main ==
  /\ At(Main, "main")
  /\ Fill(Main, "start_pending", 0, <<"start">>)
  /\ UNCHANGED <<asking, asked, setBack, ghost>>

\* service_start reports once more.
service_start ==
  /\ At(Main, "start")
  /\ ServiceStop' = FALSE
  /\ Fill(Main, "start_pending", 0, <<"create">>)
  /\ UNCHANGED <<age, answer, asked, setBack, ghost>>

\* The event has to be reset by hand, which nobody does.
CreateEvent ==
  /\ At(Main, "create")
  /\ event' = "reset"
  /\ status' = [state |-> "start_pending", code |-> 0]
  /\ Goto(Main, <<"set", "host">>)
  /\ UNCHANGED <<scm, asking, asked, setBack, ghost>>

\* Without a handle for the status, nothing is reported.
StartFails ==
  /\ "start" \in Faults
  /\ \/ At(Main, "main") /\ Goto(Main, << >>)
     \/ (At(Main, "start") \/ At(Main, "create") \/ At(Main, "running"))
        /\ Goto(Main, <<"end">>)
  /\ UNCHANGED <<shared, asking, asked, setBack, ghost>>

SyslogHostInRegistryOK ==
  /\ At(Main, "host")
  /\ Goto(Main, <<"init">>)
  /\ UNCHANGED <<shared, asking, asked, setBack, ghost>>

\* ERROR_BAD_NET_NAME is reported, and service_main reports after that.
NoSyslogHost ==
  /\ "host" \in Faults
  /\ At(Main, "host")
  /\ Fill(Main, "stopped", 2, <<"end">>)
  /\ UNCHANGED <<asking, asked, setBack, ghost>>

ntsl_init ==
  /\ At(Main, "init")
  /\ Goto(Main, <<"running">>)
  /\ UNCHANGED <<shared, asking, asked, setBack, ghost>>

\* ntsl_die stops a service that goes on starting.
InitDies ==
  /\ "init" \in Faults
  /\ At(Main, "init")
  /\ Goto(Main, <<"stop", "running">>)
  /\ stopping' = TRUE /\ meddled' = TRUE
  /\ UNCHANGED <<shared, asking, asked, setBack>>

ReportRunning ==
  /\ At(Main, "running")
  /\ Fill(Main, "running", 0, <<"run">>)
  /\ UNCHANGED <<asking, asked, setBack, ghost>>

\* ntsl_run starts the other threads.
ntsl_run ==
  /\ At(Main, "run")
  /\ stack' = [t \in Threads |-> IF t = Control THEN stack[t] ELSE GoesOn(t)]
  /\ UNCHANGED <<shared, asking, asked, setBack, ghost>>

\* The handler of service_start.
MainException ==
  /\ "exception" \in Faults
  /\ At(Main, "ask")
  /\ Goto(Main, <<"end">>)
  /\ meddled' = TRUE
  /\ UNCHANGED <<shared, asking, asked, setBack, stopping>>

\* The end of service_main; service_error is always 0.
ReportStopped ==
  /\ At(Main, "end")
  /\ Fill(Main, "stopped", 0, << >>)
  /\ UNCHANGED <<asking, asked, setBack, ghost>>
-----------------------------------------------------------------------------
(* The other threads.                                                      *)

\* The thread has done some of its work.
Works(t) ==
  /\ At(t, "work")
  /\ Goto(t, <<"ask">>)
  /\ UNCHANGED <<shared, asking, asked, setBack, ghost>>

\* outputMain or AppWatchMain cannot go on.
WorkerError(t) ==
  /\ "error" \in Faults
  /\ At(t, "work")
  /\ Goto(t, <<"stop with error">>)
  /\ Stops
  /\ UNCHANGED <<shared, asking, asked, setBack>>

\* LastRun cannot be written.
WorkerDies(t) ==
  /\ "die" \in Faults
  /\ At(t, "work")
  /\ Goto(t, <<"stop", "ask">>)
  /\ Stops
  /\ UNCHANGED <<shared, asking, asked, setBack>>
-----------------------------------------------------------------------------
(* The thread of service_ctrl. Windows delivers one control at a time, and *)
(* SERVICE_CONTROL_STOP only to a service that says that it is running.    *)

StopControl ==
  /\ At(Control, "idle")
  /\ ~Gone(Main)
  /\ scm.state = "running"
  /\ Goto(Control, <<"stop", "unload", "idle">>)
  /\ Stops
  /\ UNCHANGED <<shared, asking, asked, setBack>>

ernoUnloadLoadLibrary ==
  /\ At(Control, "unload")
  /\ Goto(Control, << >>)
  /\ UNCHANGED <<shared, asking, asked, setBack, ghost>>

\* The current state is read ...
InterrogateControl ==
  /\ "interrogate" \in Faults
  /\ At(Control, "idle")
  /\ ~Gone(Main)
  /\ status.state # "none" /\ scm.state # "stopped"
  /\ asked' = status.state
  /\ Goto(Control, <<"report", "idle">>)
  /\ meddled' = TRUE
  /\ UNCHANGED <<shared, asking, setBack, stopping>>

\* ... and reported.
ReportAsked ==
  /\ At(Control, "report")
  /\ Fill(Control, asked, 0, << >>)
  /\ asked' = "none"
  /\ UNCHANGED <<asking, setBack, ghost>>
-----------------------------------------------------------------------------
Tick ==
  /\ age < 2
  /\ age' = age + 1
  /\ UNCHANGED <<stack, shared, ServiceStop, answer, asked, setBack, ghost>>

\* Until the old time has come again service_halting says no.
ClockBack ==
  /\ "clock" \in Faults
  /\ ~setBack
  /\ setBack' = TRUE
  /\ age' = age - Back
  /\ UNCHANGED <<stack, shared, ServiceStop, answer, asked, ghost>>

Environment == Tick \/ ClockBack

Thread(t) == \/ SetServiceStatus(t) \/ service_stop(t)
             \/ service_stop_with_error(t) \/ SetEvent(t)
             \/ Ask(t) \/ Wait(t) \/ Assign(t) \/ Return(t)

MainThread == \/ service_main \/ service_start \/ CreateEvent \/ StartFails
              \/ SyslogHostInRegistryOK \/ NoSyslogHost \/ ntsl_init \/ InitDies
              \/ ReportRunning \/ ntsl_run \/ MainException \/ ReportStopped

ControlThread == \/ StopControl \/ ernoUnloadLoadLibrary
                 \/ InterrogateControl \/ ReportAsked

Worker(t) == Works(t) \/ WorkerError(t) \/ WorkerDies(t)

Next == \/ Environment
        \/ \E t \in Threads : Thread(t)
        \/ MainThread
        \/ ControlThread
        \/ \E t \in Workers : Worker(t)

Spec == Init /\ [][Next]_vars

\* Windows schedules the threads, and time goes by.
Fairness == /\ WF_vars(Tick)
            /\ WF_vars(MainThread \/ Thread(Main))
            /\ WF_vars(Thread(Control))
            /\ \A t \in Workers : WF_vars(Worker(t) \/ Thread(t))

FairSpec == Spec /\ Fairness
-----------------------------------------------------------------------------
States == {"none", "start_pending", "running", "stop_pending", "stopped"}

Labels == {"main", "start", "create", "host", "init", "running", "run", "end",
           "idle", "unload", "report", "work", "ask", "wait", "assign", "return",
           "stop", "stop with error", "signal", "set"}

Status == [state : States, code : 0..2]

\* Every variable has its type.
TypeOK ==
  /\ stack \in [Threads -> Seq(Labels)]
  /\ status \in Status /\ scm \in Status
  /\ event \in {"none", "reset", "set"}
  /\ ServiceStop \in BOOLEAN /\ age \in -Back..2
  /\ answer \in [Threads -> BOOLEAN]
  /\ asked \in States
  /\ setBack \in BOOLEAN /\ stopping \in BOOLEAN /\ meddled \in BOOLEAN

\* The order in which a service goes through its states.
Rank(state) == CASE state = "none"          -> 0
                 [] state = "start_pending" -> 1
                 [] state = "running"       -> 2
                 [] state = "stop_pending"  -> 3
                 [] state = "stopped"       -> 4

\* "SERVICE_STOP_PENDING should be reported before setting the Stop Event"
\* (service_ctrl): while one thread stops the service and nobody interrogates
\* it, the service control manager is told the states in their order.
StatusForward ==
  [][~meddled => Rank(scm'.state) >= Rank(scm.state)]_vars

\* ServiceStop is never raised by a wait that timed out.
NoFalseStop == ServiceStop => event = "set"

\* A stop is noticed by the service thread, although the threads overwrite each
\* other's ServiceStop and only one of them looks at the event in two seconds.
StopNoticed == event = "set" ~> Gone(Main)

\* Nothing is reported after SERVICE_STOPPED but SERVICE_STOPPED. The code does not
\* keep this: nobody waits for a worker that is about to report SERVICE_STOP_PENDING.
StoppedIsLast == [][scm.state = "stopped" => scm'.state = "stopped"]_vars
=============================================================================
