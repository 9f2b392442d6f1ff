------------------------------ MODULE OutputQueue ------------------------------
(***************************************************************************)
(* messQueue and the threads that meet at it (output.cpp): the event log   *)
(* thread and one thread per application log insert their lines and wait   *)
(* for room, every thread (the output thread too) inserts the agent's own  *)
(* notices through logger(), and the output thread takes the messages out. *)
(* The sizes are read without the mutex, the mutex is created by the       *)
(* output thread after the others may have started, and ErrorCount, which  *)
(* limits the notices of an outage, is not protected at all.               *)
(*                                                                         *)
(* Only the number of messages matters here; which message is sent and     *)
(* removed is in Forwarding.                                               *)
(***************************************************************************)
EXTENDS Naturals, FiniteSets

CONSTANTS
  Producers,    \* the event log thread and the AppWatch threads
  Out,          \* the output thread
  Reporters,    \* the threads that may have something to report, all in the code
  LineLimit,    \* a line waits while the queue is longer (250 in the code)
  NoticeLimit,  \* a notice is dropped unless the queue is shorter (260)
  ErrorLimit    \* notices of one outage before the last one (4)

NoMutex == "none"   \* CreateMutex was not called yet: waiting does not wait
Free == "free"

ASSUME QueueAssumption ==
  /\ IsFiniteSet(Producers) /\ Out \notin Producers
  /\ {NoMutex, Free} \cap (Producers \cup {Out}) = {}
  /\ Reporters \subseteq Producers \cup {Out}
  /\ LineLimit \in Nat /\ NoticeLimit \in Nat /\ LineLimit < NoticeLimit
  /\ ErrorLimit \in Nat

Threads == Producers \cup {Out}

VARIABLES
  size,        \* messQueue.size()
  mutex,       \* SyslogQueueMutex: NoMutex, Free or its owner
  pc,          \* where each thread is
  job,         \* what it wants to do there: push a "line" or a "notice", "front", "pop"
  errorCount,  \* ErrorCount; ErrorLimit + 1 stands for every larger value
  loaded,      \* the value of ErrorCount that a thread read to increment it
  halting,     \* service_halting()
  unguarded,   \* history: threads at the queue since before the mutex existed
  noticed,     \* history: the notices since ErrorCount was reset, by its value then
  stored       \* history: how often a value was stored in it since then

counting == <<errorCount, loaded, noticed, stored>>
vars     == <<size, mutex, pc, job, counting, halting, unguarded>>

\* The values of ErrorCount that are told apart.
Counts == 0..(ErrorLimit + 1)

Saturated(n) == IF n > ErrorLimit THEN ErrorLimit + 1 ELSE n

\* After a reset no notice was made, and only 0 was stored; values over ErrorLimit, where no
\* notice is made, are not counted.
NoNotice == [v \in Counts |-> 0]
OnlyZero == [v \in 0..ErrorLimit |-> IF v = 0 THEN 1 ELSE 0]

Init ==
  /\ size = 0
  /\ mutex = NoMutex
  /\ pc = [t \in Threads |-> IF t = Out THEN "init" ELSE "ready"]
  /\ job = [t \in Threads |-> "notice"]
  /\ errorCount = 0
  /\ loaded = [t \in Threads |-> 0]
  /\ halting = FALSE
  /\ unguarded = {}
  /\ noticed = NoNotice /\ stored = OnlyZero

Goto(t, place) == pc' = [pc EXCEPT ![t] = place]

Enter(t, what) == Goto(t, "wait") /\ job' = [job EXCEPT ![t] = what]

\* Where a thread goes on after an insertion, done or given up.
After(t) == IF t = Out THEN "send" ELSE "ready"

RequestStop ==
  /\ ~halting
  /\ halting' = TRUE
  /\ UNCHANGED <<size, mutex, pc, job, counting, unguarded>>
-----------------------------------------------------------------------------
(* insertIntoOutputQueue                                                   *)

NewLine(t) ==
  /\ t \in Producers
  /\ pc[t] = "ready"
  /\ Goto(t, "measure")
  /\ UNCHANGED <<size, mutex, job, counting, halting, unguarded>>

\* The size is compared without the mutex, again and again while too large.
RoomForLine(t) ==
  /\ pc[t] = "measure"
  /\ size <= LineLimit
  /\ Enter(t, "line")
  /\ UNCHANGED <<size, mutex, counting, halting, unguarded>>

DropLine(t) ==
  /\ pc[t] = "measure"
  /\ size > LineLimit
  /\ halting
  /\ Goto(t, After(t))
  /\ UNCHANGED <<size, mutex, job, counting, halting, unguarded>>
-----------------------------------------------------------------------------
(* logger, LoggerInsertIntoOutputQueue                                     *)

\* Something goes wrong that the server should know of; for the output thread,
\* that is the network.
NewNotice(t) ==
  /\ t \in Reporters
  /\ pc[t] = (IF t = Out THEN "send" ELSE "ready")
  /\ Goto(t, "count")
  /\ UNCHANGED <<size, mutex, job, counting, halting, unguarded>>

\* ErrorCount is compared first and incremented later.
Ignore(t) ==
  /\ pc[t] = "count"
  /\ errorCount > ErrorLimit
  /\ Goto(t, After(t))
  /\ UNCHANGED <<size, mutex, job, counting, halting, unguarded>>

Begin(t) ==
  /\ pc[t] = "count"
  /\ loaded' = [loaded EXCEPT ![t] = errorCount]
  /\ noticed' = [noticed EXCEPT ![errorCount] = @ + 1]
  /\ Goto(t, "load")
  /\ UNCHANGED <<size, mutex, job, errorCount, stored, halting, unguarded>>

Accept(t) == errorCount <= ErrorLimit /\ Begin(t)

\* ErrorCount++ is a read ...
Load(t) ==
  /\ pc[t] = "load"
  /\ loaded' = [loaded EXCEPT ![t] = errorCount]
  /\ Goto(t, "store")
  /\ UNCHANGED <<size, mutex, job, errorCount, noticed, stored, halting, unguarded>>

\* Mutant of Store: the last notice, that reports are halted, is not counted.
StoreButLast(t) ==
  /\ pc[t] = "store"
  /\ errorCount' = IF loaded[t] = ErrorLimit THEN ErrorLimit ELSE Saturated(loaded[t] + 1)
  /\ stored' = [v \in 0..ErrorLimit |-> IF v = errorCount' THEN stored[v] + 1 ELSE stored[v]]
  /\ loaded' = [loaded EXCEPT ![t] = 0]
  /\ Goto(t, "notice")
  /\ UNCHANGED <<size, mutex, job, noticed, halting, unguarded>>

\* ... and a write, in which the increments of others in between are lost, and a reset.
Store(t) ==
  /\ pc[t] = "store"
  /\ errorCount' = Saturated(loaded[t] + 1)
  /\ stored' = [v \in 0..ErrorLimit |-> IF v = errorCount' THEN stored[v] + 1 ELSE stored[v]]
  /\ loaded' = [loaded EXCEPT ![t] = 0]
  /\ Goto(t, "notice")
  /\ UNCHANGED <<size, mutex, job, noticed, halting, unguarded>>

\* Mutant of RoomForNotice: a notice is never too many.
RoomForEveryNotice(t) ==
  /\ pc[t] = "notice"
  /\ Enter(t, "notice")
  /\ UNCHANGED <<size, mutex, counting, halting, unguarded>>

RoomForNotice(t) ==
  /\ pc[t] = "notice"
  /\ size < NoticeLimit
  /\ Enter(t, "notice")
  /\ UNCHANGED <<size, mutex, counting, halting, unguarded>>

\* Mutant of DropNotice: a notice waits for room as a line does.
DropNoticeLate(t) ==
  /\ pc[t] = "notice"
  /\ size >= NoticeLimit
  /\ halting
  /\ Goto(t, After(t))
  /\ UNCHANGED <<size, mutex, job, counting, halting, unguarded>>

DropNotice(t) ==
  /\ pc[t] = "notice"
  /\ size >= NoticeLimit
  /\ Goto(t, After(t))
  /\ UNCHANGED <<size, mutex, job, counting, halting, unguarded>>
-----------------------------------------------------------------------------
(* At the queue: WaitForSingleObject, front, push or pop, ReleaseMutex.    *)

Pushes == {"line", "notice"}

Inside == {t \in Threads : pc[t] \in {"inside", "leave"}}

\* Mutant of Lock: the wait has a timeout, which is not noticed.
LockOrNot(t) ==
  /\ pc[t] = "wait"
  /\ mutex' = IF mutex = Free THEN t ELSE mutex
  /\ unguarded' = IF mutex = NoMutex THEN unguarded \cup {t} ELSE unguarded
  /\ Goto(t, "inside")
  /\ UNCHANGED <<size, job, counting, halting>>

\* Waiting for a handle that is still zero fails at once, which is not noticed.
Lock(t) ==
  /\ pc[t] = "wait"
  /\ mutex \in {Free, NoMutex}
  /\ IF mutex = Free
       THEN mutex' = t /\ UNCHANGED unguarded
       ELSE unguarded' = unguarded \cup {t} /\ UNCHANGED mutex
  /\ Goto(t, "inside")
  /\ UNCHANGED <<size, job, counting, halting>>

\* While another thread is at the queue too, the update of its size can be lost.
Use(t) ==
  /\ pc[t] = "inside"
  /\ \/ size' = CASE job[t] \in Pushes -> size + 1
                  [] job[t] = "front"  -> size
                  [] job[t] = "pop"    -> size - 1
     \/ Inside # {t} /\ size' = size
  /\ Goto(t, "leave")
  /\ UNCHANGED <<mutex, job, counting, halting, unguarded>>

\* ReleaseMutex by a thread that does not own it fails, which is not noticed.
Unlock(t) ==
  /\ pc[t] = "leave"
  /\ mutex' = IF mutex = t THEN Free ELSE mutex
  /\ unguarded' = unguarded \ {t}
  /\ Goto(t, CASE job[t] \in Pushes -> After(t)
               [] job[t] = "front"  -> "send"
               [] job[t] = "pop"    -> "loop")
  /\ UNCHANGED <<size, job, counting, halting>>
-----------------------------------------------------------------------------
(* outputMain                                                              *)

ResetCount ==
  /\ errorCount' = 0
  /\ noticed' = NoNotice /\ stored' = OnlyZero
  /\ UNCHANGED loaded

CreateMutex ==
  /\ pc[Out] = "init"
  /\ mutex' = Free
  /\ ResetCount
  /\ Goto(Out, "loop")
  /\ UNCHANGED <<size, job, halting, unguarded>>

Look ==
  /\ pc[Out] = "loop"
  /\ size > 0
  /\ Enter(Out, "front")
  /\ UNCHANGED <<size, mutex, counting, halting, unguarded>>

\* The message is with the network; the outage, if there was one, is over.
Sent ==
  /\ pc[Out] = "send"
  /\ ResetCount
  /\ Enter(Out, "pop")
  /\ UNCHANGED <<size, mutex, halting, unguarded>>

\* The queue is empty, or the network down, and the service stops.
Quit ==
  /\ halting
  /\ \/ pc[Out] = "loop" /\ size = 0
     \/ pc[Out] = "send"
  /\ Goto(Out, "gone")
  /\ UNCHANGED <<size, mutex, job, counting, halting, unguarded>>
-----------------------------------------------------------------------------
Insert(t) == NewLine(t) \/ RoomForLine(t) \/ DropLine(t)

Logger(t) == \/ NewNotice(t) \/ Ignore(t) \/ Accept(t) \/ Load(t) \/ Store(t)
             \/ RoomForNotice(t) \/ DropNotice(t)

AtQueue(t) == Lock(t) \/ Use(t) \/ Unlock(t)

Next ==
  \/ RequestStop
  \/ \E t \in Threads : Insert(t) \/ Logger(t) \/ AtQueue(t)
  \/ CreateMutex \/ Look \/ Sent \/ Quit

Spec == Init /\ [][Next]_vars

\* Every thread runs, a Windows mutex is granted in the end, and the network
\* comes back in the end. Nothing forces a thread to have something to log.
Fairness ==
  /\ \A t \in Threads :
       /\ WF_vars(RoomForLine(t) \/ DropLine(t))
       /\ WF_vars(Ignore(t) \/ Accept(t) \/ Load(t) \/ Store(t)
                    \/ RoomForNotice(t) \/ DropNotice(t))
       /\ SF_vars(Lock(t))
       /\ WF_vars(Use(t) \/ Unlock(t))
  /\ WF_vars(CreateMutex \/ Look \/ Quit)
  /\ SF_vars(Sent)

FairSpec == Spec /\ Fairness
-----------------------------------------------------------------------------
Places == {"init", "ready", "measure", "count", "load", "store", "notice", "wait",
           "inside", "leave", "loop", "send", "gone"}

\* Every variable has its type: in particular pop() never meets an empty queue.
TypeOK ==
  /\ size \in Nat
  /\ mutex \in {NoMutex, Free} \cup Threads
  /\ pc \in [Threads -> Places]
  /\ job \in [Threads -> Pushes \cup {"front", "pop"}]
  /\ errorCount \in Counts /\ loaded \in [Threads -> Counts]
  /\ noticed \in [Counts -> Nat] /\ stored \in [0..ErrorLimit -> Nat]
  /\ halting \in BOOLEAN
  /\ unguarded \subseteq Threads

\* The queue's real limit: the unlocked comparison lets every thread overshoot
\* by one (insertIntoOutputQueue, LoggerInsertIntoOutputQueue).
QueueBounded == size <= NoticeLimit - 1 + Cardinality(Threads)

\* How often ErrorCount can come to have a value in one outage: by the increments of all
\* threads that read the value before, each time it was there and once from before.
Visits[v \in Counts] == IF v = 0 THEN 1 ELSE Cardinality(Reporters) * (Visits[v - 1] + 1)

\* One outage produces a bounded number of notices, although increments of ErrorCount are
\* lost and come late (logger): each time it has a value every thread may make one.
NoticesBounded ==
  \A v \in Counts : noticed[v] <= Cardinality(Reporters) * Visits[v]

\* "Error reporting halted until network connection restored": when reports are halted,
\* there were some since the last message got through. The code does not keep this: an
\* increment that comes late undoes the reset.
HaltedAfterReports == errorCount > ErrorLimit => noticed # NoNotice

\* Two threads are at the queue together only if one of them came before
\* outputMain had created the mutex.
Exclusive ==
  \A s, t \in Inside : s = t \/ s \in unguarded \/ t \in unguarded

\* The output thread gets every message out in the end: logger never makes it
\* wait for the room that only itself can make.
KeepsSending ==
  (size > 0 /\ ~halting) ~> (halting \/ (pc[Out] = "leave" /\ job[Out] = "pop"))

-----------------------------------------------------------------------------
(* The inductive invariant.                                                *)

Pushing == {t \in Threads : pc[t] \in {"wait", "inside"} /\ job[t] \in Pushes}

Counting == {t \in Reporters : pc[t] \in {"load", "store"}}

\* Those that have read a value, and those that will store the one after it.
Readers(v) == {t \in Counting : loaded[t] = v}
Writers(v) == {t \in Readers(v) : pc[t] = "store"}

\* Only the output thread removes, and only what it found.
OneConsumer ==
  /\ \A t \in Producers : job[t] \in Pushes
  /\ \/ size > 0
     \/ pc[Out] \in {"init", "loop", "gone"}
     \/ pc[Out] = "leave" /\ job[Out] = "pop"

\* Who is at the queue owns the mutex or came before there was one.
Guarded ==
  /\ mutex = NoMutex <=> pc[Out] = "init"
  /\ \A t \in Inside : mutex = t \/ t \in unguarded

\* Those that compared the size are counted as if they had pushed already.
Overshoot ==
  size + Cardinality(Pushing) <= NoticeLimit - 1 + Cardinality(Threads)

\* The value of ErrorCount was stored. Since then a thread makes one notice at most, which
\* is a reader of the value until the next one is stored.
OneNoticeEach ==
  /\ \A t \in Threads : pc[t] \in {"count", "load", "store"} => t \in Reporters
  /\ noticed[ErrorLimit + 1] = 0
  /\ \A v \in 0..ErrorLimit : noticed[v] <= Cardinality(Reporters) * stored[v]
  /\ errorCount <= ErrorLimit =>
       /\ stored[errorCount] > 0
       /\ noticed[errorCount] <= Cardinality(Reporters) * (stored[errorCount] - 1)
                                  + Cardinality(Readers(errorCount))

\* The same for the stores of the next value; only those who read the value before the
\* reset come in addition.
OneStoreEach ==
  /\ stored[0] = 1
  /\ \A v \in 0..ErrorLimit - 1 :
       IF v = errorCount
         THEN stored[v + 1] <= Cardinality(Reporters) * stored[v]
         ELSE stored[v + 1] + Cardinality(Writers(v)) <= Cardinality(Reporters) * (stored[v] + 1)

QInv == TypeOK /\ OneConsumer /\ Guarded /\ Overshoot /\ OneNoticeEach /\ OneStoreEach

\* The comment of LoggerInsertIntoOutputQueue: notices are allowed up to the
\* limit but no more.
NoticeLimitKept ==
  [][\A t \in Threads :
       Use(t) /\ job[t] = "notice" => size' <= NoticeLimit]_vars
=============================================================================
