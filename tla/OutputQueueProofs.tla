-------------------------- MODULE OutputQueueProofs --------------------------
(***************************************************************************)
(* The limits of the output queue hold for any number of threads and any   *)
(* limits: a thread that compared a size or a count before the others      *)
(* changed it makes it overshoot by one, and no thread does so twice.      *)
(***************************************************************************)
EXTENDS OutputQueue, FiniteSetTheorems, NaturalsInduction, WellFoundedInduction, TLAPS

USE DEF vars, counting, Goto, Enter

\* There are finitely many threads.
LEMMA ThreadsFinite ==
  /\ IsFiniteSet(Threads) /\ Cardinality(Threads) \in Nat
  /\ \A S \in SUBSET Threads :
       /\ IsFiniteSet(S) /\ Cardinality(S) \in Nat
       /\ Cardinality(S) <= Cardinality(Threads)
<1>1. IsFiniteSet(Threads)
  BY QueueAssumption, FS_AddElement DEF Threads
<1>2. QED BY <1>1, FS_Subset, FS_CardinalityType

\* Counting a set of threads after one thread joined or left it.
LEMMA OneMore ==
  ASSUME NEW S \in SUBSET Threads, NEW t \in Threads \ S
  PROVE  Cardinality(S \cup {t}) = Cardinality(S) + 1
BY ThreadsFinite, FS_AddElement

\* The same for one that left.
LEMMA OneLess ==
  ASSUME NEW S \in SUBSET Threads, NEW t \in S
  PROVE  Cardinality(S \ {t}) = Cardinality(S) - 1
BY ThreadsFinite, FS_RemoveElement

\* The output thread is one of them.
LEMMA OutIsThread == Out \in Threads
BY DEF Threads

\* The two values of the mutex that are no owner.
LEMMA NoOwner == NoMutex # Free /\ \A t \in Threads : t # NoMutex /\ t # Free
BY QueueAssumption DEF Threads, NoMutex, Free
-----------------------------------------------------------------------------
\* Types are kept; a pop finds a message because of OneConsumer.
LEMMA TypeStep == ASSUME TypeOK, OneConsumer, [Next]_vars PROVE TypeOK'
<1> USE QueueAssumption, OutIsThread DEF TypeOK, Places, Pushes
<1>1. CASE RequestStop
  BY <1>1 DEF RequestStop
<1>2. ASSUME NEW t \in Threads, Insert(t) PROVE TypeOK'
  BY <1>2 DEF Insert, NewLine, RoomForLine, DropLine, After
<1>3. ASSUME NEW t \in Threads, Logger(t) PROVE TypeOK'
  <2>1. CASE NewNotice(t) \/ Ignore(t) \/ RoomForNotice(t) \/ DropNotice(t)
    BY <2>1 DEF NewNotice, Ignore, RoomForNotice, DropNotice, After
  <2>2. CASE Accept(t)
    <3>1. noticed' \in [Counts -> Nat]
      BY <2>2 DEF Accept, Begin
    <3>2. QED BY <2>2, <3>1 DEF Accept, Begin
  <2>3. CASE Load(t)
    BY <2>3 DEF Load
  <2>4. CASE Store(t)
    <3>1. errorCount' \in Counts /\ 0 \in Counts
      <4>1. loaded[t] \in 0..(ErrorLimit + 1)
        BY DEF Counts
      <4>2. Saturated(loaded[t] + 1) \in 0..(ErrorLimit + 1)
        BY <4>1 DEF Saturated
      <4>3. QED BY <2>4, <4>2 DEF Store, Counts
    <3>2. stored' \in [0..ErrorLimit -> Nat] /\ loaded' \in [Threads -> Counts]
      BY <2>4, <3>1 DEF Store
    <3>3. QED BY <2>4, <3>1, <3>2 DEF Store
  <2>5. QED BY <1>3, <2>1, <2>2, <2>3, <2>4 DEF Logger
<1>4. ASSUME NEW t \in Threads, Lock(t) PROVE TypeOK'
  BY <1>4 DEF Lock
<1>5. ASSUME NEW t \in Threads, Use(t) PROVE TypeOK'
  <2>1. job[t] = "pop" => size > 0
    BY <1>5 DEF Use, OneConsumer, Threads
  <2>2. size' \in Nat
    BY <1>5, <2>1 DEF Use
  <2>3. QED BY <1>5, <2>2 DEF Use
<1>6. ASSUME NEW t \in Threads, Unlock(t) PROVE TypeOK'
  BY <1>6 DEF Unlock, After
<1>7. CASE CreateMutex \/ Look \/ Sent \/ Quit
  <2>1. ResetCount => errorCount' \in Counts /\ loaded' \in [Threads -> Counts]
                      /\ noticed' \in [Counts -> Nat] /\ stored' \in [0..ErrorLimit -> Nat]
    BY DEF ResetCount, NoNotice, OnlyZero, Counts
  <2>2. QED BY <1>7, <2>1 DEF CreateMutex, Look, Sent, Quit
<1>8. CASE UNCHANGED vars
  BY <1>8
<1>9. QED BY <1>1, <1>2, <1>3, <1>4, <1>5, <1>6, <1>7, <1>8 DEF Next, AtQueue

\* Only the output thread removes messages, and never one it did not find.
LEMMA ConsumerStep == ASSUME TypeOK, OneConsumer, [Next]_vars PROVE OneConsumer'
<1> USE QueueAssumption, OutIsThread DEF TypeOK, OneConsumer, Places, Pushes, Threads
<1>1. CASE RequestStop
  BY <1>1 DEF RequestStop
<1>2. ASSUME NEW t \in Threads, Insert(t) PROVE OneConsumer'
  BY <1>2 DEF Insert, NewLine, RoomForLine, DropLine, After
<1>3. ASSUME NEW t \in Threads, Logger(t) PROVE OneConsumer'
  BY <1>3 DEF Logger, NewNotice, Ignore, Accept, Begin, Load, Store, RoomForNotice,
              DropNotice, After
<1>4. ASSUME NEW t \in Threads, Lock(t) PROVE OneConsumer'
  BY <1>4 DEF Lock
<1>5. ASSUME NEW t \in Threads, Use(t) PROVE OneConsumer'
  BY <1>5 DEF Use
<1>6. ASSUME NEW t \in Threads, Unlock(t) PROVE OneConsumer'
  BY <1>6 DEF Unlock, After
<1>7. CASE CreateMutex \/ Look \/ Sent \/ Quit
  BY <1>7 DEF CreateMutex, Look, Sent, Quit
<1>8. CASE UNCHANGED vars
  BY <1>8
<1>9. QED BY <1>1, <1>2, <1>3, <1>4, <1>5, <1>6, <1>7, <1>8 DEF Next, AtQueue

\* A thread at the queue keeps the mutex, or its excuse, until it leaves.
LEMMA GuardedStep == ASSUME TypeOK, Guarded, [Next]_vars PROVE Guarded'
<1> USE NoOwner, OutIsThread DEF TypeOK, Guarded, Places, Pushes
<1>1. CASE RequestStop
  BY <1>1 DEF RequestStop, Inside
<1>2. ASSUME NEW t \in Threads, Insert(t) PROVE Guarded'
  BY <1>2 DEF Insert, NewLine, RoomForLine, DropLine, After, Inside
<1>3. ASSUME NEW t \in Threads, Logger(t) PROVE Guarded'
  BY <1>3 DEF Logger, NewNotice, Ignore, Accept, Begin, Load, Store, RoomForNotice,
              DropNotice, After, Inside
<1>4. ASSUME NEW t \in Threads, Lock(t) PROVE Guarded'
  <2>1. pc'[Out] = "init" <=> pc[Out] = "init"
    BY <1>4 DEF Lock
  <2>2. \A s \in Inside' : s = t \/ s \in Inside
    BY <1>4 DEF Lock, Inside
  <2>3. CASE mutex = Free
    <3>1. mutex' = t /\ unguarded' = unguarded
      BY <1>4, <2>3 DEF Lock
    <3>2. Inside \subseteq unguarded
      BY <2>3 DEF Inside
    <3>3. t # NoMutex /\ pc[Out] # "init"
      BY <2>3
    <3>4. QED BY <2>1, <2>2, <3>1, <3>2, <3>3
  <2>4. CASE mutex = NoMutex
    <3>1. mutex' = mutex /\ unguarded' = unguarded \cup {t}
      BY <1>4, <2>4 DEF Lock
    <3>2. QED BY <2>1, <2>2, <3>1
  <2>5. QED BY <1>4, <2>3, <2>4 DEF Lock
<1>5. ASSUME NEW t \in Threads, Use(t) PROVE Guarded'
  BY <1>5 DEF Use, Inside
<1>6. ASSUME NEW t \in Threads, Unlock(t) PROVE Guarded'
  <2>1. pc'[Out] = "init" <=> pc[Out] = "init"
    BY <1>6 DEF Unlock, After
  <2>2. Inside' = Inside \ {t}
    BY <1>6 DEF Unlock, After, Inside
  <2>3. unguarded' = unguarded \ {t}
    BY <1>6 DEF Unlock
  <2>4. mutex' = IF mutex = t THEN Free ELSE mutex
    BY <1>6 DEF Unlock
  <2>5. mutex' = NoMutex <=> mutex = NoMutex
    BY <2>4
  <2>6. QED BY <2>1, <2>2, <2>3, <2>4, <2>5
<1>7. CASE CreateMutex
  <2>1. mutex = NoMutex /\ mutex' = Free /\ pc'[Out] = "loop" /\ Inside' = Inside
    BY <1>7 DEF CreateMutex, Inside
  <2>2. Inside \subseteq unguarded
    BY <2>1 DEF Inside
  <2>3. unguarded' = unguarded
    BY <1>7 DEF CreateMutex
  <2>4. QED BY <2>1, <2>2, <2>3
<1>8. CASE Look \/ Sent \/ Quit
  BY <1>8 DEF Look, Sent, Quit, Inside
<1>9. CASE UNCHANGED vars
  BY <1>9 DEF Inside
<1>10. QED
  BY <1>1, <1>2, <1>3, <1>4, <1>5, <1>6, <1>7, <1>8, <1>9 DEF Next, AtQueue
-----------------------------------------------------------------------------
(* The counted sets.                                                       *)

\* Overshoot is kept: comparing adds a thread, pushing takes it away again.
LEMMA OvershootStep ==
  ASSUME TypeOK, TypeOK', OneConsumer, Overshoot, [Next]_vars
  PROVE  Overshoot'
<1> USE DEF Overshoot
<1> DEFINE N == Cardinality(Threads)
<1>1. /\ Pushing \in SUBSET Threads /\ Pushing' \in SUBSET Threads
      /\ N \in Nat /\ Cardinality(Pushing) \in Nat /\ Cardinality(Pushing') \in Nat
      /\ Cardinality(Pushing') <= N
  BY ThreadsFinite DEF Pushing
<1>2. size \in Nat /\ size' \in Nat /\ LineLimit \in Nat /\ NoticeLimit \in Nat
      /\ LineLimit < NoticeLimit
  BY QueueAssumption DEF TypeOK
<1>3. ASSUME NEW t \in Threads, RoomForLine(t) \/ RoomForNotice(t) PROVE Overshoot'
  <2>1. size' = size /\ size <= NoticeLimit - 1
    BY <1>2, <1>3 DEF RoomForLine, RoomForNotice
  <2>2. QED BY <1>1, <1>2, <2>1
<1>4. ASSUME NEW t \in Threads, Use(t) PROVE Overshoot'
  <2>1. CASE job[t] \in Pushes
    <3>1. size' = size + 1 \/ size' = size
      BY <1>4, <2>1 DEF Use, Pushes
    <3>2. t \in Pushing /\ Pushing' = Pushing \ {t}
      BY <1>4, <2>1 DEF Use, Pushing, TypeOK
    <3>3. Cardinality(Pushing') = Cardinality(Pushing) - 1
      BY <1>1, <3>2, OneLess
    <3>4. QED BY <1>1, <1>2, <3>1, <3>3
  <2>2. CASE job[t] \notin Pushes
    <3>1. size' <= size
      BY <1>2, <1>4, <2>2 DEF Use, TypeOK, Pushes
    <3>2. Pushing' = Pushing
      BY <1>4, <2>2 DEF Use, Pushing, TypeOK
    <3>3. QED BY <1>1, <1>2, <3>1, <3>2
  <2>3. QED BY <2>1, <2>2
<1>5. ASSUME NEW t \in Threads,
             NewLine(t) \/ DropLine(t) \/ Logger(t) \/ Lock(t) \/ Unlock(t),
             ~RoomForNotice(t)
      PROVE  Overshoot'
  <2>1. size' = size
    BY <1>5 DEF NewLine, DropLine, Logger, NewNotice, Ignore, Accept, Begin, Load, Store,
                DropNotice, Lock, Unlock
  <2>2. Pushing' = Pushing
    BY <1>5 DEF NewLine, DropLine, Logger, NewNotice, Ignore, Accept, Begin, Load, Store,
                DropNotice, Lock, Unlock, Pushing, After, TypeOK
  <2>3. QED BY <2>1, <2>2
<1>6. CASE RequestStop \/ CreateMutex \/ Look \/ Sent \/ Quit \/ UNCHANGED vars
  <2>1. size' = size
    BY <1>6 DEF RequestStop, CreateMutex, Look, Sent, Quit
  <2>2. Pushing' = Pushing
    BY <1>6, OutIsThread DEF RequestStop, CreateMutex, Look, Sent, Quit, Pushing,
                TypeOK, Pushes
  <2>3. QED BY <2>1, <2>2
<1>7. QED BY <1>3, <1>4, <1>5, <1>6 DEF Next, Insert, Logger, AtQueue

\* Counting the threads that count ErrorCount.
LEMMA ReportersFinite ==
  /\ Reporters \in SUBSET Threads
  /\ IsFiniteSet(Reporters) /\ Cardinality(Reporters) \in Nat
  /\ \A S \in SUBSET Reporters :
       S \in SUBSET Threads /\ Cardinality(S) \in Nat /\ Cardinality(S) <= Cardinality(Reporters)
<1>1. Reporters \in SUBSET Threads
  BY QueueAssumption DEF Threads
<1>2. QED BY <1>1, ThreadsFinite, FS_Subset

\* Those that read a value of ErrorCount.
LEMMA ReadersCounted ==
  ASSUME NEW v
  PROVE  /\ Readers(v) \in SUBSET Reporters /\ Readers(v)' \in SUBSET Reporters
         /\ Writers(v) \in SUBSET Reporters /\ Writers(v)' \in SUBSET Reporters
         /\ Cardinality(Readers(v)) \in Nat /\ Cardinality(Readers(v)') \in Nat
         /\ Cardinality(Writers(v)) \in Nat /\ Cardinality(Writers(v)') \in Nat
         /\ Cardinality(Readers(v)') <= Cardinality(Reporters)
         /\ Cardinality(Writers(v)) <= Cardinality(Reporters)
         /\ Cardinality(Writers(v)') <= Cardinality(Reporters)
<1>1. /\ Readers(v) \in SUBSET Reporters /\ Readers(v)' \in SUBSET Reporters
      /\ Writers(v) \in SUBSET Reporters /\ Writers(v)' \in SUBSET Reporters
  BY DEF Readers, Writers, Counting
<1>2. QED BY <1>1, ReportersFinite

\* A step that changes nothing of ErrorCount, and no thread's way through the increment.
Elsewhere ==
  /\ UNCHANGED <<errorCount, noticed, stored>>
  /\ \A v \in Counts : Readers(v)' = Readers(v) /\ Writers(v)' = Writers(v)
  /\ \A t \in Threads : pc'[t] \in {"count", "load", "store"} => t \in Reporters

\* Such a step keeps both parts of the invariant.
LEMMA ElsewhereKeeps ==
  ASSUME TypeOK, OneNoticeEach, OneStoreEach, Elsewhere
  PROVE  OneNoticeEach' /\ OneStoreEach'
<1>1. \A v \in 0..ErrorLimit : v \in Counts
  BY QueueAssumption DEF Counts
<1>2. \A v \in 0..ErrorLimit - 1 : v \in 0..ErrorLimit
  BY QueueAssumption
<1>3. OneNoticeEach'
  BY <1>1 DEF TypeOK, OneNoticeEach, Elsewhere
<1>4. OneStoreEach'
  BY <1>1, <1>2 DEF OneStoreEach, Elsewhere
<1>5. QED BY <1>3, <1>4

\* Which steps these are.
LEMMA ElsewhereSteps ==
  ASSUME TypeOK, OneNoticeEach, [Next]_vars,
         ~ \E t \in Threads : Accept(t) \/ Load(t) \/ Store(t),
         ~ (CreateMutex \/ Sent)
  PROVE  Elsewhere
<1> SUFFICES /\ UNCHANGED <<errorCount, loaded, noticed, stored>>
             /\ \A t \in Threads :
                  /\ pc[t] \in {"load", "store"} \/ pc'[t] \in {"load", "store"}
                       => pc'[t] = pc[t]
                  /\ pc'[t] = "count" => t \in Reporters
  <2>1. \A t \in Reporters : t \in Threads
    BY ReportersFinite
  <2>2. QED BY <2>1 DEF Elsewhere, OneNoticeEach, Readers, Writers, Counting
<1> USE DEF TypeOK
<1>1. CASE RequestStop
  BY <1>1 DEF RequestStop, OneNoticeEach
<1>2. ASSUME NEW t \in Threads, Insert(t)
      PROVE  /\ UNCHANGED <<errorCount, loaded, noticed, stored>>
             /\ \E place \in {"measure", "wait", "send", "ready"} :
                  pc[t] \in {"ready", "measure"} /\ pc' = [pc EXCEPT ![t] = place]
  BY <1>2 DEF Insert, NewLine, RoomForLine, DropLine, After
<1>3. ASSUME NEW t \in Threads,
             NewNotice(t) \/ Ignore(t) \/ RoomForNotice(t) \/ DropNotice(t)
      PROVE  /\ UNCHANGED <<errorCount, loaded, noticed, stored>>
             /\ \E place \in {"count", "wait", "send", "ready"} :
                  /\ pc[t] \in {"ready", "send", "count", "notice"}
                  /\ pc' = [pc EXCEPT ![t] = place]
                  /\ place = "count" => t \in Reporters
  BY <1>3 DEF NewNotice, Ignore, RoomForNotice, DropNotice, After
<1>4. ASSUME NEW t \in Threads, AtQueue(t)
      PROVE  /\ UNCHANGED <<errorCount, loaded, noticed, stored>>
             /\ \E place \in {"inside", "leave", "send", "ready", "loop"} :
                  /\ pc[t] \in {"wait", "inside", "leave"}
                  /\ pc' = [pc EXCEPT ![t] = place]
  BY <1>4 DEF AtQueue, Lock, Use, Unlock, After, Pushes
<1>5. CASE Look \/ Quit
  BY <1>5, OutIsThread DEF Look, Quit, OneNoticeEach
<1>6. CASE UNCHANGED vars
  BY <1>6 DEF OneNoticeEach
<1>7. CASE \E t \in Threads : Insert(t)
  BY <1>2, <1>7 DEF OneNoticeEach
<1>8. CASE \E t \in Threads :
             NewNotice(t) \/ Ignore(t) \/ RoomForNotice(t) \/ DropNotice(t)
  BY <1>3, <1>8 DEF OneNoticeEach
<1>9. CASE \E t \in Threads : AtQueue(t)
  BY <1>4, <1>9 DEF OneNoticeEach
<1>10. QED BY <1>1, <1>5, <1>6, <1>7, <1>8, <1>9 DEF Next, Logger

\* A notice makes its thread a reader of the value.
LEMMA AcceptStep ==
  ASSUME TypeOK, TypeOK', OneNoticeEach, OneStoreEach, NEW t \in Threads, Accept(t)
  PROVE  OneNoticeEach' /\ OneStoreEach'
<1> DEFINE N == Cardinality(Reporters)
           e == errorCount
<1>1. /\ pc[t] = "count" /\ e \in 0..ErrorLimit /\ errorCount' = e /\ stored' = stored
      /\ pc' = [pc EXCEPT ![t] = "load"] /\ loaded' = [loaded EXCEPT ![t] = e]
      /\ noticed' = [noticed EXCEPT ![e] = @ + 1]
  BY QueueAssumption DEF Accept, Begin, TypeOK, Counts
<1>2. t \in Reporters /\ t \notin Counting
  BY <1>1 DEF OneNoticeEach, Counting
<1>3. Readers(e)' = Readers(e) \cup {t} /\ t \notin Readers(e)
  BY <1>1, <1>2 DEF Readers, Counting, TypeOK
<1>4. \A v : Writers(v)' = Writers(v)
  BY <1>1, <1>2 DEF Writers, Readers, Counting, TypeOK
<1>5. Cardinality(Readers(e)') = Cardinality(Readers(e)) + 1
  BY <1>3, OneMore, ReadersCounted, ReportersFinite
<1>6. Cardinality(Readers(e)') <= N /\ Cardinality(Readers(e)) \in Nat /\ N \in Nat
  BY ReadersCounted, ReportersFinite
<1>7. /\ noticed'[e] = noticed[e] + 1 /\ \A v \in Counts \ {e} : noticed'[v] = noticed[v]
      /\ noticed[e] \in Nat /\ stored[e] \in Nat
      /\ ErrorLimit + 1 \in Counts \ {e} /\ 0..ErrorLimit \subseteq Counts
  BY <1>1, QueueAssumption DEF TypeOK, Counts
<1>8. stored[e] > 0 /\ noticed[e] <= N * (stored[e] - 1) + Cardinality(Readers(e))
  BY <1>1 DEF OneNoticeEach
<1>9. noticed'[e] <= N * (stored[e] - 1) + Cardinality(Readers(e)')
  BY <1>5, <1>6, <1>7, <1>8
<1>10. N * (stored[e] - 1) + N = N * stored[e] /\ N * (stored[e] - 1) \in Int
  BY <1>6, <1>7
<1>11. noticed'[e] <= N * stored[e]
  <2> DEFINE a == N * (stored[e] - 1)
             b == N * stored[e]
  <2>1. a + N = b /\ a \in Int /\ noticed'[e] <= a + Cardinality(Readers(e)')
        /\ noticed'[e] \in Nat /\ Cardinality(Readers(e)') \in Nat
    BY <1>6, <1>7, <1>9, <1>10, ReadersCounted
  <2>2. noticed'[e] <= b
    <3> HIDE DEF a, b, N
    <3> QED BY <1>6, <2>1
  <2>3. QED BY <2>2
<1>12. OneNoticeEach'
  <2>1. noticed'[ErrorLimit + 1] = 0
    BY <1>7 DEF OneNoticeEach
  <2>2. \A v \in 0..ErrorLimit : noticed'[v] <= N * stored'[v]
    BY <1>1, <1>7, <1>11 DEF OneNoticeEach
  <2>3. \A s \in Threads : pc'[s] \in {"count", "load", "store"} => s \in Reporters
    BY <1>1, <1>2 DEF OneNoticeEach, TypeOK
  <2>4. QED BY <1>1, <1>8, <1>9, <2>1, <2>2, <2>3 DEF OneNoticeEach
<1>13. OneStoreEach'
  BY <1>1, <1>4 DEF OneStoreEach
<1>14. QED BY <1>12, <1>13

\* Reading the value anew makes nobody else read it, and takes a reader from another value only.
LEMMA LoadStep ==
  ASSUME TypeOK, TypeOK', OneNoticeEach, OneStoreEach, NEW t \in Threads, Load(t)
  PROVE  OneNoticeEach' /\ OneStoreEach'
<1> DEFINE e == errorCount
<1>1. /\ pc[t] = "load" /\ errorCount' = e /\ UNCHANGED <<noticed, stored>>
      /\ pc' = [pc EXCEPT ![t] = "store"] /\ loaded' = [loaded EXCEPT ![t] = e]
  BY DEF Load
<1>2. t \in Reporters
  BY <1>1 DEF OneNoticeEach
<1>3. Readers(e) \subseteq Readers(e)'
  BY <1>1, <1>2 DEF Readers, Counting, TypeOK
<1>4. \A v : v # e => Writers(v)' = Writers(v)
  BY <1>1, <1>2 DEF Writers, Readers, Counting, TypeOK
<1>5. Cardinality(Readers(e)) <= Cardinality(Readers(e)')
  <2>1. Readers(e)' \in SUBSET Threads
    BY ReadersCounted, ReportersFinite
  <2>2. IsFiniteSet(Readers(e)')
    BY <2>1, ThreadsFinite
  <2>3. QED BY <1>3, <2>2, FS_Subset
<1>6. OneNoticeEach'
  <2>1. \A s \in Threads : pc'[s] \in {"count", "load", "store"} => s \in Reporters
    BY <1>1, <1>2 DEF OneNoticeEach, TypeOK
  <2>2. CASE e <= ErrorLimit
    <3>1. e \in 0..ErrorLimit
      BY <2>2 DEF TypeOK, Counts
    <3>2. /\ noticed[e] \in Nat /\ stored[e] \in Nat /\ Cardinality(Reporters) \in Nat
          /\ Cardinality(Readers(e)) \in Nat /\ Cardinality(Readers(e)') \in Nat
      BY <3>1, QueueAssumption, ReadersCounted, ReportersFinite DEF TypeOK, Counts
    <3> DEFINE b == Cardinality(Reporters) * (stored[e] - 1)
    <3>3. b \in Int /\ noticed[e] <= b + Cardinality(Readers(e))
      BY <2>2, <3>2 DEF OneNoticeEach
    <3>4. noticed[e] <= b + Cardinality(Readers(e)')
      <4> HIDE DEF b
      <4> QED BY <1>5, <3>2, <3>3
    <3>5. QED BY <1>1, <2>1, <3>4 DEF OneNoticeEach
  <2>3. QED BY <1>1, <2>1, <2>2 DEF OneNoticeEach
<1>7. OneStoreEach'
  BY <1>1, <1>4 DEF OneStoreEach
<1>8. QED BY <1>6, <1>7

\* A store takes a writer away and counts it.
LEMMA StoreStep ==
  ASSUME TypeOK, TypeOK', OneNoticeEach, OneStoreEach, NEW t \in Threads, Store(t)
  PROVE  OneNoticeEach' /\ OneStoreEach'
<1> DEFINE N == Cardinality(Reporters)
<1> PICK e, u, w : e = errorCount /\ u = loaded[t] /\ w = errorCount'
  OBVIOUS
<1>1. /\ pc[t] = "store" /\ w = Saturated(u + 1) /\ noticed' = noticed
      /\ stored' = [v \in 0..ErrorLimit |-> IF v = w THEN stored[v] + 1 ELSE stored[v]]
      /\ pc' = [pc EXCEPT ![t] = "notice"] /\ loaded' = [loaded EXCEPT ![t] = 0]
  BY DEF Store
<1>2. u \in Nat /\ w \in Nat /\ e \in Nat /\ (w <= ErrorLimit => w = u + 1) /\ N \in Nat
  BY <1>1, QueueAssumption, ReportersFinite DEF TypeOK, Counts, Saturated
<1>3. t \in Reporters /\ t \in Writers(u)
  BY <1>1 DEF OneNoticeEach, Writers, Readers, Counting
<1>4. Writers(u)' = Writers(u) \ {t} /\ \A v : v # u => Writers(v)' = Writers(v)
  <2>1. \A r \in Reporters : r \in Threads
    BY ReportersFinite
  <2>2. \A r \in Reporters \ {t} : pc'[r] = pc[r] /\ loaded'[r] = loaded[r]
    BY <1>1, <2>1 DEF TypeOK
  <2>3. pc'[t] = "notice"
    BY <1>1 DEF TypeOK
  <2>4. \A v, r : r \in Writers(v)' <=> r \in Writers(v) /\ r # t
    BY <2>2, <2>3 DEF Writers, Readers, Counting
  <2>5. \A v : t \in Writers(v) => v = u
    BY DEF Writers, Readers
  <2>6. \A v : v # u => Writers(v)' = Writers(v)
    <3> TAKE v
    <3>1. v # u => t \notin Writers(v)
      BY <2>5
    <3>2. QED BY <2>4, <3>1
  <2>7. Writers(u)' = Writers(u) \ {t}
    BY <2>4
  <2>8. QED BY <2>6, <2>7
<1>5. Cardinality(Writers(u)') = Cardinality(Writers(u)) - 1
  BY <1>3, <1>4, OneLess, ReadersCounted, ReportersFinite
<1>6. \A v \in 0..ErrorLimit :
        /\ stored[v] \in Nat /\ stored'[v] \in Nat /\ noticed[v] \in Nat
        /\ stored'[v] = IF v = w THEN stored[v] + 1 ELSE stored[v]
        /\ Cardinality(Writers(v)) \in Nat /\ Cardinality(Writers(v)') \in Nat
        /\ Cardinality(Writers(v)) <= N
  BY <1>1, ReadersCounted, QueueAssumption DEF TypeOK, Counts
<1>7. \A v \in 0..ErrorLimit : N * stored[v] <= N * stored'[v]
  <2> TAKE v \in 0..ErrorLimit
  <2>1. N * (stored[v] + 1) = N * stored[v] + N /\ N * stored[v] \in Nat
    BY <1>2, <1>6
  <2> HIDE DEF N
  <2>2. QED BY <1>2, <1>6, <2>1
<1>8. \A s \in Threads : pc'[s] \in {"count", "load", "store"} => s \in Reporters
  BY <1>1 DEF OneNoticeEach, TypeOK
<1>9. OneNoticeEach'
  <2>1. noticed'[ErrorLimit + 1] = 0
    BY <1>1 DEF OneNoticeEach
  <2>2. \A v \in 0..ErrorLimit : noticed'[v] <= N * stored'[v]
    <3> TAKE v \in 0..ErrorLimit
    <3>1. noticed[v] <= N * stored[v]
      BY DEF OneNoticeEach
    <3>2. N * stored[v] \in Nat /\ N * stored'[v] \in Nat
      BY <1>2, <1>6
    <3>3. QED BY <1>1, <1>6, <1>7, <3>1, <3>2
  <2>3. CASE w <= ErrorLimit
    <3>1. w \in 0..ErrorLimit
      BY <1>2, <2>3
    <3>2. stored'[w] = stored[w] + 1 /\ stored[w] \in Nat
      BY <1>6, <3>1
    <3>3. (stored[w] + 1) - 1 = stored[w]
      BY <3>2
    <3>4. noticed[w] <= N * stored[w]
      BY <3>1 DEF OneNoticeEach
    <3>5. N * stored[w] \in Nat /\ Cardinality(Readers(w)') \in Nat /\ noticed[w] \in Nat
      BY <1>2, <1>6, <3>1, <3>2, ReadersCounted
    <3>6. noticed[w] <= N * (stored'[w] - 1) + Cardinality(Readers(w)')
      <4> DEFINE b == N * stored[w]
      <4>1. N * (stored'[w] - 1) = b
        BY <3>2, <3>3
      <4>2. noticed[w] <= b + Cardinality(Readers(w)')
        <5>1. b \in Nat /\ noticed[w] <= b
          BY <3>4, <3>5
        <5> HIDE DEF b
        <5>2. QED BY <3>5, <5>1
      <4>3. QED BY <4>1, <4>2
    <3>7. stored'[w] > 0
      BY <3>2
    <3>8. noticed'[w] <= N * (stored'[w] - 1) + Cardinality(Readers(w)')
      BY <1>1, <3>6
    <3>9. Cardinality(Readers(errorCount)') = Cardinality(Readers(w)')
      BY DEF Readers, Counting
    <3>10. QED BY <1>8, <2>1, <2>2, <3>7, <3>8, <3>9 DEF OneNoticeEach
  <2>4. QED BY <1>8, <2>1, <2>2, <2>3 DEF OneNoticeEach
<1>10. OneStoreEach'
  <2>1. stored'[0] = 1
    <3>1. w # 0
      BY <1>1, <1>2, QueueAssumption DEF Saturated
    <3>2. QED BY <1>6, <3>1, QueueAssumption DEF OneStoreEach
  <2>2. ASSUME NEW v \in 0..ErrorLimit - 1
        PROVE  IF v = w
                 THEN stored'[v + 1] <= N * stored'[v]
                 ELSE stored'[v + 1] + Cardinality(Writers(v)') <= N * (stored'[v] + 1)
    <3> DEFINE a == N * stored[v]
               b == N * stored'[v]
               c == Cardinality(Writers(v))
               d == Cardinality(Writers(v)')
    <3>1. v \in 0..ErrorLimit /\ v + 1 \in 0..ErrorLimit /\ v + 1 # v
      BY QueueAssumption
    <3>2. /\ a \in Nat /\ b \in Nat /\ a <= b /\ c \in Nat /\ d \in Nat /\ c <= N
          /\ stored[v + 1] \in Nat /\ stored'[v + 1] \in Nat
      BY <1>2, <1>6, <1>7, <3>1
    <3>3. /\ N * (stored[v] + 1) = a + N /\ N * (stored'[v] + 1) = b + N
      BY <1>2, <1>6, <3>1
    <3>4. IF v = e THEN stored[v + 1] <= a ELSE stored[v + 1] + c <= a + N
      BY <3>3 DEF OneStoreEach
    <3>5. stored'[v + 1] = IF v + 1 = w THEN stored[v + 1] + 1 ELSE stored[v + 1]
      BY <1>6, <3>1
    <3>6. v + 1 = w <=> v = u
      <4>1. v + 1 = w => v = u
        BY <1>2, <3>1
      <4>2. v = u => w = v + 1
        BY <1>1, <3>1, QueueAssumption DEF Saturated
      <4>3. QED BY <4>1, <4>2
    <3>7. (v = u => d = c - 1) /\ (v # u => d = c)
      <4>1. v # u => Writers(v)' = Writers(v)
        BY <1>4
      <4>2. QED BY <1>5, <4>1
    <3>8. v = w => b = a + N
      BY <1>6, <3>1, <3>3
    <3> HIDE DEF a, b, c, d, N
    <3>9. stored'[v + 1] + d <= stored[v + 1] + c
      <4>1. CASE v = u
        BY <3>2, <3>5, <3>6, <3>7, <4>1
      <4>2. CASE v # u
        BY <3>2, <3>5, <3>6, <3>7, <4>2
      <4>3. QED BY <4>1, <4>2
    <3>10. stored[v + 1] + c <= a + N
      BY <1>2, <3>2, <3>4
    <3>11. stored'[v + 1] + d <= a + N
      BY <1>2, <3>2, <3>9, <3>10
    <3>12. CASE v = w
      <4>1. stored'[v + 1] <= b
        BY <1>2, <3>2, <3>8, <3>11, <3>12
      <4>2. QED BY <3>12, <4>1 DEF b, N
    <3>13. CASE v # w
      <4>1. stored'[v + 1] + d <= b + N
        BY <1>2, <3>2, <3>11
      <4>2. QED BY <3>3, <3>13, <4>1 DEF b, d, N
    <3>14. QED BY <3>12, <3>13
  <2>3. QED BY <2>1, <2>2 DEF OneStoreEach
<1>11. QED BY <1>9, <1>10

\* A reset begins anew; increments on their way come late.
LEMMA ResetStep ==
  ASSUME TypeOK, OneNoticeEach, ResetCount,
         \A t \in Threads : pc'[t] \in {"count", "load", "store"} => pc'[t] = pc[t]
  PROVE  OneNoticeEach' /\ OneStoreEach'
<1> DEFINE N == Cardinality(Reporters)
<1>1. /\ errorCount' = 0 /\ N \in Nat /\ ErrorLimit \in Nat
      /\ \A v \in Counts : noticed'[v] = 0
      /\ \A v \in 0..ErrorLimit : stored'[v] = IF v = 0 THEN 1 ELSE 0
  BY QueueAssumption, ReportersFinite DEF ResetCount, NoNotice, OnlyZero
<1>2. \A v \in 0..ErrorLimit : v \in Counts
  BY <1>1 DEF Counts
<1>3. \A v \in 0..ErrorLimit : noticed'[v] <= N * stored'[v]
  BY <1>1, <1>2
<1>4. /\ Cardinality(Readers(0)') \in Nat
      /\ \A v : Cardinality(Writers(v)') \in Nat /\ Cardinality(Writers(v)') <= N
  BY ReadersCounted
<1>5. ErrorLimit + 1 \in Counts /\ 0 \in 0..ErrorLimit
  BY <1>1 DEF Counts
<1>6. OneNoticeEach'
  <2>1. \A t \in Threads : pc'[t] \in {"count", "load", "store"} => t \in Reporters
    BY DEF OneNoticeEach
  <2>2. Cardinality(Readers(errorCount)') = Cardinality(Readers(0)')
    BY <1>1 DEF Readers, Counting
  <2>3. noticed'[0] <= N * (stored'[0] - 1) + Cardinality(Readers(0)')
    <3>1. noticed'[0] = 0 /\ stored'[0] - 1 = 0
      BY <1>1, <1>2, <1>5
    <3>2. N * (stored'[0] - 1) = 0
      BY <1>1, <3>1
    <3>3. QED BY <1>4, <3>1, <3>2
  <2>4. QED BY <1>1, <1>2, <1>3, <1>5, <2>1, <2>3 DEF OneNoticeEach
<1>7. OneStoreEach'
  <2>1. ASSUME NEW v \in 0..ErrorLimit - 1
        PROVE  IF v = errorCount'
                 THEN stored'[v + 1] <= N * stored'[v]
                 ELSE stored'[v + 1] + Cardinality(Writers(v)') <= N * (stored'[v] + 1)
    <3>1. v \in 0..ErrorLimit /\ v + 1 \in 0..ErrorLimit /\ v + 1 # 0
      BY <1>1
    <3>2. stored'[v + 1] = 0 /\ stored'[v] = IF v = 0 THEN 1 ELSE 0
      BY <1>1, <3>1
    <3>3. QED BY <1>1, <1>4, <3>2
  <2>2. QED BY <1>1, <1>5, <2>1 DEF OneStoreEach
<1>8. QED BY <1>6, <1>7

\* The notices of an outage, and the values they come with, remain within their bounds.
LEMMA CountStep ==
  ASSUME TypeOK, TypeOK', OneNoticeEach, OneStoreEach, [Next]_vars
  PROVE  OneNoticeEach' /\ OneStoreEach'
<1>1. ASSUME NEW t \in Threads, Accept(t) \/ Load(t) \/ Store(t)
      PROVE  OneNoticeEach' /\ OneStoreEach'
  BY <1>1, AcceptStep, LoadStep, StoreStep
<1>2. CASE CreateMutex \/ Sent
  BY <1>2, ResetStep DEF CreateMutex, Sent, TypeOK
<1>3. CASE ~ \E t \in Threads : Accept(t) \/ Load(t) \/ Store(t)
  BY <1>2, <1>3, ElsewhereSteps, ElsewhereKeeps
<1>4. QED BY <1>1, <1>3
-----------------------------------------------------------------------------
(* How often ErrorCount can come to a value.                               *)

\* Induction over the natural numbers, from the least element that WFMin gives of those that
\* are not in S.
LEMMA Naturals0 ==
  ASSUME NEW S \in SUBSET Nat, 0 \in S, \A n \in S : n + 1 \in S
  PROVE  S = Nat
<1> SUFFICES ASSUME Nat \ S # {} PROVE FALSE
  OBVIOUS
<1>1. IsWellFoundedOn(OpToRel(<, Nat), Nat)
  BY NatLessThanWellFounded
<1> DEFINE T == Nat \ S
<1>2. PICK m \in T : \A y \in T : <<y, m>> \notin OpToRel(<, Nat)
  <2>1. T \subseteq Nat /\ T # {}
    OBVIOUS
  <2> HIDE DEF T
  <2>2. QED BY <1>1, <2>1, WFMin
<1>3. \A y \in T : ~(y < m)
  BY <1>2 DEF OpToRel
<1>4. m \in Nat /\ m # 0 /\ m \notin S
  OBVIOUS
<1>5. m - 1 \in Nat /\ m - 1 < m /\ (m - 1) + 1 = m
  BY <1>4
<1>6. m - 1 \in S
  BY <1>3, <1>5
<1>7. QED BY <1>4, <1>5, <1>6

\* The recursive function exists up to each value, so it is what its definition says.
LEMMA VisitsUnfold ==
  \A v \in Counts : Visits[v] = IF v = 0 THEN 1 ELSE Cardinality(Reporters) * (Visits[v - 1] + 1)
<1> DEFINE Step(g, v) == IF v = 0 THEN 1 ELSE Cardinality(Reporters) * (g[v - 1] + 1)
           Is(g, k) == g = [v \in 0..k |-> Step(g, v)]
           S == {k \in Nat : \E g : Is(g, k)}
<1>1. 0 \in S
  <2> DEFINE g == [v \in 0..0 |-> 1]
  <2>1. Is(g, 0)
    OBVIOUS
  <2>2. QED BY <2>1
<1>2. ASSUME NEW k \in S PROVE k + 1 \in S
  <2>1. PICK g : Is(g, k)
    OBVIOUS
  <2> DEFINE h == [v \in 0..(k + 1) |-> IF v = k + 1 THEN Step(g, k + 1) ELSE g[v]]
  <2>2. k \in Nat /\ (k + 1) - 1 = k /\ h[k] = g[k]
    OBVIOUS
  <2>3. \A v \in 0..k : g[v] = Step(g, v)
    <3> HIDE DEF Step
    <3> QED BY <2>1
  <2>4. ASSUME NEW v \in 0..(k + 1) PROVE h[v] = Step(h, v)
    <3>1. CASE v = k + 1
      BY <2>2, <3>1
    <3>2. CASE v \in 0..k /\ v # 0
      <4>1. v - 1 \in 0..(k + 1) /\ v - 1 # k + 1
        BY <2>2, <3>2
      <4>2. h[v - 1] = g[v - 1] /\ h[v] = g[v]
        BY <2>2, <3>2, <4>1
      <4>3. QED BY <2>3, <3>2, <4>2
    <3>3. CASE v = 0
      BY <2>2, <2>3, <3>3
    <3>4. QED BY <2>2, <3>1, <3>2, <3>3
  <2>5. Is(h, k + 1)
    <3>1. h = [v \in 0..(k + 1) |-> h[v]]
      OBVIOUS
    <3> HIDE DEF h, Step
    <3>2. QED BY <2>4, <3>1
  <2>6. \E a : Is(a, k + 1)
    <3> HIDE DEF Is, h
    <3> QED BY <2>5
  <2>7. QED BY <2>2, <2>6, SMTT(30)
<1>3. S = Nat
  <2>1. S \in SUBSET Nat /\ 0 \in S /\ \A n \in S : n + 1 \in S
    BY <1>1, <1>2
  <2> HIDE DEF S
  <2>2. QED BY <2>1, Naturals0
<1>4. PICK g : Is(g, ErrorLimit + 1)
  <2>1. ErrorLimit + 1 \in S
    <3> HIDE DEF S
    <3> QED BY <1>3, QueueAssumption
  <2>2. QED BY <2>1
<1>5. Is(Visits, ErrorLimit + 1)
  <2>1. Visits = CHOOSE a : Is(a, ErrorLimit + 1)
    BY DEF Visits, Counts
  <2> HIDE DEF Is
  <2>2. QED BY <1>4, <2>1
<1>6. \A v \in 0..ErrorLimit + 1 : Visits[v] = Step(Visits, v)
  <2> HIDE DEF Step
  <2> QED BY <1>5
<1>7. QED BY <1>6 DEF Counts

\* A value is stored no more often than that.
LEMMA StoresBounded ==
  ASSUME TypeOK, OneStoreEach
  PROVE  /\ \A v \in 0..ErrorLimit : Visits[v] \in Nat /\ stored[v] <= Visits[v]
         /\ Visits[ErrorLimit + 1] \in Nat
<1> DEFINE N == Cardinality(Reporters)
           S == {n \in Nat : n <= ErrorLimit => Visits[n] \in Nat /\ stored[n] <= Visits[n]}
<1>1. N \in Nat /\ ErrorLimit \in Nat
  BY ReportersFinite, QueueAssumption
<1>2. 0 \in S
  BY <1>1, VisitsUnfold DEF Counts, OneStoreEach
<1>3. ASSUME NEW n \in S PROVE n + 1 \in S
  <2> SUFFICES ASSUME n + 1 <= ErrorLimit
               PROVE  Visits[n + 1] \in Nat /\ stored[n + 1] <= Visits[n + 1]
    OBVIOUS
  <2>1. /\ n \in 0..ErrorLimit - 1 /\ n \in 0..ErrorLimit /\ n + 1 \in 0..ErrorLimit
        /\ n + 1 \in Counts /\ n + 1 # 0 /\ (n + 1) - 1 = n
    BY <1>1 DEF Counts
  <2>2. Visits[n] \in Nat /\ stored[n] <= Visits[n] /\ stored[n] \in Nat
        /\ stored[n + 1] \in Nat
    BY <1>3, <2>1 DEF TypeOK
  <2>3. Visits[n + 1] = N * (Visits[n] + 1)
    BY <2>1, VisitsUnfold
  <2>4. N * stored[n] <= N * (stored[n] + 1) /\ N * (stored[n] + 1) <= N * (Visits[n] + 1)
    <3> DEFINE d == Visits[n] - stored[n]
    <3>1. d \in Nat /\ Visits[n] + 1 = (stored[n] + 1) + d
      BY <2>2
    <3>2. N * (Visits[n] + 1) = N * (stored[n] + 1) + N * d /\ N * d \in Nat
      BY <1>1, <2>2, <3>1
    <3>3. N * (stored[n] + 1) = N * stored[n] + N /\ N * stored[n] \in Nat
      BY <1>1, <2>2
    <3> HIDE DEF d, N
    <3>4. QED BY <1>1, <3>2, <3>3
  <2>5. Cardinality(Writers(n)) \in Nat
    BY ReadersCounted
  <2>6. stored[n + 1] <= N * (stored[n] + 1)
    <3> DEFINE a == N * stored[n]
               b == N * (stored[n] + 1)
    <3>1. a \in Nat /\ b \in Nat /\ a <= b
      BY <1>1, <2>2, <2>4
    <3>2. stored[n + 1] <= a \/ stored[n + 1] + Cardinality(Writers(n)) <= b
      BY <2>1 DEF OneStoreEach
    <3>3. stored[n + 1] <= b
      <4> HIDE DEF a, b
      <4> QED BY <2>2, <2>5, <3>1, <3>2
    <3>4. QED BY <3>3
  <2>7. N * (Visits[n] + 1) \in Nat /\ N * (stored[n] + 1) \in Nat
    BY <1>1, <2>2
  <2> HIDE DEF N
  <2>8. QED BY <2>2, <2>3, <2>4, <2>6, <2>7
<1>4. S = Nat
  <2>1. S \in SUBSET Nat
    OBVIOUS
  <2> HIDE DEF S
  <2>2. QED BY <1>2, <1>3, <2>1, Naturals0
<1>5. \A v \in 0..ErrorLimit : Visits[v] \in Nat /\ stored[v] <= Visits[v]
  BY <1>4
<1>6. Visits[ErrorLimit + 1] = N * (Visits[ErrorLimit] + 1)
  <2>1. ErrorLimit + 1 \in Counts /\ ErrorLimit + 1 # 0 /\ (ErrorLimit + 1) - 1 = ErrorLimit
    BY <1>1 DEF Counts
  <2>2. QED BY <2>1, VisitsUnfold
<1>7. Visits[ErrorLimit + 1] \in Nat
  <2>1. Visits[ErrorLimit] \in Nat
    BY <1>1, <1>5
  <2>2. QED BY <1>1, <1>6, <2>1
<1>8. QED BY <1>5, <1>7
-----------------------------------------------------------------------------
\* The invariant holds at first.
LEMMA QInit == Init => QInv
<1> SUFFICES ASSUME Init PROVE QInv
  OBVIOUS
<1> USE QueueAssumption, OutIsThread DEF Init
<1>1. TypeOK
  <2>1. /\ errorCount \in Counts /\ loaded \in [Threads -> Counts]
        /\ noticed \in [Counts -> Nat] /\ stored \in [0..ErrorLimit -> Nat]
    BY DEF Counts, NoNotice, OnlyZero
  <2>2. QED BY <2>1 DEF TypeOK, Places, Pushes
<1>2. OneConsumer
  BY DEF OneConsumer, Pushes, Threads
<1>3. Guarded
  BY DEF Guarded, Inside
<1>4. Pushing = {} /\ Counting = {}
  BY DEF Pushing, Counting, Threads
<1>5. Cardinality(Threads) \in Nat /\ Cardinality(Threads) >= 1
  <2>1. Cardinality({Out}) = 1 /\ {Out} \in SUBSET Threads
    BY FS_Singleton
  <2>2. QED BY <2>1, ThreadsFinite
<1>6. Cardinality(Pushing) = 0
  BY <1>4, FS_EmptySet
<1>7. Overshoot
  BY <1>5, <1>6 DEF Overshoot
<1> DEFINE N == Cardinality(Reporters)
<1>8. /\ N \in Nat /\ ErrorLimit \in Nat
      /\ \A v \in Counts : noticed[v] = 0
      /\ \A v \in 0..ErrorLimit : v \in Counts /\ stored[v] = IF v = 0 THEN 1 ELSE 0
      /\ \A v : Readers(v) = {} /\ Writers(v) = {}
  BY <1>4, ReportersFinite DEF NoNotice, OnlyZero, Counts, Readers, Writers
<1>9. OneNoticeEach
  <2>1. ErrorLimit + 1 \in Counts /\ 0 \in 0..ErrorLimit
    BY <1>8 DEF Counts
  <2>2. \A v \in 0..ErrorLimit : noticed[v] <= N * stored[v]
    BY <1>8
  <2>3. noticed[0] <= N * (stored[0] - 1) + Cardinality(Readers(0))
    <3>1. noticed[0] = 0 /\ stored[0] - 1 = 0
      BY <1>8, <2>1
    <3>2. N * (stored[0] - 1) = 0
      BY <1>8, <3>1
    <3>3. Cardinality(Readers(0)) \in Nat
      BY ReadersCounted
    <3>4. QED BY <3>1, <3>2, <3>3
  <2>4. QED BY <1>8, <2>1, <2>2, <2>3 DEF OneNoticeEach
<1>10. OneStoreEach
  <2>1. ASSUME NEW v \in 0..ErrorLimit - 1
        PROVE  IF v = errorCount
                 THEN stored[v + 1] <= N * stored[v]
                 ELSE stored[v + 1] + Cardinality(Writers(v)) <= N * (stored[v] + 1)
    <3>1. v \in 0..ErrorLimit /\ v + 1 \in 0..ErrorLimit /\ v + 1 # 0
      BY <1>8
    <3>2. /\ stored[v + 1] = 0 /\ stored[v] = IF v = 0 THEN 1 ELSE 0
          /\ Cardinality(Writers(v)) = 0
      BY <1>8, <3>1, FS_EmptySet
    <3>3. QED BY <1>8, <3>2
  <2>2. QED BY <1>8, <2>1 DEF OneStoreEach
<1>11. QED BY <1>1, <1>2, <1>3, <1>7, <1>9, <1>10 DEF QInv

\* The invariant holds of every behaviour of the threads.
THEOREM QueueInvariance == Spec => []QInv
<1>1. QInv /\ [Next]_vars => QInv'
  BY TypeStep, ConsumerStep, GuardedStep, OvershootStep, CountStep DEF QInv
<1>2. QED BY QInit, <1>1, PTL DEF Spec

\* messQueue never holds more than its limit and one message per thread: the
\* unlocked size() of insertIntoOutputQueue and LoggerInsertIntoOutputQueue.
THEOREM QueueIsBounded == Spec => []QueueBounded
<1>1. QInv => QueueBounded
  <2>1. Cardinality(Pushing) \in Nat /\ Cardinality(Threads) \in Nat
    BY ThreadsFinite DEF Pushing
  <2>2. QED BY <2>1, QueueAssumption DEF QInv, Overshoot, QueueBounded, TypeOK
<1>2. QED BY <1>1, QueueInvariance, PTL

\* logger produces a bounded number of notices between two messages that get
\* through, although its increments of ErrorCount are lost and come late.
THEOREM NoticesAreBounded == Spec => []NoticesBounded
<1>1. QInv => NoticesBounded
  <2> SUFFICES ASSUME QInv, NEW v \in Counts
               PROVE  noticed[v] <= Cardinality(Reporters) * Visits[v]
    BY DEF NoticesBounded
  <2> DEFINE N == Cardinality(Reporters)
  <2>1. N \in Nat /\ ErrorLimit \in Nat
    BY ReportersFinite, QueueAssumption
  <2>2. CASE v \in 0..ErrorLimit
    <3>1. noticed[v] <= N * stored[v] /\ noticed[v] \in Nat /\ stored[v] \in Nat
      BY <2>2 DEF QInv, OneNoticeEach, TypeOK
    <3>2. Visits[v] \in Nat /\ stored[v] <= Visits[v]
      BY <2>2, StoresBounded DEF QInv
    <3> DEFINE d == Visits[v] - stored[v]
    <3>3. d \in Nat /\ Visits[v] = stored[v] + d
      BY <3>1, <3>2
    <3>4. N * Visits[v] = N * stored[v] + N * d /\ N * d \in Nat /\ N * stored[v] \in Nat
      BY <2>1, <3>1, <3>3
    <3> HIDE DEF d, N
    <3>5. noticed[v] <= N * Visits[v]
      BY <3>1, <3>4
    <3>6. QED BY <3>5 DEF N
  <2>3. CASE v = ErrorLimit + 1
    <3>1. noticed[v] = 0 /\ Visits[v] \in Nat
      BY <2>3, StoresBounded DEF QInv, OneNoticeEach
    <3>2. QED BY <2>1, <3>1
  <2>4. QED BY <2>1, <2>2, <2>3 DEF Counts
<1>2. QED BY <1>1, QueueInvariance, PTL

\* The mutex keeps two threads from being at messQueue together, unless one
\* came before outputMain had created it.
THEOREM QueueExclusive == Spec => []Exclusive
<1>1. QInv => Exclusive
  BY DEF QInv, Guarded, Exclusive
<1>2. QED BY <1>1, QueueInvariance, PTL

\* pop() is never called on an empty queue.
THEOREM QueueTypes == Spec => []TypeOK
<1>1. QInv => TypeOK
  BY DEF QInv
<1>2. QED BY <1>1, QueueInvariance, PTL
=============================================================================
