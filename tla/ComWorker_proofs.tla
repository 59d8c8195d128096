---------------------------- MODULE ComWorker_proofs -----------------------------
(***************************************************************************)
(* The safety properties of ComWorker hold for any number of               *)
(* notifications, although the second unlock breaks the mutual exclusion.  *)
(***************************************************************************)
EXTENDS ComWorker, FiniteSetTheorems, TLAPS

USE DEF vars, posterLocals, runnerLocals

LEMMA TypeOKInit == Init => TypeOK
<1> SUFFICES ASSUME Init
             PROVE  TypeOK
  OBVIOUS
<1>1. taskList \in Seq(Tasks)
  BY DEF Init
<1>2. posted \in 0..MaxPosts
  BY MaxPostsAssumption DEF Init
<1>3. running \in BOOLEAN /\ thread \in BOOLEAN /\ locked \in BOOLEAN /\ crashed \in BOOLEAN
  BY DEF Init
<1>4. QED
  BY <1>1, <1>2, <1>3 DEF Init, TypeOK, RunnerStates, PosterStates, DtorStates

\* Every step keeps the types.
LEMMA TypeOKStep == TypeOK /\ PushFits /\ AwakeHasTask /\ [Next]_vars => TypeOK'
<1> SUFFICES ASSUME TypeOK, PushFits, AwakeHasTask, [Next]_vars
             PROVE  TypeOK'
  OBVIOUS
<1> USE DEF RunnerStates, PosterStates, DtorStates
<1>1. CASE Push
  <2>1. posted + 1 \in Tasks
    BY <1>1, MaxPostsAssumption DEF Push, PushFits, TypeOK, Tasks
  <2>2. QED
    BY <1>1, <2>1 DEF Push, TypeOK, Tasks
<1>2. CASE Take
  <2>1. taskList \in Seq(Tasks) /\ taskList # <<>>
    BY <1>2 DEF Take, TypeOK, AwakeHasTask
  <2>2. doing' \in Tasks /\ taskList' \in Seq(Tasks)
    BY <1>2, <2>1 DEF Take
  <2>3. UNCHANGED <<running, thread, posterLocals, dtor, crashed>>
    BY <1>2 DEF Take
  <2>4. locked' \in BOOLEAN /\ runner' \in RunnerStates
    BY <1>2 DEF Take
  <2>5. QED
    BY <2>2, <2>3, <2>4 DEF TypeOK
<1>3. CASE PostLock \/ NotifyOrCreate \/ PostUnlock
  <2>1. locked' \in BOOLEAN /\ thread' \in BOOLEAN /\ running' \in BOOLEAN
    BY <1>3 DEF PostLock, NotifyOrCreate, PostUnlock, TypeOK
  <2>2. runner' \in RunnerStates /\ poster' \in PosterStates
    BY <1>3 DEF PostLock, NotifyOrCreate, PostUnlock, Notified, TypeOK
  <2>3. UNCHANGED <<taskList, posted, doing, dtor, crashed>>
    BY <1>3 DEF PostLock, NotifyOrCreate, PostUnlock
  <2>4. QED
    BY <2>1, <2>2, <2>3 DEF TypeOK
<1>4. CASE Lock \/ Examine \/ Sleep \/ SpuriousWakeup
  <2>1. locked' \in BOOLEAN /\ runner' \in RunnerStates
    BY <1>4 DEF Lock, Examine, Sleep, SpuriousWakeup, TypeOK
  <2>2. UNCHANGED <<taskList, running, thread, doing, posterLocals, dtor, crashed>>
    BY <1>4 DEF Lock, Examine, Sleep, SpuriousWakeup
  <2>3. QED
    BY <2>1, <2>2 DEF TypeOK
<1>5. CASE Leave \/ TaskReturns \/ SecondUnlock
  <2>1. locked' \in BOOLEAN /\ runner' \in RunnerStates
    BY <1>5 DEF Leave, TaskReturns, SecondUnlock, TypeOK
  <2>2. doing' \in {doing, 0}
    BY <1>5 DEF Leave, TaskReturns, SecondUnlock
  <2>3. UNCHANGED <<taskList, running, thread, posterLocals, dtor, crashed>>
    BY <1>5 DEF Leave, TaskReturns, SecondUnlock
  <2>4. QED
    BY <2>1, <2>2, <2>3 DEF TypeOK
<1>6. CASE Destructor
  <2>1. running' \in BOOLEAN /\ thread' \in BOOLEAN
    BY <1>6 DEF Destructor, StopRunning, CheckThread, Join, CloseChannel, TypeOK
  <2>2. runner' \in RunnerStates /\ dtor' \in DtorStates
    BY <1>6 DEF Destructor, StopRunning, CheckThread, Join, CloseChannel, Notified, TypeOK
  <2>3. UNCHANGED <<taskList, locked, doing, posterLocals, crashed>>
    BY <1>6 DEF Destructor, StopRunning, CheckThread, Join, CloseChannel
  <2>4. QED
    BY <2>1, <2>2, <2>3 DEF TypeOK
<1>7. CASE Torn
  BY <1>7 DEF Torn, TypeOK
<1>8. CASE UNCHANGED vars
  BY <1>8 DEF TypeOK
<1>9. QED
  BY <1>1, <1>2, <1>3, <1>4, <1>5, <1>6, <1>7, <1>8 DEF Next, Poster, Runner, Terminated

LEMMA IndInvInit == Init => IndInv
<1> SUFFICES ASSUME Init
             PROVE  IndInv
  OBVIOUS
<1>1. TypeOK
  BY TypeOKInit
<1>2. QED
  BY <1>1 DEF Init, IndInv, StopIsFinal, ThreadKnown, TaskInHand, AwakeHasTask, PushFits,
              CleanedIsSilent, EngineStopped, NoThreadLeft, Cleaned

\* The engine's thread may interfere at any point, but it makes a thread only
\* when there is none, and a new thread finds m_running as the destructor
\* left it.
LEMMA PosterStep == IndInv /\ ~crashed /\ Poster => IndInv'
<1> SUFFICES ASSUME IndInv, ~crashed, Poster
             PROVE  IndInv'
  OBVIOUS
<1> USE DEF StopIsFinal, ThreadKnown, TaskInHand, AwakeHasTask, PushFits,
            CleanedIsSilent, EngineStopped, NoThreadLeft, Cleaned
<1>1. TypeOK'
  BY TypeOKStep DEF IndInv, Next
<1>2. CASE PostLock
  BY <1>1, <1>2 DEF PostLock, IndInv
<1>3. CASE Push
  <2>1. taskList' # <<>>
    BY <1>3 DEF Push, IndInv, TypeOK
  <2>2. QED
    BY <1>1, <1>3, <2>1 DEF Push, IndInv
<1>4. CASE NotifyOrCreate
  BY <1>1, <1>4 DEF NotifyOrCreate, Notified, IndInv
<1>5. CASE PostUnlock
  BY <1>1, <1>5 DEF PostUnlock, IndInv
<1>6. QED
  BY <1>2, <1>3, <1>4, <1>5 DEF Poster

\* m_running stays false once it is, so a thread that wakes up takes no task
\* that it has not seen.
LEMMA RunnerStep == IndInv /\ ~crashed /\ Runner => IndInv'
<1> SUFFICES ASSUME IndInv, ~crashed, Runner
             PROVE  IndInv'
  OBVIOUS
<1> USE DEF StopIsFinal, ThreadKnown, TaskInHand, AwakeHasTask, PushFits,
            CleanedIsSilent, EngineStopped, NoThreadLeft, Cleaned
<1>1. TypeOK'
  BY TypeOKStep DEF IndInv, Next
<1>2. CASE Lock \/ Examine \/ Sleep \/ SpuriousWakeup
  BY <1>1, <1>2 DEF Lock, Examine, Sleep, SpuriousWakeup, IndInv
<1>3. CASE Leave \/ TaskReturns \/ SecondUnlock
  BY <1>1, <1>3 DEF Leave, TaskReturns, SecondUnlock, IndInv
<1>4. CASE Take
  <2>1. Head(taskList) \in Tasks /\ Head(taskList) # 0
    BY <1>4, MaxPostsAssumption DEF Take, IndInv, TypeOK, Tasks
  <2>2. QED
    BY <1>1, <1>4, <2>1 DEF Take, IndInv
<1>5. QED
  BY <1>2, <1>3, <1>4 DEF Runner

\* The destructor leaves cleanup() either because there is no thread or
\* because the thread has ended.
LEMMA DestructorStep == IndInv /\ ~crashed /\ Destructor => IndInv'
<1> SUFFICES ASSUME IndInv, ~crashed, Destructor
             PROVE  IndInv'
  OBVIOUS
<1> USE DEF StopIsFinal, ThreadKnown, TaskInHand, AwakeHasTask, PushFits,
            CleanedIsSilent, EngineStopped, NoThreadLeft, Cleaned
<1>1. TypeOK'
  BY TypeOKStep DEF IndInv, Next
<1>2. CASE StopRunning("no", "stop1") \/ StopRunning("closed", "stop2")
  BY <1>1, <1>2 DEF StopRunning, IndInv
<1>3. CASE CheckThread("stop1", "join1", "closing")
  BY <1>1, <1>3 DEF CheckThread, Notified, IndInv
<1>4. CASE CheckThread("stop2", "join2", "gone")
  BY <1>1, <1>4 DEF CheckThread, Notified, IndInv
<1>5. CASE Join("join1", "closing") \/ Join("join2", "gone")
  BY <1>1, <1>5 DEF Join, IndInv
<1>6. CASE CloseChannel
  BY <1>1, <1>6 DEF CloseChannel, IndInv
<1>7. QED
  BY <1>2, <1>3, <1>4, <1>5, <1>6 DEF Destructor

LEMMA IndInvStep == IndInv /\ [Next]_vars => IndInv'
<1> SUFFICES ASSUME IndInv, [Next]_vars
             PROVE  IndInv'
  OBVIOUS
<1>1. CASE Torn \/ UNCHANGED vars
  <2>1. TypeOK'
    BY TypeOKStep DEF IndInv
  <2>2. QED
    BY <1>1, <2>1 DEF Torn, IndInv, StopIsFinal, ThreadKnown, TaskInHand, AwakeHasTask,
                      PushFits, CleanedIsSilent, EngineStopped, NoThreadLeft, Cleaned
<1>2. QED
  BY <1>1, PosterStep, RunnerStep, DestructorStep DEF Next, Terminated

THEOREM Invariance == Spec => []IndInv
BY IndInvInit, IndInvStep, PTL DEF Spec

\* TypeOK: the members keep their types.
THEOREM TypeCorrect == Spec => []TypeOK
<1>1. IndInv => TypeOK
  BY DEF IndInv
<1>2. QED
  BY <1>1, Invariance, PTL

\* SilentAfterCleanup: after the first cleanup() no task runs, for any number
\* of notifications and however the second unlock falls.
THEOREM CleanupIsFinal == Spec => []SilentAfterCleanup
<1>1. IndInv => SilentAfterCleanup
  BY DEF IndInv, SilentAfterCleanup, CleanedIsSilent, TaskInHand
<1>2. QED
  BY <1>1, Invariance, PTL

\* NoThreadLeft: when ~AsyncWorker has returned, nobody uses its members.
THEOREM NothingLeft == Spec => []NoThreadLeft
<1>1. IndInv => NoThreadLeft
  BY DEF IndInv
<1>2. QED
  BY <1>1, Invariance, PTL

\* Every step is one of the abstract queue's, or changes nothing it shows.
LEMMA QueueStep == IndInv /\ [Next]_vars => [Queue!Next]_(Queue!queueVars)
<1> SUFFICES ASSUME IndInv, [Next]_vars
             PROVE  [Queue!Next]_(Queue!queueVars)
  OBVIOUS
<1> USE DEF Queue!queueVars
<1>1. CASE Push
  <2>1. posted + 1 \in Tasks
    BY <1>1, MaxPostsAssumption DEF Push, IndInv, PushFits, TypeOK, Tasks
  <2>2. Queue!Post(posted + 1)
    BY <1>1 DEF Push, Queue!Post, Current
  <2>3. QED
    BY <2>1, <2>2 DEF Queue!Next
<1>2. CASE Take
  <2>1. Current = {}
    BY <1>2 DEF Take, IndInv, TaskInHand, Current
  <2>2. taskList # <<>> /\ Head(taskList) \in Tasks
    BY <1>2 DEF Take, IndInv, AwakeHasTask, TypeOK
  <2>3. Current' = {Head(taskList)} /\ taskList' = Tail(taskList)
    BY <1>2, <2>2 DEF Take, Current, Tasks
  <2>4. Queue!Cardinality(Current) = 0
    <3>1. Queue!Cardinality(Current) = Cardinality(Current)
      BY DEF Queue!Cardinality, Cardinality
    <3>2. QED
      BY <2>1, <3>1, FS_EmptySet
  <2>5. Queue!Begin
    BY <2>1, <2>2, <2>3, <2>4 DEF Queue!Begin
  <2>6. QED
    BY <2>5 DEF Queue!Next
<1>3. CASE TaskReturns
  <2>1. doing \in Tasks /\ Queue!End(doing)
    BY <1>3 DEF TaskReturns, Queue!End, IndInv, TaskInHand, TypeOK, Current
  <2>2. QED
    BY <2>1 DEF Queue!Next
<1>4. CASE PostLock \/ NotifyOrCreate \/ PostUnlock \/ Torn \/ UNCHANGED vars
  BY <1>4 DEF PostLock, NotifyOrCreate, PostUnlock, Torn, vars, Current
<1>5. CASE Lock \/ Examine \/ Sleep \/ SpuriousWakeup \/ Leave \/ SecondUnlock
  BY <1>5 DEF Lock, Examine, Sleep, SpuriousWakeup, Leave, SecondUnlock, Current
<1>6. CASE Destructor
  BY <1>6 DEF Destructor, StopRunning, CheckThread, Join, CloseChannel, Current
<1>7. QED
  BY <1>1, <1>2, <1>3, <1>4, <1>5, <1>6 DEF Next, Poster, Runner, Terminated

\* RunsInOrder: the worker is a serial queue, for any number of notifications.
THEOREM WorkerIsSerial == Spec => RunsInOrder
<1>1. Init => Queue!Init
  BY DEF Init, Queue!Init, Current
<1>2. QED
  BY <1>1, QueueStep, Invariance, PTL DEF Spec, RunsInOrder, Queue!Spec
================================================================================
