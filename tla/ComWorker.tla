-------------------------------- MODULE ComWorker --------------------------------
(***************************************************************************)
(* TextToSpeechServiceCOMRPC::AsyncWorker                                  *)
(* (ttsclient/TextToSpeechServiceCOMRPC.cpp:27-62): a list of tasks and a  *)
(* thread, created by the first post(), that sleeps on a condition         *)
(* variable while the list is empty.  There is one poster: m_engine is an  *)
(* RPC::InvokeServerType<1, 0, 4>, whose only thread delivers the plugin's *)
(* notifications.  The destructor of the service calls cleanup() twice,    *)
(* from uninitialize() and from ~AsyncWorker.                              *)
(*                                                                         *)
(* The thread unlocks m_mutex by hand (line 44) and once more when its     *)
(* unique_lock goes out of scope (line 47).  The second unlock is          *)
(* undefined when the thread does not own the mutex; as built with glibc   *)
(* or musl it frees the mutex, whoever holds it.  When two threads are     *)
(* then inside together, the access to the list either works or ends the   *)
(* process (crashed).                                                      *)
(***************************************************************************)
EXTENDS Naturals, Sequences

CONSTANT MaxPosts   \* bound: how many notifications arrive

ASSUME MaxPostsAssumption == MaxPosts \in Nat

Tasks == 1..MaxPosts

VARIABLES
  taskList,  \* m_tasklist
  running,   \* m_running
  thread,    \* m_thread is not null
  locked,    \* m_mutex is locked
  runner,    \* how far the thread is
  doing,     \* the task it runs, 0 for none
  poster,    \* how far the engine's thread is in post()
  posted,    \* how many tasks have been posted
  dtor,      \* how far the destructor of the service is
  crashed    \* the list was torn

vars == <<taskList, running, thread, locked, runner, doing, poster, posted, dtor, crashed>>

RunnerStates ==
  {"none", "lock", "examine", "sleep", "waiting", "awake", "exec", "unlock", "done"}
PosterStates == {"idle", "push", "notify", "unlock"}
DtorStates == {"no", "stop1", "join1", "closing", "closed", "stop2", "join2", "gone"}

TypeOK ==
  /\ taskList \in Seq(Tasks)
  /\ running \in BOOLEAN /\ thread \in BOOLEAN /\ locked \in BOOLEAN /\ crashed \in BOOLEAN
  /\ runner \in RunnerStates /\ doing \in Tasks \cup {0}
  /\ poster \in PosterStates /\ posted \in 0..MaxPosts
  /\ dtor \in DtorStates

Init ==
  /\ taskList = <<>> /\ running = TRUE /\ thread = FALSE /\ locked = FALSE
  /\ runner = "none" /\ doing = 0
  /\ poster = "idle" /\ posted = 0
  /\ dtor = "no" /\ crashed = FALSE

--------------------------------------------------------------------------------
(* post(), on the engine's thread *)

posterLocals == <<poster, posted>>
runnerLocals == <<runner, doing>>

\* A notification arrives while the plugin knows m_notification.
PostLock ==
  /\ poster = "idle" /\ ~locked
  /\ posted < MaxPosts /\ dtor \in {"no", "stop1", "join1", "closing"}
  /\ locked' = TRUE /\ poster' = "push"
  /\ UNCHANGED <<taskList, running, thread, runnerLocals, posted, dtor, crashed>>

\* Mutant of Push: the new task goes first.
PushFront ==
  /\ poster = "push"
  /\ taskList' = <<posted + 1>> \o taskList /\ posted' = posted + 1
  /\ poster' = "notify"
  /\ UNCHANGED <<running, thread, locked, runnerLocals, dtor, crashed>>

\* Mutant of Push: a number is left out.
PushSkips ==
  /\ poster = "push"
  /\ taskList' = Append(taskList, posted + 2) /\ posted' = posted + 2
  /\ poster' = "notify"
  /\ UNCHANGED <<running, thread, locked, runnerLocals, dtor, crashed>>

\* push_back()
Push ==
  /\ poster = "push"
  /\ taskList' = Append(taskList, posted + 1) /\ posted' = posted + 1
  /\ poster' = "notify"
  /\ UNCHANGED <<running, thread, locked, runnerLocals, dtor, crashed>>

\* notify_one()
Notified == IF runner = "waiting" THEN "lock" ELSE runner

\* Nobody waits while there is no thread, so the two statements are one step.
NotifyOrCreate ==
  /\ poster = "notify"
  /\ runner' = IF thread THEN Notified ELSE "lock"
  /\ thread' = TRUE
  /\ poster' = "unlock"
  /\ UNCHANGED <<taskList, running, locked, doing, posted, dtor, crashed>>

PostUnlock ==
  /\ poster = "unlock"
  /\ locked' = FALSE /\ poster' = "idle"
  /\ UNCHANGED <<taskList, running, thread, runnerLocals, posted, dtor, crashed>>

--------------------------------------------------------------------------------
(* the thread *)

\* The unique_lock is made, or the wait is over.
Lock ==
  /\ runner = "lock" /\ ~locked
  /\ locked' = TRUE /\ runner' = "examine"
  /\ UNCHANGED <<taskList, running, thread, doing, posterLocals, dtor, crashed>>

\* The predicate of the wait.
Examine ==
  /\ runner = "examine"
  /\ runner' = IF taskList # <<>> \/ ~running THEN "awake" ELSE "sleep"
  /\ UNCHANGED <<taskList, running, thread, locked, doing, posterLocals, dtor, crashed>>

\* wait(): the mutex is released and the thread waits, at once.
Sleep ==
  /\ runner = "sleep"
  /\ locked' = FALSE /\ runner' = "waiting"
  /\ UNCHANGED <<taskList, running, thread, doing, posterLocals, dtor, crashed>>

SpuriousWakeup ==
  /\ runner = "waiting" /\ runner' = "lock"
  /\ UNCHANGED <<taskList, running, thread, locked, doing, posterLocals, dtor, crashed>>

\* if(!m_running) break
Leave ==
  /\ runner = "awake" /\ ~running
  /\ locked' = FALSE /\ runner' = "done"
  /\ UNCHANGED <<taskList, running, thread, doing, posterLocals, dtor, crashed>>

\* front(), pop_front(), the first unlock
Take ==
  /\ runner = "awake" /\ running
  /\ doing' = Head(taskList) /\ taskList' = Tail(taskList)
  /\ locked' = FALSE /\ runner' = "exec"
  /\ UNCHANGED <<running, thread, posterLocals, dtor, crashed>>

TaskReturns ==
  /\ runner = "exec"
  /\ doing' = 0 /\ runner' = "unlock"
  /\ UNCHANGED <<taskList, running, thread, locked, posterLocals, dtor, crashed>>

\* The unique_lock goes out of scope.
SecondUnlock ==
  /\ runner = "unlock"
  /\ locked' = FALSE /\ runner' = "lock"
  /\ UNCHANGED <<taskList, running, thread, doing, posterLocals, dtor, crashed>>

\* Both threads are at the list.
Torn ==
  /\ poster = "push" /\ runner \in {"examine", "awake"}
  /\ crashed' = TRUE
  /\ UNCHANGED <<taskList, running, thread, locked, runnerLocals, posterLocals, dtor>>

--------------------------------------------------------------------------------
(* cleanup(), called by uninitialize() and by ~AsyncWorker *)

\* Mutant of StopRunning: m_running stays true.
StopNothing(from, to) ==
  /\ dtor = from /\ dtor' = to
  /\ UNCHANGED <<taskList, running, thread, locked, runnerLocals, posterLocals, crashed>>

\* m_running = false
StopRunning(from, to) ==
  /\ dtor = from /\ dtor' = to
  /\ running' = FALSE
  /\ UNCHANGED <<taskList, thread, locked, runnerLocals, posterLocals, crashed>>

\* if(!m_thread) return; notify_one()
CheckThread(from, join, to) ==
  /\ dtor = from
  /\ dtor' = IF thread THEN join ELSE to
  /\ runner' = IF thread THEN Notified ELSE runner
  /\ UNCHANGED <<taskList, running, thread, locked, doing, posterLocals, crashed>>

\* Mutant of Join: the thread is detached.
JoinNothing(join, to) ==
  /\ dtor = join
  /\ dtor' = to /\ thread' = FALSE
  /\ UNCHANGED <<taskList, running, locked, runnerLocals, posterLocals, crashed>>

\* join(), delete, m_thread = nullptr
Join(join, to) ==
  /\ dtor = join /\ runner = "done"
  /\ dtor' = to /\ thread' = FALSE
  /\ UNCHANGED <<taskList, running, locked, runnerLocals, posterLocals, crashed>>

\* uninitialize() unregisters m_notification, closes the channel and releases
\* the engine, whose thread ends.
CloseChannel ==
  /\ dtor = "closing" /\ poster = "idle"
  /\ dtor' = "closed"
  /\ UNCHANGED <<taskList, running, thread, locked, runnerLocals, posterLocals, crashed>>

Poster == PostLock \/ Push \/ NotifyOrCreate \/ PostUnlock
Runner ==
  \/ Lock \/ Examine \/ Sleep \/ SpuriousWakeup
  \/ Leave \/ Take \/ TaskReturns \/ SecondUnlock
Destructor ==
  \/ StopRunning("no", "stop1") \/ CheckThread("stop1", "join1", "closing")
  \/ Join("join1", "closing") \/ CloseChannel
  \/ StopRunning("closed", "stop2") \/ CheckThread("stop2", "join2", "gone")
  \/ Join("join2", "gone")

\* The process is over.
Terminated == (crashed \/ dtor = "gone") /\ UNCHANGED vars

Next ==
  \/ ~crashed /\ (Poster \/ Runner \/ Destructor \/ Torn)
  \/ Terminated

Spec == Init /\ [][Next]_vars

--------------------------------------------------------------------------------
(* Properties. *)

\* The first cleanup() is over.
Cleaned == {"closing", "closed", "stop2", "join2", "gone"}

\* uninitialize() releases the remote object and ~TextToSpeechServiceCOMRPC
\* ends: from the first cleanup() on no task is running or will run, also
\* when a late notification makes post() create another thread.
SilentAfterCleanup ==
  dtor \in Cleaned => doing = 0

\* The members of the worker are gone: no thread is left to use them.
NoThreadLeft == dtor = "gone" => runner \in {"none", "done"} /\ poster = "idle"

\* A notification that was posted is not forgotten: while the list holds one
\* and the worker is not being stopped, the thread does not sleep.
\* test/TTSMultiClientTest.cpp:206 waits for the completion of each speech.
NoNotificationStranded ==
  taskList # <<>> /\ poster = "idle" /\ running => runner # "waiting"

\* The task being run, if there is one.
Current == {doing} \ {0}

\* Tasks are run one at a time, each once, in the order of the notifications.
Queue == INSTANCE TaskQueue WITH Width <- 1, queue <- taskList, current <- Current

RunsInOrder == Queue!Spec

--------------------------------------------------------------------------------
(* The inductive invariant. *)

StopIsFinal == dtor # "no" => ~running

\* Without m_thread there is no thread; a thread that ends does not come back.
ThreadKnown == ~thread => runner \in {"none", "done"}

TaskInHand == doing # 0 <=> runner = "exec"
AwakeHasTask == runner = "awake" /\ running => taskList # <<>>
PushFits == poster = "push" => posted < MaxPosts
CleanedIsSilent == dtor \in Cleaned => runner # "exec"
EngineStopped == dtor \in Cleaned \ {"closing"} => poster = "idle"

IndInv ==
  /\ TypeOK /\ StopIsFinal /\ ThreadKnown /\ TaskInHand /\ AwakeHasTask /\ PushFits
  /\ CleanedIsSilent /\ EngineStopped /\ NoThreadLeft
================================================================================
