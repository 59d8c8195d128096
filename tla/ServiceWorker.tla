------------------------------ MODULE ServiceWorker ------------------------------
(***************************************************************************)
(* Service::AsyncWorker (ttsclient/Service.cpp:44-83): a list of tasks and *)
(* a thread that is started when a task is posted and nobody is running,   *)
(* and ends when the list is empty.  post() is called                      *)
(*   - once by the constructor of the first service, from                  *)
(*     installStateChangeHandler() (the Installer), without a lock, and    *)
(*   - by OnPluginStateChange, under m_serviceListMutex, once the first    *)
(*     task has subscribed to the plugin state changes, which may be       *)
(*     before the constructor has stored the thread that runs it.          *)
(* A thread is named after the post that created it.                       *)
(***************************************************************************)
EXTENDS Naturals, Sequences

CONSTANTS
  Posters,      \* the threads that post
  Installer,    \* the one that constructs the service
  MaxPosts      \* bound: how many tasks are posted

ASSUME PostersAssumption == Installer \in Posters
ASSUME MaxPostsAssumption == MaxPosts \in Nat

Tasks == 1..MaxPosts

VARIABLES
  taskList,  \* m_tasklist
  running,   \* m_running
  thread,    \* m_thread, 0 for the null pointer
  runner,    \* the threads: how far each one is
  doing,     \* the task each thread runs, or ran last
  pc, mine,  \* the posters: where each is in post(), the task it posted
  joins,     \* the thread each poster joins, or joined last
  posted,    \* how many tasks have been posted
  dtor,      \* how far the destructor is
  broken,    \* std::terminate() was called, or a deleted worker was used
  lost,      \* history: threads that m_thread named and that nobody can join
  early      \* history: an event was posted after the first thread had left
             \* and before the constructor's post() had returned

posterVars  == <<pc, mine, joins>>
historyVars == <<lost, early>>
vars == <<taskList, running, thread, runner, doing, posterVars, posted, dtor, broken, historyVars>>

RunnerStates == {"none", "started", "exec", "ran", "done", "joined"}
PosterStates == {"idle", "cleanup", "join", "wait", "delete", "forget", "spawn", "store", "returned"}

TypeOK ==
  /\ taskList \in Seq(Tasks)
  /\ running \in BOOLEAN
  /\ thread \in Tasks \cup {0}
  /\ runner \in [Tasks -> RunnerStates]
  /\ doing \in [Tasks -> Tasks \cup {0}]
  /\ pc \in [Posters -> PosterStates]
  /\ mine \in [Posters -> Tasks \cup {0}] /\ joins \in [Posters -> Tasks \cup {0}]
  /\ posted \in 0..MaxPosts
  /\ dtor \in {"no", "cleanup", "gone"}
  /\ broken \in BOOLEAN /\ lost \subseteq Tasks /\ early \in BOOLEAN

Init ==
  /\ taskList = <<>> /\ running = FALSE /\ thread = 0
  /\ runner = [t \in Tasks |-> "none"] /\ doing = [t \in Tasks |-> 0]
  /\ pc = [p \in Posters |-> "idle"] /\ mine = [p \in Posters |-> 0] /\ joins = [p \in Posters |-> 0]
  /\ posted = 0 /\ dtor = "no" /\ broken = FALSE /\ lost = {} /\ early = FALSE

--------------------------------------------------------------------------------
(* post() *)

\* A thread that is inside post().
Posting(p) == pc[p] \notin {"idle", "returned"}

\* m_serviceListMutex: held through post() by every poster but the installer.
ListMutexFree == \A p \in Posters \ {Installer} : ~Posting(p)

\* What a poster becomes when post() returns; the installer posts once.
Returned(p) == IF p = Installer THEN "returned" ELSE "idle"

Goto(p, l) == pc' = [pc EXCEPT ![p] = l]

\* Mutant of Push: one call leaves two tasks on the list.
PushTwice(p) ==
  /\ posted < MaxPosts
  /\ taskList' = taskList \o <<posted + 1, posted + 2>> /\ posted' = posted + 2
  /\ Goto(p, IF running THEN Returned(p) ELSE "cleanup")
  /\ mine' = [mine EXCEPT ![p] = posted + 1]
  /\ UNCHANGED <<running, thread, runner, doing, joins, dtor, broken, lost>>

\* Mutant of Push: the caller asks whether there is a thread, not whether it runs.
PushAsksThread(p) ==
  /\ posted < MaxPosts
  /\ taskList' = Append(taskList, posted + 1) /\ posted' = posted + 1
  /\ Goto(p, IF thread # 0 THEN Returned(p) ELSE "cleanup")
  /\ mine' = [mine EXCEPT ![p] = posted + 1]
  /\ UNCHANGED <<running, thread, runner, doing, joins, dtor, broken, lost>>

\* post() up to m_mutex.unlock(), and its return when a thread is running.
Push(p) ==
  /\ posted < MaxPosts
  /\ taskList' = Append(taskList, posted + 1) /\ posted' = posted + 1
  /\ Goto(p, IF running THEN Returned(p) ELSE "cleanup")
  /\ mine' = [mine EXCEPT ![p] = posted + 1]
  /\ UNCHANGED <<running, thread, runner, doing, joins, dtor, broken, lost>>

\* The constructor: call_once, and nobody else knows the service yet.
InstallPost ==
  /\ pc[Installer] = "idle" /\ posted = 0
  /\ Push(Installer) /\ UNCHANGED early

\* OnPluginStateChange: the first task is being run, or was, so the
\* subscription exists; the service is still in m_services.
EventPost(p) ==
  /\ p # Installer /\ pc[p] = "idle" /\ ListMutexFree
  /\ \E t \in Tasks : doing[t] # 0
  /\ dtor = "no"
  /\ Push(p)
  /\ early' = (early \/ (~running /\ pc[Installer] # "returned"))

\* Mutant of CheckThread: the old thread is not joined.
CheckThreadOnly(p) ==
  /\ pc[p] = "cleanup" /\ Goto(p, "spawn")
  /\ UNCHANGED <<taskList, running, thread, runner, doing, mine, joins, posted, dtor, broken, historyVars>>

\* cleanup(): if(!m_thread) return
CheckThread(p) ==
  /\ pc[p] = "cleanup" /\ Goto(p, IF thread = 0 THEN "spawn" ELSE "join")
  /\ UNCHANGED <<taskList, running, thread, runner, doing, mine, joins, posted, dtor, broken, historyVars>>

\* m_thread-> is read
JoinBegins(p) ==
  /\ pc[p] = "join" /\ Goto(p, "wait") /\ joins' = [joins EXCEPT ![p] = thread]
  /\ UNCHANGED <<taskList, running, thread, runner, doing, mine, posted, dtor, broken, historyVars>>

\* and ->join() returns.
JoinEnds(p) ==
  /\ pc[p] = "wait" /\ joins[p] # 0 /\ runner[joins[p]] = "done"
  /\ Goto(p, "delete") /\ runner' = [runner EXCEPT ![joins[p]] = "joined"]
  /\ UNCHANGED <<taskList, running, thread, doing, mine, joins, posted, dtor, broken, historyVars>>

\* delete m_thread: if it is another thread's object by now, one that was
\* not joined, the process ends.
DeleteThread(p) ==
  /\ pc[p] = "delete"
  /\ IF thread # 0 /\ runner[thread] # "joined"
       THEN broken' = TRUE /\ UNCHANGED pc
       ELSE Goto(p, "forget") /\ UNCHANGED broken
  /\ UNCHANGED <<taskList, running, thread, runner, doing, mine, joins, posted, dtor, historyVars>>

\* m_thread is written: nobody will join the thread it named until now.
Overwrite(t) ==
  /\ thread' = t
  /\ lost' = lost \cup (IF thread = 0 \/ runner[thread] = "joined" THEN {} ELSE {thread})

\* m_thread = nullptr
ForgetThread(p) ==
  /\ pc[p] = "forget" /\ Goto(p, "spawn") /\ Overwrite(0)
  /\ UNCHANGED <<taskList, running, runner, doing, mine, joins, posted, dtor, broken, early>>

\* new std::thread(...)
SpawnThread(p) ==
  /\ pc[p] = "spawn" /\ Goto(p, "store")
  /\ runner' = [runner EXCEPT ![mine[p]] = "started"]
  /\ UNCHANGED <<taskList, running, thread, doing, mine, joins, posted, dtor, broken, historyVars>>

\* m_thread = ..., and post() returns.
StoreThread(p) ==
  /\ pc[p] = "store" /\ Goto(p, Returned(p)) /\ Overwrite(mine[p])
  /\ UNCHANGED <<taskList, running, runner, doing, mine, joins, posted, dtor, broken, early>>

--------------------------------------------------------------------------------
(* The threads, and the destructor. *)

\* Mutant of Take: the newest task first.
TakeNewest(t) ==
  /\ runner[t] \in {"started", "ran"} /\ taskList # <<>> /\ dtor # "gone"
  /\ running' = (running \/ runner[t] = "started")
  /\ doing' = [doing EXCEPT ![t] = taskList[Len(taskList)]]
  /\ taskList' = SubSeq(taskList, 1, Len(taskList) - 1)
  /\ runner' = [runner EXCEPT ![t] = "exec"]
  /\ UNCHANGED <<thread, posterVars, posted, dtor, broken, historyVars>>

\* The thread, with m_mutex: m_running = true on its first turn, then it
\* takes the first task.
Take(t) ==
  /\ runner[t] \in {"started", "ran"} /\ taskList # <<>> /\ dtor # "gone"
  /\ running' = (running \/ runner[t] = "started")
  /\ doing' = [doing EXCEPT ![t] = Head(taskList)] /\ taskList' = Tail(taskList)
  /\ runner' = [runner EXCEPT ![t] = "exec"]
  /\ UNCHANGED <<thread, posterVars, posted, dtor, broken, historyVars>>

\* task(worker->m_service) returns.
TaskReturns(t) ==
  /\ runner[t] = "exec" /\ dtor # "gone"
  /\ runner' = [runner EXCEPT ![t] = "ran"]
  /\ UNCHANGED <<taskList, running, thread, doing, posterVars, posted, dtor, broken, historyVars>>

\* Mutant of Leave: m_running stays true.
LeaveRunning(t) ==
  /\ runner[t] \in {"started", "ran"} /\ taskList = <<>> /\ dtor # "gone"
  /\ runner' = [runner EXCEPT ![t] = "done"]
  /\ UNCHANGED <<taskList, running, thread, doing, posterVars, posted, dtor, broken, historyVars>>

\* The list is empty: m_running = false, and the thread ends.
Leave(t) ==
  /\ runner[t] \in {"started", "ran"} /\ taskList = <<>> /\ dtor # "gone"
  /\ running' = FALSE
  /\ runner' = [runner EXCEPT ![t] = "done"]
  /\ UNCHANGED <<taskList, thread, doing, posterVars, posted, dtor, broken, historyVars>>

\* A thread that has not left when the worker is deleted goes on with what
\* is no longer there: the behaviour is undefined.
UseDeleted(t) ==
  /\ dtor = "gone" /\ runner[t] \in {"started", "exec", "ran"}
  /\ broken' = TRUE
  /\ UNCHANGED <<taskList, running, thread, runner, doing, posterVars, posted, dtor, historyVars>>

\* ~Service takes the service out of m_services under m_serviceListMutex.
Destroy ==
  /\ dtor = "no" /\ ListMutexFree /\ pc[Installer] = "returned"
  /\ dtor' = "cleanup"
  /\ UNCHANGED <<taskList, running, thread, runner, doing, posterVars, posted, broken, historyVars>>

\* Mutant of DestroyWorker: no join.
DestroyWorkerAtOnce ==
  /\ dtor = "cleanup"
  /\ thread' = 0 /\ dtor' = "gone"
  /\ UNCHANGED <<taskList, running, runner, doing, posterVars, posted, broken, historyVars>>

\* ~AsyncWorker: cleanup() joins the last thread.
DestroyWorker ==
  /\ dtor = "cleanup" /\ (thread # 0 => runner[thread] = "done")
  /\ thread' = 0 /\ dtor' = "gone"
  /\ UNCHANGED <<taskList, running, runner, doing, posterVars, posted, broken, historyVars>>

\* The process is gone, or the worker and nothing is left to do.
Terminated ==
  /\ broken \/ (dtor = "gone" /\ \A t \in Tasks : runner[t] \in {"none", "done", "joined"})
  /\ UNCHANGED vars

\* post() after its unlock.
PostGoesOn(p) ==
  \/ CheckThread(p) \/ JoinBegins(p) \/ JoinEnds(p) \/ DeleteThread(p) \/ ForgetThread(p)
  \/ SpawnThread(p) \/ StoreThread(p)

RunnerStep(t) == Take(t) \/ TaskReturns(t) \/ Leave(t) \/ UseDeleted(t)

Next ==
  \/ /\ ~broken
     /\ \/ InstallPost
        \/ \E p \in Posters : EventPost(p) \/ PostGoesOn(p)
        \/ \E t \in Tasks : RunnerStep(t)
        \/ Destroy \/ DestroyWorker
  \/ Terminated

Spec == Init /\ [][Next]_vars

\* Threads run, post() does not stop half way (m_mutex is held for a few
\* instructions only), and every task returns: the remote calls in it are
\* bounded by THUNDER_RPC_TIMEOUT and its loops by their counters.
Fairness ==
  /\ \A p \in Posters : WF_vars(~broken /\ PostGoesOn(p))
  /\ \A t \in Tasks : WF_vars(~broken /\ RunnerStep(t))

FairSpec == Spec /\ Fairness

--------------------------------------------------------------------------------
(* Properties. *)

Live(t) == runner[t] \in {"started", "exec", "ran"}

\* Two threads never run beside each other, also when post() finds m_running
\* false because the last thread has not begun, unless m_thread was
\* overwritten while it named one of them (line 54, by the constructor's
\* post() and an event's at once).
OneRunner == \A t, u \in Tasks \ lost : Live(t) /\ Live(u) => t = u

\* However often events are posted, m_thread is overwritten in that way once
\* in the life of the worker: two threads at most run beside each other.
LostOnce == \A t, u \in lost : t = u

\* The one interleaving that does harm is an event reported after the first
\* thread has left and before the constructor has stored it: without it every
\* thread is joined, and no post() ends the process by deleting a std::thread
\* that was not.
CleanUnlessEarly == ~early => lost = {} /\ ~broken

\* No task is left behind: while the list holds one, a thread is alive that
\* will look at it, or a poster is about to start one.
NoTaskStranded ==
  taskList # <<>> =>
    \/ \E t \in Tasks : Live(t)
    \/ \E p \in Posters : Posting(p) /\ pc[p] # "store"

\* When the destructor is through, only a thread that m_thread had lost may
\* still use the worker, and no posted task was dropped but to such a thread.
NothingAfterDestruction ==
  dtor = "gone" =>
    /\ \A t \in Tasks : Live(t) => t \in lost
    /\ taskList # <<>> => \E t \in lost : Live(t)

\* Every posted task is begun, unless the process broke before.
InList(t) == \E i \in DOMAIN taskList : taskList[i] = t
EveryTaskBegins == \A t \in Tasks : InList(t) ~> (~InList(t) \/ broken)

\* The tasks being run.
Current == {doing[t] : t \in {u \in Tasks : runner[u] = "exec"}}

Queue == INSTANCE TaskQueue WITH Width <- 2, queue <- taskList, current <- Current

\* The worker is a queue: tasks are begun in the order of the posts and each
\* once, two at most beside each other, whatever the threads do to m_running
\* and m_thread.
ImplementsQueue == Queue!Spec

--------------------------------------------------------------------------------
(* The inductive invariant of the proofs. *)

\* A thread is named after a task that was posted, and runs none before it
\* has begun.
Born ==
  \A t \in Tasks :
    /\ runner[t] # "none" => t <= posted
    /\ doing[t] # 0 => runner[t] \notin {"none", "started"}
    /\ runner[t] = "exec" => doing[t] # 0

\* m_running is not left behind.
RunningKnown == running => \E t \in Tasks : runner[t] \in {"exec", "ran"}

\* Every live thread is lost, named by m_thread, or about to be.
ThreadKnown ==
  \A t \in Tasks : Live(t) =>
    t \in lost \/ thread = t \/ \E p \in Posters : pc[p] = "store" /\ mine[p] = t

OnePoster == \A p, q \in Posters \ {Installer} : Posting(p) /\ Posting(q) => p = q

\* Nothing happens before the constructor has created the first thread.
NothingBefore ==
  /\ pc[Installer] \in {"idle", "cleanup", "spawn", "store", "returned"}
  /\ pc[Installer] \in {"idle", "cleanup", "spawn"} =>
       /\ \A p \in Posters \ {Installer} : ~Posting(p)
       /\ \A t \in Tasks : runner[t] = "none" /\ doing[t] = 0
       /\ thread = 0 /\ lost = {} /\ ~early /\ ~running
  /\ pc[Installer] \in {"cleanup", "spawn"} => mine[Installer] \in Tasks /\ mine[Installer] <= posted

\* Until the constructor has stored the first thread, nobody knows of it; the
\* others stay away as long as it lives.
FirstUnstored ==
  pc[Installer] = "store" =>
    LET first == mine[Installer] IN
    /\ first \in Tasks /\ first <= posted /\ thread # first /\ lost = {}
    /\ Live(first) \/ runner[first] = "done"
    /\ runner[first] \in {"exec", "ran"} => running
    /\ early => runner[first] = "done"
    /\ ~early => /\ thread = 0
                 /\ \A p \in Posters \ {Installer} : ~Posting(p)
                 /\ \A t \in Tasks \ {first} : runner[t] = "none"
    /\ \A p \in Posters \ {Installer} : Posting(p) => mine[p] # first

\* m_thread is the first thread, stored while an event was being posted.
Stale == early /\ pc[Installer] = "returned" /\ thread # 0 /\ runner[thread] = "done"

\* What a poster may rely on.
PosterKnows(p) ==
  LET known == thread = joins[p] \/ Stale
      spent == thread # 0 /\ runner[thread] = "joined"
  IN
  /\ Posting(p) => mine[p] \in Tasks /\ mine[p] <= posted
  /\ Posting(p) /\ pc[p] # "store" => runner[mine[p]] = "none"
  /\ pc[p] = "join" => thread # 0
  /\ pc[p] = "wait" => joins[p] # 0 /\ known
  /\ pc[p] = "delete" => joins[p] # 0 /\ known /\ runner[joins[p]] = "joined"
  /\ pc[p] = "forget" => spent \/ (Stale /\ lost = {})
  /\ pc[p] \in {"spawn", "store"} => thread = 0 \/ (Stale /\ lost = {})

PostersKnow == \A p \in Posters \ {Installer} : PosterKnows(p)

DestructorAlone ==
  dtor # "no" => pc[Installer] = "returned" /\ \A p \in Posters : ~Posting(p)

\* What the threads and the posters know of each other.
Sound ==
  /\ Born /\ RunningKnown /\ ThreadKnown /\ OnePoster /\ NothingBefore /\ FirstUnstored
  /\ PostersKnow /\ DestructorAlone
  /\ OneRunner /\ LostOnce /\ CleanUnlessEarly /\ NoTaskStranded /\ NothingAfterDestruction

\* The list holds the last tasks posted; those begun are older, and no two
\* threads have begun the same.
InOrder ==
  /\ Len(taskList) <= posted
  /\ \A i \in 1..Len(taskList) : taskList[i] = (posted - Len(taskList)) + i
  /\ \A t \in Tasks : doing[t] <= posted - Len(taskList)
  /\ \A t, u \in Tasks : doing[t] # 0 /\ doing[t] = doing[u] => t = u

IndInv == TypeOK /\ Sound /\ InOrder
================================================================================
