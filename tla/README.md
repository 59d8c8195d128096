# TTS Engine client: a TLA+ verification project

The repository is a client library: an application creates `TTSClient` objects,
asks for speeches and is told by callbacks what becomes of them. The speeches
are made by a TextToSpeech engine in another process, reached over Thunder's
JSON-RPC, over COM-RPC or over Firebolt; over JSON-RPC the plugin can be
deactivated and activated again at any time. What is hard here is not the data
but the threads: the application's, the one that delivers the plugin's events,
the one that delivers the controller's state changes and a worker thread share
objects, most of their members without a lock.

## 1. The system's parts

| Part | Code | State | Operations | Interacts with |
|---|---|---|---|---|
| Client facade `TTSClient` | `ttsclient/TTSClient.cpp` | `m_priv` | picks a backend (COM-RPC, JSON-RPC, Firebolt) from the environment, constructs under a mutex, forwards | one client object |
| JSON-RPC client | `ttsclient/TTSClientPrivateJsonRPC.*` | `m_ttsEnabled`, `m_lastSpeechId`, `m_requestedSpeeches`, `m_sessionCallback`, `m_firstQuery` | API calls; `on...` handlers | calls the service; the service calls its handlers under `m_mutex` |
| Speech request table | `TTSClientPrivateJsonRPC.h:40-104` | map from client id to service id | `add`, look-ups, `removeServiceId` | used by the API and the handlers at once |
| Event dispatch | `TextToSpeechService.cpp:99-187` | none | `dispatchEvent` | broadcasts each plugin event to all clients |
| Plugin connection | `Service.*`, `TextToSpeechService.*` | `m_active`, `m_activeQuerySuccess`, `m_remoteObject`, `m_initialized`, `m_registeredSpeechEventHandlers`, `m_eventsRegistered`, `m_clients`, `m_mutex`, `m_serviceListMutex` | initialize, uninitialize, isActive, subscribe, invoke, register, state change handling | clients, controller, worker |
| Service worker | `Service.cpp:44-83` | task list, thread, `m_running` | `post`, the thread, `cleanup` | posts come from the constructor and from state changes |
| COM-RPC worker | `TextToSpeechServiceCOMRPC.cpp:25-62` | task list, thread, `m_running`, a condition variable | `post`, the thread, `cleanup` | notifications post, the service's destructor cleans up |
| COM-RPC service, client | `TextToSpeechServiceCOMRPC.*`, `TTSClientPrivateCOMRPC.*` | `m_initialized`, `m_pendingInitAttempts`, `m_remoteObject`, `m_registeredSpeechEventHandlers`, `m_callsign`, `m_clients`, `m_mutex`; a client as above | every API function calls `initialize()` first | the plugin's notifications go through the worker to all clients |
| Firebolt service, client | `TextToSpeechServiceFirebolt.*`, `TTSClientPrivateFirebolt.*` | `m_initialized`, `isConnected`, `mtx`, `m_clients`, `m_mutex`; a client as above | only a constructor connects, and waits 500 ms for the SDK's callback | the SDK's pool of threads calls `dispatchEvent` |
| Logger, types, test programs | `common/`, `test/` | | | |

What makes each part correct:

- *Table and client*: a callback about a speech reaches the client that asked
  for it and names the id the application chose; a request names the speech that
  was asked for; after the end of a speech nothing more is said about it; after
  `unregisterClient()` no handler touches the object.
- *Connection*: service, clients and plugin agree whenever nothing is under way;
  initialization happens once for each connection; nobody calls through a null
  remote object; locks never block each other.
- *COM-RPC and Firebolt services*: the connection is attempted no more often than
  the code means to, whoever uses it finds a remote object, and the registration or
  the subscriptions asked for (they may be refused), and several clients on it stay
  apart.
- *Workers*: a queue that begins every task once and in order, runs them one at a
  time, and leaves nothing behind when it is destroyed. The service worker does
  so but for one thread that it may lose when an event is posted while the
  constructor still posts its first task.

## 2. Modules

| Module | Models | Depends on |
|---|---|---|
| `SpeechRequestMap` | the table, as operators on functions | |
| `SpeechLifecycle` | abstract: what a speech goes through | |
| `SpeechClient` | one JSON-RPC client with its application thread, the event thread, the connection, an arbitrary plugin | both above |
| `TaskQueue` | abstract: a first-in first-out queue that runs at most `Width` tasks at once | |
| `ServiceWorker` | `Service::AsyncWorker` | `TaskQueue` |
| `ThunderService` | the plugin connection with several application threads, the event thread and the worker | |
| `ComWorker` | `TextToSpeechServiceCOMRPC::AsyncWorker` | `TaskQueue` |
| `BackendClient` | what the COM-RPC and the Firebolt clients share, and their services' client list and dispatch | `SpeechRequestMap`, `SpeechLifecycle` |
| `ComService` | the COM-RPC service with its clients | `BackendClient` |
| `FireboltService` | the Firebolt service with its clients | `BackendClient` |
| `TTSClient` | the facade: a process with one of these two backends | both above |
| `MC...` and `.cfg` | the instances TLC checks | |
| `..._proofs` | theorems, by the module they are about; `ThunderServiceOrderly_proofs` has those of `ThunderService` that need an orderly plugin | TLAPS |

### SpeechLifecycle

The common promise of the three clients: a speech is accepted, tracked, ended and
over. `Drop` is for the one `speak()` does not file (its client id is taken, or a
state change has set `m_lastSpeechId` to 0), and `End` may begin the callback that
tells of it in the same step, as the COM-RPC and Firebolt clients do, or later, as
the JSON-RPC client does between two looks at its members, or there is none. What
it excludes: a speech in two tables or twice in one, a callback about a speech that
is not tracked or was told to have ended, and two callbacks at once. `SpeechClient`
implements it for its own speeches, `BackendClient` for those of all clients.

### SpeechClient

One action per step that another thread can come between. The application
thread's `pc` says where it is: `speak()` is `SpeakEnter` (checks, reset of
`m_lastSpeechId`), `SpeakAccepted` or `SpeakFails` (the remote call), `SpeakAssign`
(line 204) and `SpeakAdd` (line 205), because the event thread may run between
each two. The event thread's `stage` follows `dispatchEvent`: the `initialized()`
check (`Deliver`), the mutex (`wait` until `EnterHandler`, `OnTTSStateChange` or
`SkipUnregistered`), the table (`LookUp`, or `LookUpAndRemove` for events that end
a speech), the test of the session callback, the callback. The stages `lookup`,
`check` and `call` hold `m_mutex`; `Unregister` and the connection's notifications
wait for it. `owner`, `nextId` are the plugin's; `removed` and `heard` are history.
`RequestReturns` stands for the remote call of pause, resume, cancel, isspeaking
and getspeechstate alike.

The plugin is external. It gives each accepted speech a new id, and sends any event about any id
it has given out, repeatedly and in any order, also before the answer to `speak`
has been processed. Other clients appear as ids with owner `Nobody`.

Assumptions: one application thread for each client, as the test programs use it;
a connection callback is set; the plugin does not reuse ids, also after it was
reactivated.

### ServiceWorker

Posters and the threads they create, each thread named after the post that
created it. `post()` is split wherever another thread can come between: at its
unlock (`Push`), at the null test, the join, the `delete` and the reset of
`cleanup()` (`CheckThread`, `JoinBegins`, `JoinEnds`, `DeleteThread`,
`ForgetThread`), between the creation of the thread and the store to `m_thread`
(`SpawnThread`, `StoreThread`). `m_running` has no initializer; the service is a
function-local static, so it starts as false. Events are posted under
`m_serviceListMutex`, one at a time; the constructor's post holds no lock. Since
its task makes the subscription, an event may be posted as soon as that task has
begun, before the constructor has stored the thread (`EventPost`). Mostly this is
harmless, because the thread still runs and the event's post returns at once. If
the thread has left by then, two posts are in `cleanup()` and at `m_thread`
together, and three things can happen that the model tells apart: a store overwrites
a thread that nobody has joined (`lost`), a `std::thread` is deleted that was not
joined, and a thread goes on after the worker was deleted (`broken`). `early` notes
that it came to this. The properties say what the worker keeps all the same:

- `OneRunner`: threads never run beside each other, but for a lost one;
- `LostOnce`: there is never more than one lost, since only the constructor's
  store can do it;
- `CleanUnlessEarly`: nothing is lost or broken without such an event;
- `NoTaskStranded`, `EveryTaskBegins`: no task is forgotten, although `m_running` is
  false before a thread has begun;
- `NothingAfterDestruction`: the destructor leaves nothing but a lost thread;
- `ImplementsQueue`: `TaskQueue` with `Width` 2, so order and once-only do not suffer.

### ComWorker

One poster, because the engine that delivers the notifications has one thread,
and the worker's thread. `locked` is the bit in the mutex, not an owner: the
second unlock of each turn (`SecondUnlock`) clears it whoever set it, which is what
glibc and musl do where the standard leaves the behaviour undefined. When the
poster and the thread are then at the list together the access works, or the
process ends (`Torn`). `Sleep` releases the mutex and waits in one step, as a
condition variable does; `Notified` wakes only a thread that waits. The destructor
runs `cleanup()` twice, with the closing of the channel between: notifications
may arrive until then, also after the first `cleanup()`.

### ThunderService

Each thread's `pc` runs through the code; a step touches the shared members at
most once or reads a few of them in one condition. `isActive()` is two steps when
it asks the controller: the controller answers (`Ask`), later the answer is
stored (`IsActive`), so replies can be stale. `initialize()` holds `m_mutex` from
`InitEnter` to `InitDone`. `uninitialize()` on the event thread holds nothing
that others use. `speak()` stands for every API call that checks the connection,
and is the only one that registers the speech handlers; the eight speech
subscriptions are taken as one, and so are the two that `initialize()` makes.
A call through a null `m_remoteObject` ends the process (`crashed`).
The worker runs one task at a time: the second thread that `ServiceWorker` finds
possible while the first service is being constructed is left out here.
`activate()` and the restart after a crash are unreachable for this service
(`activateIfRequired` is false everywhere, `shouldActivateOnCrash()` returns false)
and left out.

The plugin and the controller are external: the plugin changes its state, forgets
its subscribers when it goes, and the controller reports changes in order once
`statechange` is subscribed. `Failing` names the remote calls that may time out.
`Orderly` restricts the plugin to changes while the process is at rest; it is TRUE
only where a run says so. One constructor runs at a time (`ConstructorStates`),
because `TTSClient::create` holds a mutex.

### BackendClient, ComService, FireboltService, TTSClient

The classes `TTSClientPrivateCOMRPC` and `TTSClientPrivateFirebolt` are the same
program but for two calls, and their services dispatch alike. `BackendClient`
holds that common part for any number of application threads, each with a client
of its own, and any number of threads that dispatch events: the clients' list and
`m_mutex`, `m_initialized` (`active`), each client's `m_ttsEnabled`,
`m_lastSpeechId`, `m_requestedSpeeches` and `m_sessionCallback` (`enabled`, `last`,
`table`, `session`). Its actions are one per step another thread can come between;
the application thread's `pc` is at `init` or `call` before `initialize()`, in one
of the `Inside` states during it or during `registerSpeechEventHandlers()`, at
`wait` while a request is out, at `assign` and `add` between the answer to `speak()`
and its entry in the table. `op` is the call and `arg`, `reply` its ids. A handler
thread follows `dispatchEventOnWorker()`: `Arrive` (the test of `initialized()`),
`Enter` (`m_mutex`), one `OnTTSStateChange`, `OnSpeechInfo` or `OnSpeechEnd` for each
client in the list, `CallBack` while the mutex is still held, `Leave`.

Its next-state relation `ClientsNext` allows every backend that behaves so:
`ClientsSpec` is the abstract specification of the two. `ComService` and
`FireboltService` restrict its actions by their guards and add their own state:

- `ComService`: `attempts` is the `uint8_t m_pendingInitAttempts` (modulo 256),
  `remote` the number of the object `Open()` returned, `flag`
  `m_registeredSpeechEventHandlers`, `registered` whether the plugin was asked to register
  the notification and did so; the code ignores the answer, so that a refusal is
  for good (`Listening`). A configuration call that connects gives an empty callsign,
  any other the client's: the model lets the plugin take or refuse either.
  `initialize()` is `ComInitSkip`, or `ComInitBegin`, `ComOpenFails` or
  `ComOpenSucceeds`, `ComInitialized`, the registration and `ComNotify`;
  `registerSpeechEventHandlers()` is `ComRegCheck`, `ComRegSet`, `ComRegCall`, with
  `m_mutex` from `initialize()` and without it from `speak()`. One handler thread,
  because `ComWorker` shows that the worker runs its tasks one at a time and in
  order.
- `FireboltService`: `isConnected` is written by the SDK's thread
  (`ConnectionChanged`, under `mtx`) at any time once a connection was asked for,
  also after the 500 ms (`FireboltTimeout`), and erased by the next attempt
  (`FireboltConnect`). Several handler threads, since the SDK's pool has three.
  `FireboltSubscribe` makes the nine subscriptions in one step, because nothing
  looks at them in between; each of them may be refused (`subscribed`), which the
  code only logs, and its events then never come.

`TTSClient` chooses the backend (`GetTTSBackend`), lets one constructor run at a
time (`NobodyConstructs`) and composes: a process has one backend for its life.
The engine behind either is external, as in `SpeechClient`. Left out:
`m_firstQuery` (an application may force the query), what is said, voices and the
data of the configuration.

## 3. Runs

| Run | Checks | Instance | Shows |
|---|---|---|---|
| `client_safety` | types, five invariants, refinement of `SpeechLifecycle`, `DestructorReturns` | 2 client ids (0 and 3), 2 speeches, 1 event on the wire | callbacks, requests and ends are right, and delete ends; about 830,000 states |
| `client_lost_completion` | `CompletionFindsItsSpeech`, violated | | the completion of a speech can be lost |
| `worker` | types, `OneRunner`, `LostOnce`, `CleanUnlessEarly`, `NoTaskStranded`, `NothingAfterDestruction`, refinement of `TaskQueue`, `EveryTaskBegins` | 3 posters, 5 tasks, events from the first task on | the worker is a queue, and what an event during the constructor's post can cost; about 96,000 states |
| `com_worker` | types, `SilentAfterCleanup`, `NoThreadLeft`, refinement of `TaskQueue` | 5 notifications | order and an orderly end survive the second unlock |
| `com_worker_stranded` | `NoNotificationStranded`, violated | 2 notifications | the thread sleeps on a list that is not empty |
| `connection_settles` | types, `SettledAgrees`, `SubscribedOnce` | 2 threads, 4 changes, 1 timeout, `Orderly` | the protocol is right when the plugin is slow and subscriptions do not fail |
| `connection_returns` | `CallsReturn`, `RemotesCounted` | 2 threads, 1 change at any time | no lock waits for ever, and objects do not outnumber the changes |
| `connection_null_remote` | `RemoteProtected`, violated | 1 thread | a comment claims a protection that is not there |
| `connection_told_twice` | `ConnectedOnce`, violated | 1 thread, `Orderly` | two Connected callbacks |
| `connection_unheard_speech` | `AcceptedSpeechIsHeard`, violated | 2 threads, plugin always up | a speech without subscriptions |
| `backends` | types, `SilentAfterUnregister`, `OpenedAtMostThrice`, `RemoteWhenUsed`, `ConnectedHasAsked`, refinement of `ClientsSpec` and `SpeechLifecycle` | COM-RPC and Firebolt; 2 applications, 1 client id, 1 speech, end events, any answer to the registration and to each subscription | threads that connect, register, speak and delete beside each other; about 1.6 million states |
| `backend_client` | `CallbackNamesOwnSpeech`, `EndIsLast`, `RequestNamesOwnSpeech`, `LastSpeechIsNewest` | COM-RPC and Firebolt; 1 application, ids 0, 1, 2, 2 speeches, 2 threads of the pool, starts and ends | speeches of one client are not mixed up, in whatever order events are taken; about 7.2 million states |

Bounds. Two speeches are enough for an entry to be overwritten, confused with
another, or to have an event of one arrive during `speak()` of the other; the
bound on the wire only limits how early an event was sent, since the plugin may
send the same event again at once. Two client ids are enough for confusion; 0 is
one of them because the code gives it a meaning of its own. Five tasks let a worker
thread be joined and replaced several times by each of the posters, and leave three
after the one with which the constructor's post may collide. Four changes
let the plugin go and come back twice from either initial state; two application threads are the
least that race in the constructor and in `registerSpeechEventHandlers()`.

The two runs of `TTSClient` divide the question, because the state grows with the
product of the clients: two applications with one speech are what the connection,
the registration, the client list and the mutex need (every attempt may be made
by either thread, from a constructor, a call or a destructor; one handler thread
visits both clients while one of them goes away), and one application with two
speeches and two pool threads is what the ids and the order of events need. Two
clients with a speech each, where an event must find its owner, is beyond both and
covered by the theorems (`CallbacksNameOwnSpeeches`), as is the lifecycle of two
speeches at once, of a reused or zero id and of starts that come late: `backends` checks
`ImplementsLifecycle` with one speech, whose end events both clients see.
`RemoteWhenUsed` looks at the calls that wait for an answer the client uses (queries,
sessions, speak, the requests of the destructor).
Applications are interchangeable, and so are the threads of the pool: the
configurations use that symmetry, for safety only.

Fairness. Threads run (weak fairness on each thread's steps once it is in a call),
remote calls come back because every one has a timeout, and the mutex is
starvation-free (strong fairness on the steps that wait for it; `std::mutex` does
not promise it, but the holders leave it free between two events). The modules of the
COM-RPC and Firebolt backends state no fairness: their runs ask only for safety,
since the code gives no reason to expect that a thread with a callback of the
application's in it goes on. Nothing is
assumed of the application (it need not call) nor of the plugin: it need not answer
well, nor go down, nor come back. Only a deactivation that has begun on the event
thread is carried through, as that is the process's own work. In the worker a `post()`
that has begun goes on, threads run, and tasks return, since their remote calls have
timeouts and their loops counters; nobody has to post or to destroy.

Liveness runs let a process that crashed rest: the race of
`connection_null_remote` is not hidden, it is an outcome of its own.

## 4. Proofs

All theorems hold for every value of the constants that satisfies the named
assumptions (the ids are naturals, the kinds of events are disjoint, `Nobody` is
no id, `None` no thread, and application threads are not handler threads).

- `SpeechRequestMap_proofs`: look-ups return the least key with the given service
  id; `Add` and `RemoveServiceId` change one entry only; `RemoveServiceId` erases
  every trace of a service id when ids are distinct; `LookUpsAreInverse`.
- `SpeechClient_proofs`: `TypeCorrect`, then the inductive invariant `IndInv`. The
  callback property is not inductive: it must be known that each entry is filed
  under its owner (`EntriesOwned`), that erased ids do not come back
  (`EntriesAlive`), that no id is used before it is given out (`GivenOut`), what
  `speak()` holds in its locals while others run (`SpeakLocals`: its id is new, not
  yet in the table, the newest of all) and what the event thread knows of the
  event it handles (`HandlerLocals`). From it follow the five safety theorems and
  `ClientImplementsLifecycle`, whose steps map to `Accept`, `Track`, `End`, `Begin`,
  `Finish` or to a stutter.
- `ServiceWorker_proofs`: `TypeCorrect`, then the inductive invariant `IndInv`, without
  any assumption on when the first event comes. The posts of events exclude each other
  (`OnePoster`); while the constructor has not stored the first thread, events leave it
  alone as long as it lives (`FirstUnstored`); afterwards `m_thread` may be stale, naming
  a thread that has ended while another one is being started (`Stale`), and `PosterKnows`
  says what an event's post may rely on at each of its steps, stale or not. `ThreadKnown`
  says that every live thread is lost, in `m_thread` or about to be, `RunningKnown` that
  `m_running` is not left behind. From it `OneRunnerButTheLost`, `OneThreadLost`,
  `CleanButForTheEarly`, `NothingStranded`, `DestructionIsClean`. For the refinement `InOrder`
  adds that the list holds the last tasks posted and that no two threads have begun the
  same one; `RoomToBegin` counts: the threads that run a task are among the lost one and
  one other, so there is room for a second. From it `WorkerIsQueue`.
- `BackendClient_proofs`: the inductive invariant `IndInv` of `ClientsSpec`, for any
  number of clients and handler threads. Beyond the five properties it says that an
  entry of a table is the client's own or has service id 0 (`EntriesOwned`, the 0 left
  by a state change between the assignment and `add`), that ids are used only after
  they were given out (`GivenOut`), that what was told to have ended is in no table
  (`HeardIsGone`), that `m_mutex` covers the loop over the clients (`MutexHeld`; this is
  what makes it matter that `Enter` and `Unregister` take it), and what the threads
  hold in their locals (`SpeakLocals`: the answer on its way is the newest of its
  client and nobody's yet; `HandlerLocals`). Five safety theorems follow, and
  `ClientsImplementLifecycle`: `SpeakAccepted` is `Accept`, `SpeakAdd` is `Track` or
  `Drop`, a visit of a handler is `End`, `Begin` or a stutter, `CallBack` is `Finish`.
  The phase of a speech is read off the tables and the threads' locals of all
  clients, without history variables; `PhasesExclude` shows that no speech is in two
  of its places.
- `TTSClient_proofs`: `BackendsImplementClients`, every step of either backend is a
  step of `ClientsNext` or stutters, so that the theorems above hold for both
  (`ClientsAreSafe`, `BackendsImplementLifecycle`). Then `ServicesInv`, on top of `IndInv`: the thread inside
  `initialize()` holds `m_mutex` (`LinkingHolds`), requests are sent only when active
  (`RequestsAreActive`), and where the service stands between its writes
  (`ComLinks`: with the attempts used and the calls of `Open()` counted together, and
  whoever set the flag about to register; `FireboltLinks`). From it `TypeCorrect`,
  `OpensAtMostThrice`, `RequestsMeetARemote`, `ConnectionsAsk`.
- `ThunderService_proofs`: `TypeCorrect` is not obvious there, since the numbers of the
  remote objects must stay within the plugin's changes. The account behind it is
  `RemotesCounted`: objects made, plus one if there is none now, plus the reports that
  may still drop one, are at most the changes plus one; each step of `initialize()`,
  of the event thread and of the plugin moves one unit from one term to another. With
  `LockHeld` (who is inside `initialize()` holds `m_mutex`) and `TriesBounded` (the
  worker's loops) it is inductive. From it also `InitializeIsExclusive`. Nothing is
  assumed of the plugin (`Orderly` may be FALSE).
- `ThunderServiceOrderly_proofs`: what holds when the plugin changes only while the
  process is at rest, for any number of threads and changes.
  - `OrderInv` needs nothing but `Orderly`; any call may time out any number of times.
    A change, its report and the work on it are one at a time (`OneAtATime`) and fit
    the plugin (`WorkFitsPlugin`), a subscription the plugin took is noted before the
    plugin can go (`PushesInTime`), the deactivation handler finds nothing to
    unsubscribe (`Cleared`), and who subscribes to the state events of a remote object
    holds `m_mutex` and is the first (`StateSubscribers`). From it
    `StatesAreSubscribedOnce`.
  - `SettleInv` also needs `FewFailures`: at most one call times out in all, it is
    not a subscription, and the worker polls more often than that. These are the
    limits of the code, not of the proof: after two timeouts in one `initialize()` an
    active plugin is left without a remote object, a subscription that fails is
    not repeated, and a poll that times out is made up for only by another poll. The
    invariant says what every thread still owes: a watcher is or will be installed
    (`Watched`), the tries used up are accounted for by failures (`TriesAreFailures`),
    an answer taken while nothing changes is the truth (`AnswersHold`), who goes on
    without the truth is sure to ask again (`Queried`, `Refreshed`), what
    `initialize()` has done so far, step by step (`LinkedWhenUp`, `UnlinkedWhenDown`),
    and which clients were told and which are about to be (`ClientsServed`,
    `ClientsTold`). At rest all debts are paid: `ServiceSettles`.
- `ComWorker_proofs`: an inductive invariant that never speaks of the mutex, since
  nothing can rely on it: a stop is final (`StopIsFinal`), without `m_thread` there is
  no live thread (`ThreadKnown`), a thread that is awake while `m_running` holds has a
  task to take because it alone shortens the list (`AwakeHasTask`), and what follows
  for a worker that is cleaned up (`CleanedIsSilent`, `EngineStopped`). From it
  `CleanupIsFinal`, `NothingLeft` and the refinement `WorkerIsSerial`.

Only model-checked: the liveness properties (`DestructorReturns`, `CallsReturn`,
`EveryTaskBegins`), because the prover handles neither fairness nor ENABLED. Every other property of a passing run is stated by a theorem. A property that a run finds violated has of course no theorem.

## 5. Findings

1. `speak()` files the speech after the plugin may already have finished it.
2. `subscribe()`, `invoke()` and `get()` keep a copy of the remote object alive and
   then call through the member, which may be null.
3. A client constructed during an activation is told twice that it is connected.
4. `registerSpeechEventHandlers()` marks the handlers registered before they are.
   The COM-RPC service has the same order; `ConnectedHasAsked` names the exception.
5. The COM-RPC worker unlocks its mutex twice in each turn and may sleep through
   a notification.

Two weaknesses that contradict no text of the repository are in the models and among
the hazards, and the properties state them instead of excluding them: the service
worker may lose one thread while the first service is being constructed
(`CleanUnlessEarly`), and a registration or a subscription that is refused is never
repeated (`ConnectedHasAsked` promises no more than that it was asked for).

## 6. Not modelled

The logger and the types (no concurrent state) and the test programs; in the JSON-RPC
client `enableTTS`, `listVoices`, the configuration calls and voice changes (they pass
values through), in the others `listVoices` and voice changes; the security token;
`deinitialize()` of the Firebolt service, which runs when the process ends and whose
races depend on how the SDK stops its threads; `uninitialize()` of the COM-RPC
service beyond its worker. The composition of the JSON-RPC service with several
clients' tables is left to the two models `ThunderService` and `SpeechClient`: their
product is out of TLC's reach, and the loop over several clients is the one
`BackendClient` models. The engine's reuse of ids, callbacks that call the library
again, and the destruction of the process's services apart from their workers are
hazards listed without a property.

## 7. Plan

1. Done: the JSON-RPC client, the worker, the connection.
2. Done: the COM-RPC worker. Left there: the lost wake-up of `cleanup()`, which is
   in the model but has no property.
3. Done: the COM-RPC and Firebolt services with their clients, the facade, and the
   proofs about them.
4. Left: a model of the end of the process (the destructors of the three services
   against threads that are still inside them), and callbacks that call the library
   again.
5. Done: proofs of what holds in `ThunderService` only under `Orderly`, and that all
   three clients implement `SpeechLifecycle`.
   Nothing a run checks is left for the proofs but liveness.
