----------------------------- MODULE ThunderService -----------------------------
(***************************************************************************)
(* How one process keeps in touch with the TextToSpeech plugin:            *)
(* TextToSpeechService (ttsclient/TextToSpeechService.cpp) on top of       *)
(* Service (ttsclient/Service.cpp), as a set of threads that share the     *)
(* service's members, most of them without a lock:                         *)
(*   - application threads, which construct clients, speak and delete      *)
(*     them;                                                               *)
(*   - ctl, the thread of the Thunder controller's "statechange" events,   *)
(*     which runs Service::OnPluginStateChange;                            *)
(*   - wrk, the thread of Service::AsyncWorker, which runs the posted      *)
(*     tasks one at a time; the second thread that an event reported while *)
(*     the constructor posts may leave behind (module ServiceWorker) is    *)
(*     left out here.                                                      *)
(* m_mutex guards the client list and TextToSpeechService::initialize();   *)
(* the members active, querySuccess, remote, initd, flag and registered    *)
(* are read and written around it.  A step touches shared members once.    *)
(* The controller and the plugin are external.                             *)
(***************************************************************************)
EXTENDS Naturals, Sequences, FiniteSets

CONSTANTS
  Apps,          \* application threads, each with one client at a time
  MaxChanges,    \* bound: how often the plugin is (de)activated
  Failing,       \* the remote calls that may fail although they should not
  MaxFailures,   \* bound: how many of them do
  MaxPolls,      \* the activation task's THUNDER_RPC_TIMEOUT / 250
  Orderly        \* does the plugin change only while this process is at rest?

ASSUME AppsAssumption == Apps \cap {"ctl", "wrk", "none"} = {}
ASSUME FailingAssumption == Failing \subseteq {"status", "statechange", "subscribe"}
ASSUME BoundsAssumption ==
  MaxChanges \in Nat /\ MaxFailures \in Nat /\ MaxPolls \in Nat \ {0} /\ Orderly \in BOOLEAN

Threads == Apps \cup {"ctl", "wrk"}
Remotes == 1..(MaxChanges + 1)
InstallAttempts == 3  \* STATE_CHANGE_HANDLER_INSTALLATION_FAILURE_THRESHOLD

VARIABLES
  active, querySuccess,  \* m_active, m_activeQuerySuccess
  remote,                \* m_remoteObject: 0 for null, else which object
  initd,                 \* m_initialized
  flag,                  \* m_registeredSpeechEventHandlers
  registered,            \* m_eventsRegistered, as a set
  clients,               \* m_clients
  mutex,                 \* who holds m_mutex
  tasks,                 \* what is posted to the worker
  pc,                    \* where each thread is
  answer,                \* the status reply each thread has got
  tries,                 \* the worker's loop counter
  told,                  \* what each client's connection callback heard last
  up,                    \* the plugin is activated
  subs,                  \* the plugin's subscribers: <<event, remote object>>
  watching,              \* the controller has our "statechange" subscription
  wire,                  \* state changes on their way
  changes, failures,     \* what has been used of the bounds
  lastRemote,            \* remote objects made so far
  crashed                \* a null m_remoteObject was dereferenced

members == <<active, querySuccess, remote, initd, flag, registered>>
plugin  == <<up, subs, watching, wire, changes>>
history == <<lastRemote, crashed>>
vars == <<members, clients, mutex, tasks, pc, answer, tries, told, plugin, failures, history>>

AppStates == {"out", "init", "initActive", "initForce", "make", "initSub", "initCheck", "initCall", "initPush",
              "initDone", "register", "ctorActive", "idle", "speakActive", "regCheck", "regSet",
              "sub", "subCall", "subPush", "invoke", "invokeCall", "unregister"}
ConstructorStates == {"init", "initActive", "initForce", "make", "initSub", "initCheck", "initCall", "initPush",
                      "initDone", "register", "ctorActive"}
WrkStates == {"out", "install", "poll", "confirm", "notify"} \cup
             {"init", "initActive", "initForce", "make", "initSub", "initCheck", "initCall", "initPush", "initDone"}
CtlStates == {"out", "uninit", "unsubscribe", "uninitialized", "resetFlag", "notify"}
Replies == {"none", "active", "inactive", "failed"}

TypeOK ==
  /\ active \in BOOLEAN /\ querySuccess \in BOOLEAN /\ initd \in BOOLEAN /\ flag \in BOOLEAN
  /\ remote \in Remotes \cup {0} /\ lastRemote \in Remotes \cup {0}
  /\ registered \subseteq {"state", "speech"}
  /\ clients \subseteq Apps /\ mutex \in Threads \cup {"none"}
  /\ tasks \in Seq({"install", "activate"})
  /\ \A a \in Apps : pc[a] \in AppStates
  /\ pc["wrk"] \in WrkStates /\ pc["ctl"] \in CtlStates
  /\ answer \in [Threads -> Replies]
  /\ tries \in 0..(MaxPolls + InstallAttempts)
  /\ told \in [Apps -> {"nothing", "connected", "closed"}]
  /\ up \in BOOLEAN /\ watching \in BOOLEAN /\ crashed \in BOOLEAN
  /\ subs \subseteq {"state", "speech"} \X Remotes
  /\ wire \in Seq({"Activated", "Deactivated"})
  /\ changes \in 0..MaxChanges /\ failures \in 0..MaxFailures

\* The service has just been constructed, and its handler is to be installed.
Init ==
  /\ active = FALSE /\ querySuccess = FALSE /\ remote = 0
  /\ initd = FALSE /\ flag = FALSE /\ registered = {}
  /\ clients = {} /\ mutex = "none" /\ tasks = <<"install">>
  /\ pc = [t \in Threads |-> "out"] /\ answer = [t \in Threads |-> "none"] /\ tries = 0
  /\ told = [a \in Apps |-> "nothing"]
  /\ up \in BOOLEAN /\ subs = {} /\ watching = FALSE /\ wire = <<>>
  /\ changes = 0 /\ failures = 0 /\ lastRemote = 0 /\ crashed = FALSE

Goto(t, l) == pc' = [pc EXCEPT ![t] = l]

\* TextToSpeechService::initialized()
Initialized == remote # 0 /\ initd

\* m_remoteObject-> ... : through the member, not through the local copy.
Deref == crashed' = (remote = 0)

\* A remote call times out.
CallFails(call) == call \in Failing /\ failures < MaxFailures /\ failures' = failures + 1

--------------------------------------------------------------------------------
(* Service::isActive(): the cached m_active, or a call to the controller    *)
(* and then, later, the assignments.                                        *)

Forced == {"initForce", "poll"}
Asking == Forced \cup {"initActive", "initSub", "ctorActive", "speakActive", "regCheck", "confirm"}

\* The controller answers "status@callsign", or the call times out.
Ask(t) ==
  /\ pc[t] \in Asking /\ answer[t] = "none"
  /\ pc[t] \in Forced \/ ~querySuccess
  /\ \/ answer' = [answer EXCEPT ![t] = IF up THEN "active" ELSE "inactive"] /\ UNCHANGED failures
     \/ /\ CallFails("status")
        /\ answer' = [answer EXCEPT ![t] = "failed"]
  /\ UNCHANGED <<members, clients, mutex, tasks, pc, tries, told, plugin, history>>

\* isActive() returns v to thread t.
IsActive(t, v) ==
  \/ /\ answer[t] # "none"
     /\ querySuccess' = (answer[t] # "failed") /\ active' = (answer[t] = "active")
     /\ v = active'
     /\ answer' = [answer EXCEPT ![t] = "none"]
  \/ /\ answer[t] = "none" /\ pc[t] \notin Forced /\ querySuccess
     /\ v = active
     /\ UNCHANGED <<querySuccess, active, answer>>

--------------------------------------------------------------------------------
(* TextToSpeechService::initialize(false), from a client's constructor and  *)
(* from the activation task.                                                *)

\* Mutant of AfterInit: the two callers swapped.
AfterInitSwapped(t) == IF t = "wrk" THEN "register" ELSE "notify"

\* Where a thread goes on afterwards.
AfterInit(t) == IF t = "wrk" THEN "notify" ELSE "register"

\* Mutant of InitEnter: initialized() is not asked.
InitEnterUnchecked(t) ==
  /\ pc[t] = "init" /\ mutex = "none"
  /\ Goto(t, "initActive") /\ mutex' = t
  /\ UNCHANGED <<members, clients, tasks, answer, tries, told, plugin, failures, history>>

\* m_mutex is taken; initialized() is the way out.
InitEnter(t) ==
  /\ pc[t] = "init" /\ mutex = "none"
  /\ IF Initialized
       THEN Goto(t, AfterInit(t)) /\ UNCHANGED mutex
       ELSE Goto(t, "initActive") /\ mutex' = t
  /\ UNCHANGED <<members, clients, tasks, answer, tries, told, plugin, failures, history>>

\* if(!isActive()) isActive(true), without activation
InitActive(t) ==
  /\ pc[t] = "initActive"
  /\ \E v \in BOOLEAN : IsActive(t, v) /\ Goto(t, IF v THEN "make" ELSE "initForce")
  /\ UNCHANGED <<remote, initd, flag, registered, clients, mutex, tasks, tries, told, plugin, failures, history>>

InitForce(t) ==
  /\ pc[t] = "initForce"
  /\ \E v \in BOOLEAN : IsActive(t, v)
  /\ Goto(t, "make")
  /\ UNCHANGED <<remote, initd, flag, registered, clients, mutex, tasks, tries, told, plugin, failures, history>>

\* Mutant of Make: an object is made although there is one.
MakeAnew(t) ==
  /\ pc[t] = "make"
  /\ IF active
       THEN lastRemote' = lastRemote + 1 /\ remote' = lastRemote'
       ELSE UNCHANGED <<remote, lastRemote>>
  /\ Goto(t, "initSub")
  /\ UNCHANGED <<active, querySuccess, initd, flag, registered, clients, mutex, tasks, answer, tries, told, plugin,
                 failures, crashed>>

\* if(m_active && !m_remoteObject) m_remoteObject = ...
Make(t) ==
  /\ pc[t] = "make"
  /\ IF active /\ remote = 0
       THEN lastRemote' = lastRemote + 1 /\ remote' = lastRemote'
       ELSE UNCHANGED <<remote, lastRemote>>
  /\ Goto(t, "initSub")
  /\ UNCHANGED <<active, querySuccess, initd, flag, registered, clients, mutex, tasks, answer, tries, told, plugin,
                 failures, crashed>>

\* if(isActive() && m_remoteObject)
InitSub(t) ==
  /\ pc[t] = "initSub"
  /\ \E v \in BOOLEAN : IsActive(t, v) /\ Goto(t, IF v /\ remote # 0 THEN "initCheck" ELSE "initDone")
  /\ UNCHANGED <<remote, initd, flag, registered, clients, mutex, tasks, tries, told, plugin, failures, history>>

\* Mutant of InitDone: m_mutex is not released.
InitDoneKeepsMutex(t) ==
  /\ pc[t] = "initDone"
  /\ initd' = TRUE /\ Goto(t, AfterInit(t))
  /\ UNCHANGED <<active, querySuccess, remote, flag, registered, clients, mutex, tasks, answer, tries, told, plugin,
                 failures, history>>

\* m_initialized = true, onTTSStateChange(false) to the clients, unlock.
InitDone(t) ==
  /\ pc[t] = "initDone"
  /\ initd' = TRUE /\ mutex' = "none" /\ Goto(t, AfterInit(t))
  /\ UNCHANGED <<active, querySuccess, remote, flag, registered, clients, tasks, answer, tries, told, plugin,
                 failures, history>>

--------------------------------------------------------------------------------
(* Service::subscribe(): the state events from initialize(), the eight      *)
(* speech events, taken as one, from registerSpeechEventHandlers().         *)

\* A subscriber checks the member, calls through it and notes its success.
SubscribeAt == [initCheck |-> "state", sub |-> "speech"]
CallAt      == [initCall |-> "state", subCall |-> "speech"]
PushAt      == [initPush |-> "state", subPush |-> "speech"]
NextOf == [initCheck |-> "initCall", sub |-> "subCall", initCall |-> "initPush", subCall |-> "subPush"]

\* What follows the subscription.
AfterSub(e) == IF e = "state" THEN "initDone" ELSE "invoke"

\* if(!m_remoteObject) return false
SubscribeCheck(t) ==
  /\ pc[t] \in DOMAIN SubscribeAt
  /\ Goto(t, IF remote = 0 THEN AfterSub(SubscribeAt[pc[t]]) ELSE NextOf[pc[t]])
  /\ UNCHANGED <<members, clients, mutex, tasks, answer, tries, told, plugin, failures, history>>

\* m_remoteObject->Subscribe(): the plugin must be there to accept it.
SubscribeCall(t) ==
  /\ pc[t] \in DOMAIN CallAt /\ Deref
  /\ \/ /\ remote # 0 /\ up
        /\ subs' = subs \cup {<<CallAt[pc[t]], remote>>} /\ Goto(t, NextOf[pc[t]])
        /\ UNCHANGED failures
     \/ /\ IF remote # 0 /\ up THEN CallFails("subscribe") ELSE UNCHANGED failures
        /\ Goto(t, AfterSub(CallAt[pc[t]]))
        /\ UNCHANGED subs
  /\ UNCHANGED <<members, clients, mutex, tasks, answer, tries, told, up, watching, wire, changes, lastRemote>>

\* m_eventsRegistered.push_back(event)
SubscribePush(t) ==
  /\ pc[t] \in DOMAIN PushAt
  /\ registered' = registered \cup {PushAt[pc[t]]}
  /\ Goto(t, AfterSub(PushAt[pc[t]]))
  /\ UNCHANGED <<active, querySuccess, remote, initd, flag, clients, mutex, tasks, answer, tries, told, plugin,
                 failures, history>>

--------------------------------------------------------------------------------
(* The application threads. *)

\* TTSClient::create() holds a mutex while it constructs a client.
Create(a) ==
  /\ pc[a] = "out" /\ Goto(a, "init")
  /\ \A b \in Apps : pc[b] \notin ConstructorStates
  /\ UNCHANGED <<members, clients, mutex, tasks, answer, tries, told, plugin, failures, history>>

\* registerClient()
Register(a) ==
  /\ pc[a] = "register" /\ mutex = "none"
  /\ clients' = clients \cup {a} /\ Goto(a, "ctorActive")
  /\ UNCHANGED <<members, mutex, tasks, answer, tries, told, plugin, failures, history>>

\* The constructor ends: if(isActive()) onTTSServerConnected()
CtorActive(a) ==
  /\ pc[a] = "ctorActive"
  /\ \E v \in BOOLEAN :
       IsActive(a, v) /\ told' = [told EXCEPT ![a] = IF v THEN "connected" ELSE @]
  /\ Goto(a, "idle")
  /\ UNCHANGED <<remote, initd, flag, registered, clients, mutex, tasks, tries, plugin, failures, history>>

\* speak(), to its remote call.
Speak(a) ==
  /\ pc[a] = "idle" /\ Goto(a, "speakActive")
  /\ UNCHANGED <<members, clients, mutex, tasks, answer, tries, told, plugin, failures, history>>

\* CHECK_CONNECTION_RETURN_ON_FAIL
SpeakActive(a) ==
  /\ pc[a] = "speakActive"
  /\ \E v \in BOOLEAN : IsActive(a, v) /\ Goto(a, IF v THEN "regCheck" ELSE "idle")
  /\ UNCHANGED <<remote, initd, flag, registered, clients, mutex, tasks, tries, told, plugin, failures, history>>

\* if(isActive() && !m_registeredSpeechEventHandlers && m_remoteObject)
RegCheck(a) ==
  /\ pc[a] = "regCheck"
  /\ \E v \in BOOLEAN : IsActive(a, v) /\ Goto(a, IF v /\ ~flag /\ remote # 0 THEN "regSet" ELSE "invoke")
  /\ UNCHANGED <<remote, initd, flag, registered, clients, mutex, tasks, tries, told, plugin, failures, history>>

\* m_registeredSpeechEventHandlers = true, before the subscriptions.
RegSet(a) ==
  /\ pc[a] = "regSet"
  /\ flag' = TRUE /\ Goto(a, "sub")
  /\ UNCHANGED <<active, querySuccess, remote, initd, registered, clients, mutex, tasks, answer, tries, told, plugin,
                 failures, history>>

\* invoke(): if(!m_remoteObject) return false
InvokeCheck(a) ==
  /\ pc[a] = "invoke"
  /\ Goto(a, IF remote = 0 THEN "idle" ELSE "invokeCall")
  /\ UNCHANGED <<members, clients, mutex, tasks, answer, tries, told, plugin, failures, history>>

\* m_remoteObject->Invoke("speak"): the plugin accepts it if it is there.
InvokeCall(a) ==
  /\ pc[a] = "invokeCall" /\ Deref
  /\ Goto(a, "idle")
  /\ UNCHANGED <<members, clients, mutex, tasks, answer, tries, told, plugin, failures, lastRemote>>

Delete(a) ==
  /\ pc[a] = "idle" /\ Goto(a, "unregister")
  /\ UNCHANGED <<members, clients, mutex, tasks, answer, tries, told, plugin, failures, history>>

\* unregisterClient(); the thread may construct another client.
Unregister(a) ==
  /\ pc[a] = "unregister" /\ mutex = "none"
  /\ clients' = clients \ {a} /\ told' = [told EXCEPT ![a] = "nothing"] /\ Goto(a, "out")
  /\ UNCHANGED <<members, mutex, tasks, answer, tries, plugin, failures, history>>

--------------------------------------------------------------------------------
(* The event thread: Service::OnPluginStateChange. *)

\* onActivation() posts a task.
OnActivation ==
  /\ pc["ctl"] = "out" /\ wire # <<>> /\ Head(wire) = "Activated"
  /\ wire' = Tail(wire) /\ tasks' = Append(tasks, "activate")
  /\ UNCHANGED <<members, clients, mutex, pc, answer, tries, told, up, subs, watching, changes, failures, history>>

\* onDeactivation() begins with m_eventsRegistered.clear().
OnDeactivation ==
  /\ pc["ctl"] = "out" /\ wire # <<>> /\ Head(wire) = "Deactivated"
  /\ wire' = Tail(wire) /\ registered' = {} /\ Goto("ctl", "uninit")
  /\ UNCHANGED <<active, querySuccess, remote, initd, flag, clients, mutex, tasks, answer, tries, told,
                 up, subs, watching, changes, failures, history>>

\* uninitialize(): m_active = false
Uninit ==
  /\ pc["ctl"] = "uninit"
  /\ active' = FALSE /\ Goto("ctl", "unsubscribe")
  /\ UNCHANGED <<querySuccess, remote, initd, flag, registered, clients, mutex, tasks, answer, tries, told, plugin,
                 failures, history>>

\* while(m_eventsRegistered.size()) m_remoteObject->Unsubscribe(...)
Unsubscribe ==
  /\ pc["ctl"] = "unsubscribe" /\ registered # {} /\ Deref
  /\ \E e \in registered :
       registered' = registered \ {e} /\ subs' = subs \ {<<e, remote>>}
  /\ UNCHANGED <<active, querySuccess, remote, initd, flag, clients, mutex, tasks, pc, answer, tries, told,
                 up, watching, wire, changes, failures, lastRemote>>

\* Mutant of DropRemote: the remote object is kept.
DropRemoteNot ==
  /\ pc["ctl"] = "unsubscribe" /\ registered = {}
  /\ Goto("ctl", "uninitialized")
  /\ UNCHANGED <<members, clients, mutex, tasks, answer, tries, told, plugin, failures, history>>

\* m_remoteObject = nullptr
DropRemote ==
  /\ pc["ctl"] = "unsubscribe" /\ registered = {}
  /\ remote' = 0 /\ Goto("ctl", "uninitialized")
  /\ UNCHANGED <<active, querySuccess, initd, flag, registered, clients, mutex, tasks, answer, tries, told, plugin,
                 failures, history>>

\* m_initialized = false
Uninitialized ==
  /\ pc["ctl"] = "uninitialized"
  /\ initd' = FALSE /\ Goto("ctl", "resetFlag")
  /\ UNCHANGED <<active, querySuccess, remote, flag, registered, clients, mutex, tasks, answer, tries, told, plugin,
                 failures, history>>

\* m_registeredSpeechEventHandlers = false
ResetFlag ==
  /\ pc["ctl"] = "resetFlag"
  /\ flag' = FALSE /\ Goto("ctl", "notify")
  /\ UNCHANGED <<active, querySuccess, remote, initd, registered, clients, mutex, tasks, answer, tries, told, plugin,
                 failures, history>>

\* notifyClientsOfDeactivation(), under m_mutex
NotifyClosed ==
  /\ pc["ctl"] = "notify" /\ mutex = "none"
  /\ told' = [a \in Apps |-> IF a \in clients THEN "closed" ELSE told[a]]
  /\ Goto("ctl", "out")
  /\ UNCHANGED <<members, clients, mutex, tasks, answer, tries, plugin, failures, history>>

--------------------------------------------------------------------------------
(* The worker. *)

TakeTask ==
  /\ pc["wrk"] = "out" /\ tasks # <<>>
  /\ tasks' = Tail(tasks) /\ tries' = 0
  /\ Goto("wrk", IF Head(tasks) = "install" THEN "install" ELSE "poll")
  /\ UNCHANGED <<members, clients, mutex, answer, told, plugin, failures, history>>

\* The first task subscribes to "statechange", in three attempts at most.
InstallSucceeds ==
  /\ pc["wrk"] = "install" /\ tries < InstallAttempts
  /\ watching' = TRUE /\ Goto("wrk", "out")
  /\ UNCHANGED <<members, clients, mutex, tasks, answer, tries, told, up, subs, wire, changes, failures, history>>

InstallFails ==
  /\ pc["wrk"] = "install" /\ CallFails("statechange")
  /\ tries' = tries + 1
  /\ IF tries' = InstallAttempts THEN Goto("wrk", "out") ELSE UNCHANGED pc
  /\ UNCHANGED <<members, clients, mutex, tasks, answer, told, plugin, history>>

\* The activation task polls the status until it is active or time is up,
Poll ==
  /\ pc["wrk"] = "poll"
  /\ \E v \in BOOLEAN :
       /\ IsActive("wrk", v)
       /\ tries' = tries + 1
       /\ IF v \/ tries' = MaxPolls THEN Goto("wrk", "confirm") ELSE UNCHANGED pc
  /\ UNCHANGED <<remote, initd, flag, registered, clients, mutex, tasks, told, plugin, failures, history>>

\* reads the cached state again, and initializes.
Confirm ==
  /\ pc["wrk"] = "confirm"
  /\ \E v \in BOOLEAN : IsActive("wrk", v) /\ Goto("wrk", IF v THEN "init" ELSE "out")
  /\ UNCHANGED <<remote, initd, flag, registered, clients, mutex, tasks, tries, told, plugin, failures, history>>

\* notifyClientsOfActivation(), under m_mutex
NotifyConnected ==
  /\ pc["wrk"] = "notify" /\ mutex = "none"
  /\ told' = [a \in Apps |-> IF a \in clients THEN "connected" ELSE told[a]]
  /\ Goto("wrk", "out")
  /\ UNCHANGED <<members, clients, mutex, tasks, answer, tries, plugin, failures, history>>

--------------------------------------------------------------------------------
(* The plugin. *)

AtRest ==
  /\ wire = <<>> /\ tasks = <<>>
  /\ \A t \in Threads : pc[t] \in {"out", "idle"}

\* It is activated or deactivated; its subscribers are gone with it.
PluginChanges ==
  /\ changes < MaxChanges /\ (Orderly => AtRest)
  /\ up' = ~up /\ changes' = changes + 1
  /\ subs' = IF up THEN {} ELSE subs
  /\ wire' = IF watching THEN Append(wire, IF up THEN "Deactivated" ELSE "Activated") ELSE wire
  /\ UNCHANGED <<members, clients, mutex, tasks, pc, answer, tries, told, watching, failures, history>>

--------------------------------------------------------------------------------
InitStep(t) ==
  \/ InitEnter(t) \/ InitActive(t) \/ InitForce(t) \/ Make(t) \/ InitSub(t) \/ InitDone(t)
  \/ Ask(t) \/ SubscribeCheck(t) \/ SubscribeCall(t) \/ SubscribePush(t)

\* The steps of an API call that has begun.
AppGoesOn(a) ==
  \/ InitStep(a) \/ Register(a) \/ CtorActive(a)
  \/ SpeakActive(a) \/ RegCheck(a) \/ RegSet(a) \/ InvokeCheck(a) \/ InvokeCall(a) \/ Unregister(a)

AppCalls(a) == Create(a) \/ Speak(a) \/ Delete(a)

EventThread ==
  \/ OnActivation \/ OnDeactivation \/ Uninit \/ Unsubscribe \/ DropRemote
  \/ Uninitialized \/ ResetFlag \/ NotifyClosed

Worker ==
  \/ TakeTask \/ InstallSucceeds \/ InstallFails \/ Poll \/ Confirm \/ NotifyConnected
  \/ InitStep("wrk")

\* The process is gone.
Crashed == crashed /\ UNCHANGED vars

Next ==
  \/ ~crashed /\ \E a \in Apps : AppGoesOn(a) \/ AppCalls(a)
  \/ ~crashed /\ (EventThread \/ Worker \/ PluginChanges)
  \/ Crashed

Spec == Init /\ [][Next]_vars

\* Threads run, remote calls are bounded by THUNDER_RPC_TIMEOUT, and m_mutex
\* does not starve a thread that waits for it.
Locking(t) ==
  IF t \in Apps THEN InitEnter(t) \/ Register(t) \/ Unregister(t)
  ELSE IF t = "wrk" THEN InitEnter(t) \/ NotifyConnected ELSE NotifyClosed

Fairness ==
  /\ \A a \in Apps : WF_vars(~crashed /\ AppGoesOn(a))
  /\ WF_vars(~crashed /\ EventThread) /\ WF_vars(~crashed /\ Worker)
  /\ \A t \in Threads : SF_vars(~crashed /\ Locking(t))

FairSpec == Spec /\ Fairness

--------------------------------------------------------------------------------
(* Properties. *)

\* When nothing is under way and there are clients, they and the service
\* agree with the plugin: an active plugin has one remote object with its
\* state events subscribed and every client was told it is connected; an
\* inactive one has none, and no client thinks it is connected.
SettledAgrees ==
  AtRest /\ clients # {} /\ ~crashed =>
    IF up
      THEN /\ Initialized /\ active /\ <<"state", remote>> \in subs
           /\ \A a \in clients : told[a] = "connected"
      ELSE /\ remote = 0 /\ ~active
           /\ \A a \in clients : told[a] # "connected"

\* initialize() may be called by any client's constructor and by the
\* worker: no remote object is subscribed to the state events twice.
SubscribedOnce ==
  [][ \A t \in Threads : pc[t] = "initCall" /\ pc'[t] = "initPush" => <<"state", remote>> \notin subs ]_vars

\* A state change that is reported and has not made uninitialize() drop the
\* object yet.
Dropping == Len(wire) + (IF pc["ctl"] \in {"uninit", "unsubscribe"} THEN 1 ELSE 0)

\* Service::initialize() makes a remote object only where there was none to
\* begin with or uninitialize() has dropped it on a report of its own: in
\* whatever order constructors, the worker and the event thread get there,
\* objects never outnumber the changes of the plugin by more than one.
RemotesCounted == lastRemote + (IF remote = 0 THEN 1 ELSE 0) + Dropping <= changes + 1

\* subscribe() keeps the object it has checked until it is complete: it
\* never calls through a null pointer.
RemoteProtected == \A t \in Threads : pc[t] \in DOMAIN CallAt => remote # 0

\* A client is told that it is connected once for each connection: who
\* counts up on onTTSServerConnected and down on onTTSServerClosed counts
\* the connected clients.
ToldAgain(a) ==
  \/ pc[a] = "ctorActive" /\ pc'[a] = "idle" /\ active'
  \/ pc["wrk"] = "notify" /\ pc'["wrk"] = "out" /\ a \in clients
ConnectedOnce == [][ \A a \in Apps : ToldAgain(a) => told[a] # "connected" ]_vars

\* When the plugin accepts a speech, the speech events are subscribed on the
\* object that asked for it, so that its completion can be heard.
AcceptedSpeechIsHeard ==
  [][ \A a \in Apps : pc[a] = "invokeCall" /\ pc'[a] = "idle" /\ remote # 0 /\ up
        => <<"speech", remote>> \in subs ]_vars

\* A client's constructor returns, although it waits for m_mutex and makes
\* remote calls while it holds it, and so do onDeactivation and the worker's
\* tasks: no thread waits for ever.
CallsReturn ==
  /\ \A a \in Apps : pc[a] = "init" ~> (pc[a] = "idle" \/ crashed)
  /\ pc["ctl"] = "uninit" ~> (pc["ctl"] = "out" \/ crashed)
  /\ pc["wrk"] = "poll" ~> (pc["wrk"] = "out" \/ crashed)
--------------------------------------------------------------------------------
(* The inductive invariant behind TypeOK and RemotesCounted. *)

\* m_mutex is held by the thread inside TextToSpeechService::initialize(),
\* past its first test, and by nobody else from one step to the next.
Locked == {"initActive", "initForce", "make", "initSub", "initCheck", "initCall", "initPush", "initDone"}
LockHeld == \A t \in Threads : mutex = t <=> pc[t] \in Locked

\* The worker's loops end in time.
TriesBounded ==
  /\ pc["wrk"] = "install" => tries < InstallAttempts
  /\ pc["wrk"] = "poll" => tries < MaxPolls

IndInv ==
  /\ TypeOK /\ pc \in [Threads -> AppStates \cup WrkStates \cup CtlStates]
  /\ LockHeld /\ RemotesCounted /\ TriesBounded
================================================================================
