----------------------------- MODULE BackendClient -----------------------------
(***************************************************************************)
(* The client objects of the COM-RPC and the Firebolt backend.  The two    *)
(* classes (ttsclient/TTSClientPrivateCOMRPC.cpp and                       *)
(* ttsclient/TTSClientPrivateFirebolt.cpp) are written alike on top of a   *)
(* service that keeps one list of clients under m_mutex and never takes a  *)
(* connection back.  This module has what they share; the modules          *)
(* ComService and FireboltService restrict its actions and add the state   *)
(* of their connection, and TTSClient puts the two together.               *)
(*   - Each application thread constructs, uses and deletes one client.    *)
(*   - A handler thread takes an event, locks m_mutex and calls every      *)
(*     client in the list.                                                 *)
(*   - The engine behind the service is external: it gives every accepted  *)
(*     speech a fresh id and may send any event about any id it gave out,  *)
(*     at any time and in any order, so that a queue in between would      *)
(*     change nothing.                                                     *)
(* Not here: texts, configurations and voices; m_firstQuery, because an    *)
(* application may force the query at any time.                            *)
(***************************************************************************)
EXTENDS SpeechRequestMap

CONSTANTS
  Apps,          \* application threads, each with its client object
  ClientIds,     \* the SpeechData::id values the applications use
  Handlers,      \* the threads that may dispatch events
  InfoKinds,     \* events that leave the speech alive: start, pause, resume
  EndKinds,      \* events that end it: interrupt, errors, complete
  MaxServiceId,  \* bound: how many speeches the engine accepts
  None           \* nobody: a mutex that is free, an id not given out

ASSUME ThreadsAssumption == None \notin Apps \cup Handlers /\ Apps \cap Handlers = {}
ASSUME BackendIdsAssumption == ClientIds \subseteq Nat /\ MaxServiceId \in Nat
ASSUME BackendKindsAssumption ==
  /\ InfoKinds \cap EndKinds = {}
  /\ {"enabled", "disabled"} \cap (InfoKinds \cup EndKinds) = {}

ServiceIds == 1..MaxServiceId
StateKinds == {"enabled", "disabled"}
SpeechKinds == InfoKinds \cup EndKinds
Events == [kind : SpeechKinds, id : ServiceIds] \cup [kind : StateKinds, id : {0}]
NoEvent == [kind |-> "enabled", id |-> 0]
NoOwner == <<None, 0>>

VARIABLES
  active,             \* m_initialized, which is what isActive() returns
  clients,            \* m_clients, as a set
  mutex,              \* who holds m_mutex
  enabled,            \* m_ttsEnabled of each client
  last,               \* m_lastSpeechId
  table,              \* m_requestedSpeeches
  session,            \* m_sessionCallback is not null
  pc, op, arg, reply, \* application threads: where, in which call, its locals
  stage, ev, todo,    \* handler threads: where, the event, clients to visit
  at, cid,            \* the client whose callback runs, and its local
  nextId, owner,      \* engine: the next id, <<app, client id>> of each id
  heard               \* history: the ids whose end an application was told

serviceVars == <<active, clients, mutex>>
clientVars  == <<enabled, last, table, session>>
appVars     == <<pc, op, arg, reply>>
handlerVars == <<stage, ev, todo, at, cid>>
engineVars  == <<nextId, owner>>
baseVars == <<serviceVars, clientVars, appVars, handlerVars, engineVars, heard>>

\* Inside initialize() and registerSpeechEventHandlers(), where the two
\* services differ.
Inside == {"open", "linked", "opened", "speak", "regSet", "regCall", "notify"}
AppStates == {"out", "init", "register", "idle", "call", "wait", "assign", "add",
              "unregister", "dtorAbort", "dead"} \cup Inside
Calls == {"none", "construct", "query", "session", "speak", "named", "state", "last", "configure", "dtor"}

\* What a table may be.
Tables == UNION { [D -> ServiceIds \cup {0}] : D \in SUBSET ClientIds }

ClientsTypeOK ==
  /\ active \in BOOLEAN /\ clients \subseteq Apps /\ mutex \in Apps \cup Handlers \cup {None}
  /\ enabled \in [Apps -> BOOLEAN] /\ session \in [Apps -> BOOLEAN]
  /\ last \in [Apps -> ServiceIds \cup {0}]
  /\ table \in [Apps -> Tables]
  /\ pc \in [Apps -> AppStates] /\ op \in [Apps -> Calls]
  /\ arg \in [Apps -> ClientIds \cup {0}] /\ reply \in [Apps -> Nat]
  /\ stage \in [Handlers -> {"idle", "wait", "loop", "call"}] /\ ev \in [Handlers -> Events]
  /\ todo \in [Handlers -> SUBSET Apps] /\ at \in [Handlers -> Apps \cup {None}]
  /\ cid \in [Handlers -> ClientIds \cup {0}]
  /\ nextId \in 1..(MaxServiceId + 1)
  /\ owner \in [ServiceIds -> (Apps \X ClientIds) \cup {NoOwner}]
  /\ heard \subseteq ServiceIds

ClientsInit ==
  /\ active = FALSE /\ clients = {} /\ mutex = None
  /\ enabled = [a \in Apps |-> FALSE] /\ last = [a \in Apps |-> 0]
  /\ table = [a \in Apps |-> EmptyMap]
  /\ session = [a \in Apps |-> FALSE]
  /\ pc = [a \in Apps |-> "out"] /\ op = [a \in Apps |-> "none"]
  /\ arg = [a \in Apps |-> 0] /\ reply = [a \in Apps |-> 0]
  /\ stage = [h \in Handlers |-> "idle"] /\ ev = [h \in Handlers |-> NoEvent]
  /\ todo = [h \in Handlers |-> {}] /\ at = [h \in Handlers |-> None] /\ cid = [h \in Handlers |-> 0]
  /\ nextId = 1 /\ owner = [s \in ServiceIds |-> NoOwner] /\ heard = {}

MutexFree == mutex = None

--------------------------------------------------------------------------------
(* The application threads. *)

\* Thread a goes on at l, in the same call.
Goto(a, l) == pc' = [pc EXCEPT ![a] = l] /\ UNCHANGED <<op, arg, reply>>

\* A call o begins with the client id c and service id s it is about.
Begin(a, o, l, c, s) ==
  /\ pc' = [pc EXCEPT ![a] = l] /\ op' = [op EXCEPT ![a] = o]
  /\ arg' = [arg EXCEPT ![a] = c] /\ reply' = [reply EXCEPT ![a] = s]

\* The call is over.
Return(a) == Begin(a, "none", "idle", 0, 0)

\* isActive() at the begin of a call that checks the connection.
Checked(a) == pc[a] = "idle" /\ active

Create(a) ==
  /\ pc[a] = "out" /\ Begin(a, "construct", "init", 0, 0)
  /\ UNCHANGED <<serviceVars, clientVars, handlerVars, engineVars, heard>>

\* initialize() is over, and the request is sent if isActive().  One whose
\* answer changes nothing is back at once.
GoOn(a) ==
  CASE op[a] = "construct" -> Goto(a, "register")
    [] op[a] = "dtor" \/ (active /\ op[a] \in {"query", "session", "speak"}) -> Goto(a, "wait")
    [] OTHER -> Return(a)

\* initialize() has nothing to do.
InitSkip(a) ==
  /\ pc[a] \in {"init", "call"} /\ GoOn(a)
  /\ UNCHANGED <<serviceVars, clientVars, handlerVars, engineVars, heard>>

\* It connects: m_mutex is taken until the end,
InitBegin(a) ==
  /\ pc[a] \in {"init", "call"} /\ MutexFree
  /\ mutex' = a /\ Goto(a, "open")
  /\ UNCHANGED <<active, clients, clientVars, handlerVars, engineVars, heard>>

\* steps that only the service sees, one of which sets m_initialized,
InitStep(a, l) ==
  /\ pc[a] \in Inside /\ l \in Inside /\ Goto(a, l)
  /\ active' \in {active, TRUE}
  /\ UNCHANGED <<clients, mutex, clientVars, handlerVars, engineVars, heard>>

\* and, maybe, onTTSStateChange(false) to every client.
InitEnd(a, notify) ==
  /\ pc[a] \in Inside /\ mutex = a
  /\ mutex' = None
  /\ GoOn(a)
  /\ enabled' = [b \in Apps |-> enabled[b] /\ ~(notify /\ b \in clients)]
  /\ last' = [b \in Apps |-> IF notify /\ b \in clients THEN 0 ELSE last[b]]
  /\ UNCHANGED <<active, clients, table, session, handlerVars, engineVars, heard>>

\* The constructor ends; what the application is told then depends on isActive().
Register(a) ==
  /\ pc[a] = "register" /\ MutexFree
  /\ clients' = clients \cup {a} /\ Return(a)
  /\ UNCHANGED <<active, mutex, clientVars, handlerVars, engineVars, heard>>

\* isTTSEnabled(true), alone or from createSession().
Query(a, o) ==
  /\ Checked(a) /\ o \in {"query", "session"} /\ Begin(a, o, "call", 0, 0)
  /\ UNCHANGED <<serviceVars, clientVars, handlerVars, engineVars, heard>>

QueryReturns(a) ==
  /\ pc[a] = "wait" /\ op[a] \in {"query", "session"}
  /\ \E v \in BOOLEAN : enabled' = [enabled EXCEPT ![a] = v]
  /\ session' = [session EXCEPT ![a] = @ \/ op[a] = "session"]
  /\ Return(a)
  /\ UNCHANGED <<serviceVars, last, table, handlerVars, engineVars, heard>>

DestroySession(a) ==
  /\ pc[a] = "idle" /\ session' = [session EXCEPT ![a] = FALSE]
  /\ UNCHANGED <<serviceVars, enabled, last, table, appVars, handlerVars, engineVars, heard>>

\* speak(), whether TTS is enabled or not.
SpeakEnter(a, c) ==
  /\ Checked(a) /\ Begin(a, "speak", "speak", c, 0)
  /\ UNCHANGED <<serviceVars, clientVars, handlerVars, engineVars, heard>>

\* Mutant of SpeakReset: the old id stays until the answer comes.
SpeakResetNot(a) ==
  /\ pc[a] \in Inside /\ mutex # a /\ op[a] = "speak" /\ Goto(a, "call")
  /\ UNCHANGED <<serviceVars, clientVars, handlerVars, engineVars, heard>>

\* m_lastSpeechId = 0, once the handlers are registered.
SpeakReset(a) ==
  /\ pc[a] \in Inside /\ mutex # a /\ op[a] = "speak"
  /\ last' = [last EXCEPT ![a] = 0] /\ Goto(a, "call")
  /\ UNCHANGED <<serviceVars, enabled, table, session, handlerVars, engineVars, heard>>

SpeakFails(a) ==
  /\ pc[a] = "wait" /\ op[a] = "speak" /\ Return(a)
  /\ UNCHANGED <<serviceVars, clientVars, handlerVars, engineVars, heard>>

\* The engine accepts the speech, and its answer comes back.
SpeakAccepted(a) ==
  /\ pc[a] = "wait" /\ op[a] = "speak" /\ nextId \in ServiceIds
  /\ owner' = [owner EXCEPT ![nextId] = <<a, arg[a]>>] /\ nextId' = nextId + 1
  /\ Begin(a, "speak", "assign", arg[a], nextId)
  /\ UNCHANGED <<serviceVars, clientVars, handlerVars, heard>>

\* m_lastSpeechId is written through the reference handed to the service.
SpeakAssign(a) ==
  /\ pc[a] = "assign"
  /\ last' = [last EXCEPT ![a] = reply[a]] /\ Goto(a, "add")
  /\ UNCHANGED <<serviceVars, enabled, table, session, handlerVars, engineVars, heard>>

\* m_requestedSpeeches.add(data.id, m_lastSpeechId)
SpeakAdd(a) ==
  /\ pc[a] = "add"
  /\ table' = [table EXCEPT ![a] = Add(@, arg[a], last[a])] /\ Return(a)
  /\ UNCHANGED <<serviceVars, enabled, last, session, handlerVars, engineVars, heard>>

\* pause(), resume(), getSpeechState(): o tells whose id s is.
Named(a, o, c, s) ==
  /\ Checked(a) /\ GetServiceId(table[a], c) # 0
  /\ Begin(a, o, "call", c, s)
  /\ UNCHANGED <<serviceVars, clientVars, handlerVars, engineVars, heard>>

InProgress(a) == ~IsEmpty(table[a]) /\ last[a] # 0

\* abort(), from the API or the destructor, and isSpeaking(): the id is
\* m_lastSpeechId, read through a reference when the request is sent.
Abort(a) ==
  /\ active /\ enabled[a] /\ InProgress(a)
  /\ \/ pc[a] = "idle" /\ Begin(a, "last", "call", 0, 0)
     \/ pc[a] = "dtorAbort" /\ Begin(a, "dtor", "call", 0, 0)
  /\ UNCHANGED <<serviceVars, clientVars, handlerVars, engineVars, heard>>

IsSpeaking(a) ==
  /\ Checked(a) /\ InProgress(a) /\ Begin(a, "last", "call", 0, 0)
  /\ UNCHANGED <<serviceVars, clientVars, handlerVars, engineVars, heard>>

\* A call that does not check the connection.
Configure(a) ==
  /\ pc[a] = "idle" /\ Begin(a, "configure", "call", 0, 0)
  /\ UNCHANGED <<serviceVars, clientVars, handlerVars, engineVars, heard>>

Delete(a) ==
  /\ pc[a] = "idle" /\ Begin(a, "dtor", "unregister", 0, 0)
  /\ UNCHANGED <<serviceVars, clientVars, handlerVars, engineVars, heard>>

\* Mutant of Unregister: without m_mutex.
UnregisterUnlocked(a) ==
  /\ pc[a] = "unregister"
  /\ clients' = clients \ {a} /\ Goto(a, "dtorAbort")
  /\ UNCHANGED <<active, mutex, clientVars, handlerVars, engineVars, heard>>

Unregister(a) ==
  /\ pc[a] = "unregister" /\ MutexFree
  /\ clients' = clients \ {a} /\ Goto(a, "dtorAbort")
  /\ UNCHANGED <<active, mutex, clientVars, handlerVars, engineVars, heard>>

\* abort() has nothing to cancel, or is back; destroySession().
DestructorEnds(a) ==
  /\ \/ pc[a] = "dtorAbort" /\ ~(active /\ enabled[a] /\ InProgress(a))
     \/ pc[a] = "wait" /\ op[a] = "dtor"
  /\ session' = [session EXCEPT ![a] = FALSE] /\ Begin(a, "none", "dead", 0, 0)
  /\ UNCHANGED <<serviceVars, enabled, last, table, handlerVars, engineVars, heard>>

--------------------------------------------------------------------------------
(* The handler threads: dispatchEvent and the clients' handlers. *)

\* An event arrives: if(initialized()), before m_mutex is asked for.
Arrive(h, e) ==
  /\ stage[h] = "idle" /\ active
  /\ stage' = [stage EXCEPT ![h] = "wait"] /\ ev' = [ev EXCEPT ![h] = e]
  /\ UNCHANGED <<serviceVars, clientVars, appVars, todo, at, cid, engineVars, heard>>

SpeechEvent(h, k, s) == s < nextId /\ Arrive(h, [kind |-> k, id |-> s])
StateEvent(h, k) == Arrive(h, [kind |-> k, id |-> 0])

\* Mutant of Enter: the loop runs without m_mutex.
EnterUnlocked(h) ==
  /\ stage[h] = "wait"
  /\ todo' = [todo EXCEPT ![h] = clients] /\ stage' = [stage EXCEPT ![h] = "loop"]
  /\ UNCHANGED <<serviceVars, clientVars, appVars, ev, at, cid, engineVars, heard>>

\* m_mutex is taken; the loop over m_clients begins.
Enter(h) ==
  /\ stage[h] = "wait" /\ MutexFree
  /\ mutex' = h /\ todo' = [todo EXCEPT ![h] = clients] /\ stage' = [stage EXCEPT ![h] = "loop"]
  /\ UNCHANGED <<active, clients, clientVars, appVars, ev, at, cid, engineVars, heard>>

\* It is client b's turn.
Turn(h, b) == stage[h] = "loop" /\ b \in todo[h] /\ todo' = [todo EXCEPT ![h] = @ \ {b}]

OnTTSStateChange(h, b) ==
  /\ Turn(h, b) /\ ev[h].kind \in StateKinds
  /\ last' = [last EXCEPT ![b] = 0]
  /\ enabled' = [enabled EXCEPT ![b] = (ev[h].kind = "enabled")]
  /\ UNCHANGED <<serviceVars, table, session, appVars, stage, ev, at, cid, engineVars, heard>>

\* if(clientSpeechId && m_sessionCallback)
MayCall(h, b) ==
  LET c == GetClientId(table[b], ev[h].id) IN
  IF c # 0 /\ session[b]
    THEN /\ stage' = [stage EXCEPT ![h] = "call"]
         /\ at' = [at EXCEPT ![h] = b] /\ cid' = [cid EXCEPT ![h] = c]
    ELSE UNCHANGED <<stage, at, cid>>

\* onSpeechStart, onSpeechPause, onSpeechResume: getClientId().
OnSpeechInfo(h, b) ==
  /\ Turn(h, b) /\ ev[h].kind \in InfoKinds /\ MayCall(h, b)
  /\ UNCHANGED <<serviceVars, clientVars, appVars, ev, engineVars, heard>>

\* The handlers of the events that end a speech: removeServiceId().
OnSpeechEnd(h, b) ==
  /\ Turn(h, b) /\ ev[h].kind \in EndKinds /\ MayCall(h, b)
  /\ table' = [table EXCEPT ![b] = RemoveServiceId(@, ev[h].id)]
  /\ UNCHANGED <<serviceVars, enabled, last, session, appVars, ev, engineVars, heard>>

\* The session callback runs and returns.
CallBack(h) ==
  /\ stage[h] = "call" /\ stage' = [stage EXCEPT ![h] = "loop"]
  /\ heard' = heard \cup (IF ev[h].kind \in EndKinds THEN {ev[h].id} ELSE {})
  /\ at' = [at EXCEPT ![h] = None] /\ cid' = [cid EXCEPT ![h] = 0]
  /\ UNCHANGED <<serviceVars, clientVars, appVars, ev, todo, engineVars>>

\* The loop is over and m_mutex released.
Leave(h) ==
  /\ stage[h] = "loop" /\ todo[h] = {}
  /\ stage' = [stage EXCEPT ![h] = "idle"] /\ ev' = [ev EXCEPT ![h] = NoEvent] /\ mutex' = None
  /\ UNCHANGED <<active, clients, clientVars, appVars, todo, at, cid, engineVars, heard>>

Dispatch(h) ==
  \/ Enter(h) \/ CallBack(h) \/ Leave(h)
  \/ \E b \in Apps : OnTTSStateChange(h, b) \/ OnSpeechInfo(h, b) \/ OnSpeechEnd(h, b)

--------------------------------------------------------------------------------
(* What every backend may do, and does no more than. *)

AppStep(a) ==
  \/ Create(a) \/ InitSkip(a) \/ InitBegin(a) \/ Register(a)
  \/ \E l \in Inside : InitStep(a, l)
  \/ \E notify \in BOOLEAN : InitEnd(a, notify)
  \/ \E o \in {"query", "session"} : Query(a, o)
  \/ QueryReturns(a) \/ DestroySession(a)
  \/ \E c \in ClientIds :
       \/ SpeakEnter(a, c) \/ Named(a, "named", c, GetServiceId(table[a], c)) \/ Named(a, "state", c, c)
  \/ SpeakReset(a) \/ SpeakFails(a) \/ SpeakAccepted(a) \/ SpeakAssign(a) \/ SpeakAdd(a)
  \/ Abort(a) \/ IsSpeaking(a) \/ Configure(a)
  \/ Delete(a) \/ Unregister(a) \/ DestructorEnds(a)

ClientsNext ==
  \/ \E a \in Apps : AppStep(a)
  \/ \E h \in Handlers : Dispatch(h)
  \/ \E h \in Handlers, k \in SpeechKinds, s \in ServiceIds : SpeechEvent(h, k, s)
  \/ \E h \in Handlers, k \in StateKinds : StateEvent(h, k)

ClientsSpec == ClientsInit /\ [][ClientsNext]_baseVars

--------------------------------------------------------------------------------
(* Properties. *)

\* Every event goes to every client, from any handler thread; a session
\* callback runs only at the client that asked for the speech, and names the
\* id under which it did.
CallbackNamesOwnSpeech ==
  \A h \in Handlers : stage[h] = "call" => owner[ev[h].id] = <<at[h], cid[h]>>

\* Once an application was told that a speech ended, no handler thread calls
\* it about that speech, in whatever order the events were taken.
EndIsLast == \A h \in Handlers : stage[h] = "call" => ev[h].id \notin heard

\* pause() and resume(), and getSpeechState() over COM-RPC, name a speech
\* that this client asked for under the id the application gave.
RequestNamesOwnSpeech ==
  \A a \in Apps : pc[a] = "call" /\ op[a] = "named" =>
    reply[a] \in ServiceIds /\ owner[reply[a]] = <<a, arg[a]>>

\* What abort() cancels and isSpeaking() asks about is 0 or the newest speech
\* of this client, never one of another client.
LastSpeechIsNewest ==
  \A a \in Apps : last[a] # 0 =>
    /\ owner[last[a]][1] = a
    /\ \A s \in ServiceIds : owner[s][1] = a => s <= last[a]

\* Once unregisterClient() has returned no handler thread visits the client:
\* the object may be freed although events keep coming for the others.
SilentAfterUnregister ==
  \A h \in Handlers : todo[h] \subseteq clients /\ (stage[h] = "call" => at[h] \in clients)

\* The speech whose answer thread a has not filed yet.
Files(a, s) == pc[a] \in {"assign", "add"} /\ reply[a] = s

\* A thread is telling an application that speech s ended.
TellsEnd(h, s) == stage[h] = "call" /\ ev[h].kind \in EndKinds /\ ev[h].id = s

\* How far a speech has come, seen from the tables and the threads of all.
Phase(s) ==
  IF owner[s] = NoOwner THEN "unknown"
  ELSE IF \E a \in Apps : Files(a, s) THEN "accepted"
  ELSE IF \E a \in Apps : s \in Tracked(table[a]) THEN "tracked"
  ELSE IF \E h \in Handlers : TellsEnd(h, s) THEN "ended" ELSE "over"

\* The speech a session callback runs for, whichever thread calls it.
Telling ==
  IF \E h \in Handlers : stage[h] = "call" THEN ev[CHOOSE h \in Handlers : stage[h] = "call"].id ELSE 0

Lifecycle == INSTANCE SpeechLifecycle WITH
  speech <- [s \in ServiceIds |-> Phase(s)], telling <- Telling

\* Every speech of every client goes through the lifecycle, although all
\* clients see all events and several threads deliver them: it is in one
\* table at most and once, its first end takes it out for good, and one
\* callback runs at a time.
ImplementsLifecycle == Lifecycle!Spec

--------------------------------------------------------------------------------
(* The inductive invariant behind them. *)

\* An entry is of a speech that this client asked for under this id, or has
\* id 0, left by a state change between the assignment and add().
EntriesOwned ==
  \A a \in Apps : \A c \in DOMAIN table[a] : table[a][c] # 0 => owner[table[a][c]] = <<a, c>>

\* Only ids given out have an owner or an end; what was told is out of the
\* tables.
GivenOut == \A s \in ServiceIds : owner[s] # NoOwner \/ s \in heard => s < nextId
HeardIsGone == \A a \in Apps : Tracked(table[a]) \cap heard = {}

\* Who holds m_mutex, and that it covers the loop over the clients.
MutexHeld ==
  /\ \A a \in Apps : mutex = a => pc[a] \in Inside
  /\ \A h \in Handlers :
       /\ mutex = h <=> stage[h] \in {"loop", "call"}
       /\ todo[h] # {} => mutex = h

\* The id of an answer that is not filed yet is the newest of its client, and
\* nobody else has it.
SpeakLocals ==
  \A a \in Apps :
    /\ op[a] = "speak" => arg[a] \in ClientIds
    /\ op[a] = "speak" /\ (pc[a] \in {"init", "call", "wait", "assign"} \/ mutex = a) => last[a] = 0
    /\ pc[a] \in {"assign", "add"} =>
         /\ reply[a] \in ServiceIds /\ owner[reply[a]] = <<a, arg[a]>>
         /\ last[a] \in {0, reply[a]} /\ reply[a] \notin heard
         /\ \A b \in Apps : reply[a] \notin Tracked(table[b])
         /\ \A s \in ServiceIds : owner[s][1] = a => s <= reply[a]

\* What a handler thread knows while it calls an application.
HandlerLocals ==
  \A h \in Handlers : stage[h] = "call" =>
    /\ ev[h].kind \in SpeechKinds /\ at[h] \in clients
    /\ \A a \in Apps : pc[a] \in {"assign", "add"} => reply[a] # ev[h].id
    /\ ev[h].kind \in EndKinds => \A a \in Apps : ev[h].id \notin Tracked(table[a])

IndInv ==
  /\ ClientsTypeOK /\ EntriesOwned /\ GivenOut /\ HeardIsGone /\ MutexHeld /\ SpeakLocals /\ HandlerLocals
  /\ CallbackNamesOwnSpeech /\ EndIsLast /\ RequestNamesOwnSpeech /\ LastSpeechIsNewest /\ SilentAfterUnregister

================================================================================
