------------------------------ MODULE SpeechClient ------------------------------
(***************************************************************************)
(* One TTS client object of the JSON-RPC backend                           *)
(* (ttsclient/TTSClientPrivateJsonRPC.cpp) with the three parties that     *)
(* touch it concurrently:                                                  *)
(*   - the application thread, which calls the API;                        *)
(*   - the event thread, which runs TextToSpeechService::dispatchEvent and *)
(*     the client's onSpeech... handlers while it holds the service mutex; *)
(*   - the connection: the service's (de)activation notifications.         *)
(* The TextToSpeech plugin is external: it gives every accepted speech a   *)
(* fresh service id and may send any event about any id it gave out.       *)
(***************************************************************************)
EXTENDS SpeechRequestMap, Sequences

CONSTANTS
  ClientIds,     \* the SpeechData::id values the application uses
  InfoKinds,     \* events that leave the speech alive: start, pause, resume
  EndKinds,      \* events that end it: cancel, interrupt, errors, complete
  MaxServiceId,  \* bound: how many speeches the plugin accepts
  MaxWire,       \* bound: events under way from the plugin to the process
  Nobody         \* owner of a service id that was given to another client

ASSUME ClientIdsAssumption == ClientIds \subseteq Nat
ASSUME MaxServiceIdAssumption == MaxServiceId \in Nat
ASSUME MaxWireAssumption == MaxWire \in Nat
ASSUME NobodyAssumption == Nobody \notin Nat
ASSUME KindsAssumption ==
  /\ InfoKinds \cap EndKinds = {}
  /\ {"enabled", "disabled"} \cap (InfoKinds \cup EndKinds) = {}

ServiceIds == 1..MaxServiceId
StateKinds == {"enabled", "disabled"}
SpeechEvents == [kind : InfoKinds \cup EndKinds, id : ServiceIds]
Events == SpeechEvents \cup [kind : StateKinds, id : {0}]
NoEvent == [kind |-> "enabled", id |-> 0]

VARIABLES
  ttsEnabled,         \* m_ttsEnabled
  lastSpeechId,       \* m_lastSpeechId
  requestedSpeeches,  \* m_requestedSpeeches
  sessionCallback,    \* m_sessionCallback is not null
  firstQuery,         \* m_firstQuery
  registered,         \* the client is in the service's m_clients
  connection,         \* "up": the service has m_active and its m_remoteObject
  subscribed,         \* the speech events are subscribed on this connection
  pc, arg, reply,     \* application thread: where it is, its two locals
  stage, ev, cid,     \* event thread: where it is, its event, its local
  wire,               \* events on their way from the plugin
  nextId, owner,      \* plugin: the next service id, who each id belongs to
  removed,            \* history: ids whose entry an end event erased
  heard               \* history: ids whose end the application was told of

clientVars  == <<ttsEnabled, lastSpeechId, requestedSpeeches, sessionCallback, firstQuery>>
serviceVars == <<registered, connection, subscribed>>
appVars     == <<pc, arg, reply>>
eventVars   == <<stage, ev, cid>>
pluginVars  == <<wire, nextId, owner>>
historyVars == <<removed, heard>>
vars == <<clientVars, serviceVars, appVars, eventVars, pluginVars, historyVars>>

AppStates == {"new", "idle",
              "speak", "assign", "add",       \* speak()
              "query", "sessionQuery",        \* isTTSEnabled(), createSession()
              "cancel", "send", "isspeaking", \* requests under way
              "unregister", "dtorAbort", "dtorCancel", "dtorEnd", "dead"}
Stages == {"idle", "wait", "lookup", "check", "call"}

TypeOK ==
  /\ ttsEnabled \in BOOLEAN /\ sessionCallback \in BOOLEAN /\ firstQuery \in BOOLEAN
  /\ lastSpeechId \in ServiceIds \cup {0}
  /\ DOMAIN requestedSpeeches \subseteq ClientIds
  /\ requestedSpeeches \in [DOMAIN requestedSpeeches -> ServiceIds \cup {0}]
  /\ registered \in BOOLEAN /\ connection \in {"up", "closing", "down"} /\ subscribed \in BOOLEAN
  /\ pc \in AppStates /\ arg \in ClientIds \cup {0} /\ reply \in ServiceIds \cup {0}
  /\ pc \in {"speak", "assign", "add"} => arg \in ClientIds
  /\ stage \in Stages /\ ev \in Events /\ cid \in ClientIds \cup {0}
  /\ wire \in Seq(Events)
  /\ nextId \in 1..(MaxServiceId + 1)
  /\ owner \in [ServiceIds -> ClientIds \cup {Nobody}]
  /\ removed \subseteq ServiceIds /\ heard \subseteq ServiceIds

Init ==
  /\ ttsEnabled = FALSE /\ lastSpeechId = 0 /\ requestedSpeeches = EmptyMap
  /\ sessionCallback = FALSE /\ firstQuery = TRUE
  /\ registered = FALSE /\ connection \in {"up", "down"} /\ subscribed = FALSE
  /\ pc = "new" /\ arg = 0 /\ reply = 0
  /\ stage = "idle" /\ ev = NoEvent /\ cid = 0
  /\ wire = <<>> /\ nextId = 1 /\ owner = [s \in ServiceIds |-> Nobody]
  /\ removed = {} /\ heard = {}

\* isActive(), and a remote object to call.
Connected == connection = "up"

\* The event thread holds the service's m_mutex while it runs handlers.
MutexFree == stage \notin {"lookup", "check", "call"}

--------------------------------------------------------------------------------
(* The application thread. *)

\* The constructor: initialize() and registerClient() under m_mutex.
Construct ==
  /\ pc = "new" /\ MutexFree
  /\ registered' = TRUE /\ pc' = "idle"
  /\ UNCHANGED <<clientVars, connection, subscribed, arg, reply, eventVars, pluginVars, historyVars>>

\* isTTSEnabled(): without force the cached value is returned, except the
\* first time.
IsTTSEnabled(force) ==
  /\ pc = "idle" /\ Connected
  /\ force \/ firstQuery
  /\ firstQuery' = FALSE /\ pc' = "query"
  /\ UNCHANGED <<ttsEnabled, lastSpeechId, requestedSpeeches, sessionCallback,
                 serviceVars, arg, reply, eventVars, pluginVars, historyVars>>

\* createSession() begins with isTTSEnabled(true).
CreateSession ==
  /\ pc = "idle" /\ Connected
  /\ firstQuery' = FALSE /\ pc' = "sessionQuery"
  /\ UNCHANGED <<ttsEnabled, lastSpeechId, requestedSpeeches, sessionCallback,
                 serviceVars, arg, reply, eventVars, pluginVars, historyVars>>

\* The "isttsenabled" call comes back; a failed one leaves m_ttsEnabled.
QueryReturns ==
  /\ pc \in {"query", "sessionQuery"}
  /\ ttsEnabled' \in (IF Connected THEN BOOLEAN ELSE {ttsEnabled})
  /\ sessionCallback' = (sessionCallback \/ pc = "sessionQuery")
  /\ pc' = "idle"
  /\ UNCHANGED <<lastSpeechId, requestedSpeeches, firstQuery,
                 serviceVars, arg, reply, eventVars, pluginVars, historyVars>>

DestroySession ==
  /\ pc = "idle"
  /\ sessionCallback' = FALSE
  /\ UNCHANGED <<ttsEnabled, lastSpeechId, requestedSpeeches, firstQuery,
                 serviceVars, appVars, eventVars, pluginVars, historyVars>>

\* Mutant of SpeakEnter: the last speech is not reset.
SpeakEnterKeeps(c) ==
  /\ pc = "idle" /\ Connected /\ ttsEnabled
  /\ subscribed' = TRUE
  /\ pc' = "speak" /\ arg' = c /\ reply' = 0
  /\ UNCHANGED <<clientVars, registered, connection, eventVars, pluginVars, historyVars>>

\* speak() up to its remote call; the handlers are registered on first use.
SpeakEnter(c) ==
  /\ pc = "idle" /\ Connected /\ ttsEnabled
  /\ subscribed' = TRUE
  /\ lastSpeechId' = 0
  /\ pc' = "speak" /\ arg' = c /\ reply' = 0
  /\ UNCHANGED <<ttsEnabled, requestedSpeeches, sessionCallback, firstQuery,
                 registered, connection, eventVars, pluginVars, historyVars>>

\* The remote call fails, times out, or answers without a "speechid".
SpeakFails ==
  /\ pc = "speak"
  /\ pc' = "idle" /\ arg' = 0
  /\ UNCHANGED <<clientVars, serviceVars, reply, eventVars, pluginVars, historyVars>>

\* The plugin accepts the speech and its answer reaches the waiting thread.
SpeakAccepted ==
  /\ pc = "speak" /\ Connected /\ nextId \in ServiceIds
  /\ owner' = [owner EXCEPT ![nextId] = arg]
  /\ reply' = nextId /\ nextId' = nextId + 1
  /\ pc' = "assign"
  /\ UNCHANGED <<clientVars, serviceVars, arg, eventVars, wire, historyVars>>

\* Mutant of SpeakAssign: the application's id instead of the service's.
SpeakAssignClientId ==
  /\ pc = "assign"
  /\ lastSpeechId' = arg /\ pc' = "add"
  /\ UNCHANGED <<ttsEnabled, requestedSpeeches, sessionCallback, firstQuery,
                 serviceVars, arg, reply, eventVars, pluginVars, historyVars>>

\* m_lastSpeechId = response["speechid"]
SpeakAssign ==
  /\ pc = "assign"
  /\ lastSpeechId' = reply /\ pc' = "add"
  /\ UNCHANGED <<ttsEnabled, requestedSpeeches, sessionCallback, firstQuery,
                 serviceVars, arg, reply, eventVars, pluginVars, historyVars>>

\* m_requestedSpeeches.add(data.id, m_lastSpeechId) reads the member again.
SpeakAdd ==
  /\ pc = "add"
  /\ requestedSpeeches' = Add(requestedSpeeches, arg, lastSpeechId)
  /\ pc' = "idle" /\ arg' = 0 /\ reply' = 0
  /\ UNCHANGED <<ttsEnabled, lastSpeechId, sessionCallback, firstQuery,
                 serviceVars, eventVars, pluginVars, historyVars>>

\* Mutant of PauseOrResume: the last speech instead of the one asked for.
PauseOrResumeLast(c) ==
  /\ pc = "idle" /\ Connected /\ ttsEnabled /\ lastSpeechId # 0
  /\ pc' = "send" /\ arg' = c /\ reply' = lastSpeechId
  /\ UNCHANGED <<clientVars, serviceVars, eventVars, pluginVars, historyVars>>

\* pause() and resume() look the service id up and send it.
PauseOrResume(c) ==
  /\ pc = "idle" /\ Connected /\ ttsEnabled
  /\ GetServiceId(requestedSpeeches, c) # 0
  /\ pc' = "send" /\ arg' = c /\ reply' = GetServiceId(requestedSpeeches, c)
  /\ UNCHANGED <<clientVars, serviceVars, eventVars, pluginVars, historyVars>>

\* getSpeechState() does the same whether TTS is enabled or not.
GetSpeechState(c) ==
  /\ pc = "idle" /\ Connected
  /\ GetServiceId(requestedSpeeches, c) # 0
  /\ pc' = "send" /\ arg' = c /\ reply' = GetServiceId(requestedSpeeches, c)
  /\ UNCHANGED <<clientVars, serviceVars, eventVars, pluginVars, historyVars>>

\* "No speech in progress" of abort() and isSpeaking(): checked here, but
\* the member is read once more when the request is built.
InProgress == ~IsEmpty(requestedSpeeches) /\ lastSpeechId # 0

\* abort() up to its "cancel" call, from the API or from the destructor.
Abort ==
  /\ pc \in {"idle", "dtorAbort"} /\ Connected /\ ttsEnabled /\ InProgress
  /\ pc' = IF pc = "idle" THEN "cancel" ELSE "dtorCancel"
  /\ UNCHANGED <<clientVars, serviceVars, arg, reply, eventVars, pluginVars, historyVars>>

IsSpeaking ==
  /\ pc = "idle" /\ Connected /\ InProgress
  /\ pc' = "isspeaking"
  /\ UNCHANGED <<clientVars, serviceVars, arg, reply, eventVars, pluginVars, historyVars>>

\* The remote call naming a speech is made and comes back, well or not.
RequestReturns ==
  /\ pc \in {"cancel", "send", "isspeaking", "dtorCancel"}
  /\ pc' = IF pc = "dtorCancel" THEN "dtorEnd" ELSE "idle"
  /\ arg' = 0 /\ reply' = 0
  /\ UNCHANGED <<clientVars, serviceVars, eventVars, pluginVars, historyVars>>

\* The destructor: unregisterClient() waits for m_mutex, then abort() and
\* destroySession().
Delete ==
  /\ pc = "idle" /\ pc' = "unregister"
  /\ UNCHANGED <<clientVars, serviceVars, arg, reply, eventVars, pluginVars, historyVars>>

\* Mutant of Unregister: m_clients is changed without the lock.
UnregisterUnlocked ==
  /\ pc = "unregister"
  /\ registered' = FALSE /\ pc' = "dtorAbort"
  /\ UNCHANGED <<clientVars, connection, subscribed, arg, reply, eventVars, pluginVars, historyVars>>

Unregister ==
  /\ pc = "unregister" /\ MutexFree
  /\ registered' = FALSE /\ pc' = "dtorAbort"
  /\ UNCHANGED <<clientVars, connection, subscribed, arg, reply, eventVars, pluginVars, historyVars>>

\* abort() has nothing to cancel.
AbortNothing ==
  /\ pc = "dtorAbort" /\ ~(Connected /\ ttsEnabled /\ InProgress)
  /\ pc' = "dtorEnd"
  /\ UNCHANGED <<clientVars, serviceVars, arg, reply, eventVars, pluginVars, historyVars>>

DestructorEnds ==
  /\ pc = "dtorEnd"
  /\ sessionCallback' = FALSE /\ pc' = "dead"
  /\ UNCHANGED <<ttsEnabled, lastSpeechId, requestedSpeeches, firstQuery,
                 serviceVars, arg, reply, eventVars, pluginVars, historyVars>>

--------------------------------------------------------------------------------
(* The event thread: TextToSpeechService::dispatchEvent and the handlers. *)

\* An event arrives; initialized() is read before m_mutex is taken.
Deliver ==
  /\ stage = "idle" /\ wire # <<>>
  /\ wire' = Tail(wire)
  /\ IF Connected
       THEN stage' = "wait" /\ ev' = Head(wire)
       ELSE UNCHANGED <<stage, ev>>
  /\ UNCHANGED <<clientVars, serviceVars, appVars, cid, nextId, owner, historyVars>>

\* m_mutex is taken and m_clients searched: this client is not there.
SkipUnregistered ==
  /\ stage = "wait" /\ ~registered
  /\ stage' = "idle" /\ ev' = NoEvent
  /\ UNCHANGED <<clientVars, serviceVars, appVars, cid, pluginVars, historyVars>>

OnTTSStateChange ==
  /\ stage = "wait" /\ registered /\ ev.kind \in StateKinds
  /\ lastSpeechId' = 0 /\ ttsEnabled' = (ev.kind = "enabled")
  /\ stage' = "idle" /\ ev' = NoEvent
  /\ UNCHANGED <<requestedSpeeches, sessionCallback, firstQuery,
                 serviceVars, appVars, cid, pluginVars, historyVars>>

\* m_mutex is taken and this client's onSpeech... handler entered.
EnterHandler ==
  /\ stage = "wait" /\ registered /\ ev.kind \notin StateKinds
  /\ stage' = "lookup"
  /\ UNCHANGED <<clientVars, serviceVars, appVars, ev, cid, pluginVars, historyVars>>

\* onSpeechStart, onSpeechPause, onSpeechResume: getClientId().
LookUp ==
  /\ stage = "lookup" /\ ev.kind \in InfoKinds
  /\ cid' = GetClientId(requestedSpeeches, ev.id) /\ stage' = "check"
  /\ UNCHANGED <<clientVars, serviceVars, appVars, ev, pluginVars, historyVars>>

\* The handlers of the events that end a speech: removeServiceId().
LookUpAndRemove ==
  /\ stage = "lookup" /\ ev.kind \in EndKinds
  /\ cid' = GetClientId(requestedSpeeches, ev.id)
  /\ requestedSpeeches' = RemoveServiceId(requestedSpeeches, ev.id)
  /\ removed' = removed \cup ({ev.id} \cap Tracked(requestedSpeeches))
  /\ stage' = "check"
  /\ UNCHANGED <<ttsEnabled, lastSpeechId, sessionCallback, firstQuery,
                 serviceVars, appVars, ev, pluginVars, heard>>

\* if(clientSpeechId && m_sessionCallback)
CheckCallback ==
  /\ stage = "check"
  /\ IF cid # 0 /\ sessionCallback
       THEN stage' = "call" /\ UNCHANGED <<ev, cid>>
       ELSE stage' = "idle" /\ ev' = NoEvent /\ cid' = 0
  /\ UNCHANGED <<clientVars, serviceVars, appVars, pluginVars, historyVars>>

\* Mutant of CallBack: m_mutex is not released.
CallBackKeepsMutex ==
  /\ stage = "call"
  /\ heard' = heard \cup (IF ev.kind \in EndKinds THEN {ev.id} ELSE {})
  /\ UNCHANGED <<clientVars, serviceVars, appVars, eventVars, pluginVars, removed>>

\* The session callback runs and returns; m_mutex is released.
CallBack ==
  /\ stage = "call"
  /\ heard' = heard \cup (IF ev.kind \in EndKinds THEN {ev.id} ELSE {})
  /\ stage' = "idle" /\ ev' = NoEvent /\ cid' = 0
  /\ UNCHANGED <<clientVars, serviceVars, appVars, pluginVars, removed>>

--------------------------------------------------------------------------------
(* The connection, as Service and TextToSpeechService drive it. *)

\* Service::onDeactivation begins: uninitialize() drops the remote object,
\* its subscriptions and what was still under way on it.
ConnectionLost ==
  /\ Connected
  /\ connection' = "closing" /\ subscribed' = FALSE /\ wire' = <<>>
  /\ UNCHANGED <<clientVars, registered, appVars, eventVars, nextId, owner, historyVars>>

\* notifyClientsOfDeactivation() runs onDeactivation() under m_mutex.
OnDeactivation ==
  /\ connection = "closing" /\ MutexFree
  /\ connection' = "down"
  /\ IF registered
       THEN lastSpeechId' = 0 /\ ttsEnabled' = FALSE
       ELSE UNCHANGED <<lastSpeechId, ttsEnabled>>
  /\ UNCHANGED <<requestedSpeeches, sessionCallback, firstQuery, registered, subscribed,
                 appVars, eventVars, pluginVars, historyVars>>

\* TextToSpeechService::initialize() runs onTTSStateChange(false) under
\* m_mutex once it has the remote object.
ConnectionMade ==
  /\ connection = "down" /\ MutexFree
  /\ connection' = "up"
  /\ IF registered
       THEN lastSpeechId' = 0 /\ ttsEnabled' = FALSE
       ELSE UNCHANGED <<lastSpeechId, ttsEnabled>>
  /\ UNCHANGED <<requestedSpeeches, sessionCallback, firstQuery, registered, subscribed,
                 appVars, eventVars, pluginVars, historyVars>>

--------------------------------------------------------------------------------
(* The plugin. *)

\* It sends an event about any speech it accepted, in any order, again too.
PluginSpeechEvent(k, s) ==
  /\ Connected /\ subscribed /\ s < nextId /\ Len(wire) < MaxWire
  /\ wire' = Append(wire, [kind |-> k, id |-> s])
  /\ UNCHANGED <<clientVars, serviceVars, appVars, eventVars, nextId, owner, historyVars>>

PluginStateEvent(k) ==
  /\ Connected /\ Len(wire) < MaxWire
  /\ wire' = Append(wire, [kind |-> k, id |-> 0])
  /\ UNCHANGED <<clientVars, serviceVars, appVars, eventVars, nextId, owner, historyVars>>

\* It accepts a speech of another client, or one whose answer got lost.
PluginAcceptsOther ==
  /\ nextId \in ServiceIds
  /\ nextId' = nextId + 1
  /\ UNCHANGED <<clientVars, serviceVars, appVars, eventVars, wire, owner, historyVars>>

--------------------------------------------------------------------------------
App ==
  \/ Construct \/ CreateSession \/ QueryReturns \/ DestroySession
  \/ \E force \in BOOLEAN : IsTTSEnabled(force)
  \/ \E c \in ClientIds : SpeakEnter(c) \/ PauseOrResume(c) \/ GetSpeechState(c)
  \/ SpeakFails \/ SpeakAccepted \/ SpeakAssign \/ SpeakAdd
  \/ Abort \/ IsSpeaking \/ RequestReturns
  \/ Delete \/ Unregister \/ AbortNothing \/ DestructorEnds

EventThread ==
  \/ Deliver \/ SkipUnregistered \/ OnTTSStateChange \/ EnterHandler
  \/ LookUp \/ LookUpAndRemove \/ CheckCallback \/ CallBack

Connection == ConnectionLost \/ OnDeactivation \/ ConnectionMade

Plugin ==
  \/ \E k \in InfoKinds \cup EndKinds, s \in ServiceIds : PluginSpeechEvent(k, s)
  \/ \E k \in StateKinds : PluginStateEvent(k)
  \/ PluginAcceptsOther

Next == App \/ EventThread \/ Connection \/ Plugin

Spec == Init /\ [][Next]_vars

\* An API call that has begun goes on: every remote call returns within
\* THUNDER_RPC_TIMEOUT, and the rest does not block.
AppGoesOn ==
  \/ QueryReturns \/ SpeakFails \/ SpeakAssign \/ SpeakAdd \/ RequestReturns
  \/ (pc = "dtorAbort" /\ Abort) \/ AbortNothing \/ DestructorEnds

\* The threads run, and m_mutex does not starve the one that waits for it.
\* A deactivation that has begun is carried through; whether and when the
\* plugin goes down or comes back is its own affair.
Fairness ==
  /\ WF_vars(EventThread) /\ WF_vars(OnDeactivation) /\ WF_vars(AppGoesOn)
  /\ SF_vars(Unregister)

FairSpec == Spec /\ Fairness

--------------------------------------------------------------------------------
(* Properties. *)

\* A session callback names the client id under which this very client
\* asked for the speech the event is about: the broadcast of every event to
\* every client reaches its owner only (onSpeech... handlers).
CallbackNamesOwnSpeech == stage = "call" => owner[ev.id] = cid

\* Once the application was told that a speech ended, no callback about
\* that speech follows, whatever else the plugin sends about it.
EndIsLast == stage = "call" => ev.id \notin heard

\* pause, resume and getspeechstate name a speech that belongs to the client
\* id the application gave, never another one.
RequestNamesOwnSpeech == pc = "send" => owner[reply] = arg

\* What abort() cancels and isSpeaking() asks about is 0 or the most recent
\* speech the plugin accepted from this client.
LastSpeechIsNewest ==
  lastSpeechId # 0 =>
    /\ owner[lastSpeechId] # Nobody
    /\ \A s \in ServiceIds : owner[s] # Nobody => s <= lastSpeechId

\* After unregisterClient() has returned, no handler of this client is
\* running and none starts: the object may be freed.
SilentAfterUnregister ==
  ~registered => stage \notin {"lookup", "check", "call"}

--------------------------------------------------------------------------------
(* The inductive invariant behind the safety properties. *)

\* An entry belongs to the client id it is filed under (or has id 0, left by
\* a state change between the assignment and add()), and is of a speech that
\* no end event has erased.
EntriesOwned ==
  \A c \in DOMAIN requestedSpeeches :
    requestedSpeeches[c] # 0 => owner[requestedSpeeches[c]] = c
EntriesAlive ==
  \A c \in DOMAIN requestedSpeeches : requestedSpeeches[c] \notin removed

\* Only ids given out have an owner or a history.
GivenOut ==
  \A s \in ServiceIds : owner[s] # Nobody \/ s \in removed => s < nextId
HeardAreRemoved == heard \subseteq removed

\* What the application thread holds in its locals while it is in speak().
SpeakLocals ==
  /\ pc \in {"speak", "assign"} => lastSpeechId = 0
  /\ pc = "add" => lastSpeechId \in {0, reply}
  /\ pc \in {"assign", "add"} =>
       /\ reply \in ServiceIds /\ owner[reply] = arg
       /\ reply \notin removed /\ reply \notin Tracked(requestedSpeeches)
       /\ \A s \in ServiceIds : owner[s] # Nobody => s <= reply

\* What the event thread knows of the event it handles.
HandlerLocals ==
  /\ stage \in {"lookup", "check", "call"} => ev.kind \notin StateKinds
  /\ stage \in {"check", "call"} /\ cid # 0 =>
       /\ owner[ev.id] = cid
       /\ ev.id \notin heard
       /\ ev.kind \in InfoKinds =>
            ev.id \notin removed /\ ev.id \in Tracked(requestedSpeeches)
       /\ ev.kind \in EndKinds => ev.id \in removed
  /\ stage = "call" => cid # 0

IndInv ==
  /\ TypeOK /\ EntriesOwned /\ EntriesAlive /\ GivenOut /\ HeardAreRemoved
  /\ SpeakLocals /\ HandlerLocals
  /\ RequestNamesOwnSpeech /\ LastSpeechIsNewest /\ SilentAfterUnregister

--------------------------------------------------------------------------------
(* Liveness, the reported loss, and the lifecycle. *)

\* delete of a client comes to an end, although it waits for m_mutex and
\* makes a remote call on the way.
DestructorReturns == pc = "unregister" ~> pc = "dead"

\* An end event finds the entry of the speech it ends, unless an earlier end
\* event erased it: speak() returned TTS_OK, so its completion is reported.
CompletionFindsItsSpeech ==
  [][ stage = "lookup" /\ stage' = "check" /\ ev.kind \in EndKinds
        /\ owner[ev.id] # Nobody /\ ev.id \notin removed
      => cid' = owner[ev.id] ]_vars

\* The lifecycle every speech of this client goes through, seen from the
\* table, the plugin and the callbacks.
Phase(s) ==
  IF s \in heard THEN "over"
  ELSE IF s \in removed THEN "ended"
  ELSE IF s \in Tracked(requestedSpeeches) THEN "tracked"
  ELSE IF owner[s] # Nobody THEN "accepted" ELSE "unknown"

Lifecycle == INSTANCE SpeechLifecycle WITH
  speech <- [s \in ServiceIds |-> Phase(s)],
  telling <- IF stage = "call" THEN ev.id ELSE 0

\* Whatever the plugin sends and whenever it arrives, every speech of this
\* client goes through the lifecycle: accepted, tracked, ended, over, with a
\* callback only in between and none after the last.
ImplementsLifecycle == Lifecycle!Spec
================================================================================
