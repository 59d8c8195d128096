----------------------------- MODULE FireboltService -----------------------------
(***************************************************************************)
(* The Firebolt backend: TextToSpeechServiceFirebolt with its clients      *)
(* TTSClientPrivateFirebolt (module BackendClient).  Only a constructor    *)
(* connects: it asks the Firebolt SDK for a connection and waits up to     *)
(* 500 ms for the SDK's thread to call connectionChanged().  The SDK calls *)
(* the notifications on the threads of its pool, which all run             *)
(* dispatchEvent() themselves.  The SDK and the engine behind it are       *)
(* external; the end of the process (deinitialize) is left out.            *)
(***************************************************************************)
EXTENDS BackendClient

CONSTANT Pool  \* the handler threads of this backend

ASSUME PoolAssumption == Pool \subseteq Handlers

VARIABLES
  isConnected,  \* what connectionChanged() was told last
  linking,      \* external: the SDK was asked to connect, and may call back
  subscribed    \* external: what the SDK has answered to each subscription

fireboltVars == <<isConnected, linking, subscribed>>

\* One for each kind of speech event, one for the state (and one for the
\* voice, left out).
Subscriptions == SpeechKinds \cup {"ttsstatechange"}
Answers == {"accepted", "refused"}

FireboltTypeOK ==
  /\ isConnected \in BOOLEAN /\ linking \in BOOLEAN
  /\ subscribed \in [Subscriptions -> Answers \cup {"unasked"}]

FireboltInit ==
  isConnected = FALSE /\ linking = FALSE /\ subscribed = [n \in Subscriptions |-> "unasked"]

\* Every subscription has been asked for.
Asked == \A n \in Subscriptions : subscribed[n] \in Answers

\* mtx is held from the end of the wait to the end of the subscriptions.
MtxFree == \A a \in Apps : pc[a] # "opened"

--------------------------------------------------------------------------------
(* initialize() *)

\* initialized(), or no FIREBOLT_ENDPOINT.
FireboltInitSkip(a) ==
  /\ pc[a] = "init" /\ MutexFree
  /\ InitSkip(a) /\ UNCHANGED fireboltVars

\* createFireboltInstance() asks the SDK to connect,
FireboltConnect(a) ==
  /\ pc[a] = "init" /\ ~active
  /\ isConnected' = FALSE /\ linking' = TRUE
  /\ InitBegin(a) /\ UNCHANGED subscribed

\* or reports an error, after which the SDK may connect all the same.
FireboltConnectFails(a) ==
  /\ pc[a] = "init" /\ ~active /\ MutexFree
  /\ isConnected' = FALSE /\ linking' \in {linking, TRUE}
  /\ InitSkip(a) /\ UNCHANGED subscribed

\* Mutant of ConnectionChanged: it sets m_initialized as well.
ConnectionChangedInitializes(connected) ==
  /\ linking /\ MtxFree
  /\ isConnected' = connected /\ active' = connected
  /\ UNCHANGED <<clients, mutex, clientVars, appVars, handlerVars, engineVars, heard, linking, subscribed>>

\* The SDK's thread, under mtx.
ConnectionChanged(connected) ==
  /\ linking /\ MtxFree
  /\ isConnected' = connected
  /\ UNCHANGED <<baseVars, linking, subscribed>>

\* cv.wait_for() ends with isConnected: m_initialized = true,
FireboltConnected(a) ==
  /\ pc[a] = "open" /\ isConnected
  /\ InitStep(a, "opened") /\ active'
  /\ UNCHANGED fireboltVars

\* or without it, after 500 ms.
FireboltTimeout(a) ==
  /\ pc[a] = "open" /\ ~isConnected
  /\ InitEnd(a, FALSE)
  /\ UNCHANGED fireboltVars

\* Mutant of FireboltSubscribe: subscribeEvents() is asked before m_initialized is set.
FireboltSubscribeEarly(a) ==
  /\ pc[a] = "opened"
  /\ InitEnd(a, FALSE)
  /\ UNCHANGED fireboltVars

\* subscribeEvents() while both mutexes are held: nothing if ~isActive().  A
\* subscription that is refused is only logged, and never asked for again.
FireboltSubscribe(a) ==
  /\ pc[a] = "opened"
  /\ IF active THEN subscribed' \in [Subscriptions -> Answers] ELSE UNCHANGED subscribed
  /\ InitEnd(a, FALSE)
  /\ UNCHANGED <<isConnected, linking>>

--------------------------------------------------------------------------------
(* The client's calls.  None of the service's functions takes m_mutex. *)

\* if(!isActive()) return false
FireboltCall(a) == pc[a] = "call" /\ InitSkip(a) /\ UNCHANGED fireboltVars

FireboltCreate(a) == Create(a) /\ UNCHANGED fireboltVars
FireboltConstructed(a) == Register(a) /\ UNCHANGED fireboltVars

FireboltIsTTSEnabled(a) == Query(a, "query") /\ UNCHANGED fireboltVars
FireboltCreateSession(a) == Query(a, "session") /\ UNCHANGED fireboltVars
FireboltQueryReturns(a) == QueryReturns(a) /\ UNCHANGED fireboltVars
FireboltDestroySession(a) == DestroySession(a) /\ UNCHANGED fireboltVars

FireboltSpeak(a, c) == SpeakEnter(a, c) /\ UNCHANGED fireboltVars
FireboltSpeakReset(a) == SpeakReset(a) /\ UNCHANGED fireboltVars
FireboltSpeakReturns(a) ==
  (SpeakFails(a) \/ SpeakAccepted(a) \/ SpeakAssign(a) \/ SpeakAdd(a)) /\ UNCHANGED fireboltVars

\* Mutant of FireboltPause: the newest speech is paused instead.
FireboltPauseLast(a, c) ==
  enabled[a] /\ last[a] # 0 /\ Named(a, "named", c, last[a]) /\ UNCHANGED fireboltVars
FireboltPause(a, c) ==
  enabled[a] /\ Named(a, "named", c, GetServiceId(table[a], c)) /\ UNCHANGED fireboltVars
FireboltResume(a, c) ==
  enabled[a] /\ Named(a, "named", c, GetServiceId(table[a], c)) /\ UNCHANGED fireboltVars
\* The service is given the application's id, not the one looked up.
FireboltGetSpeechState(a, c) == Named(a, "state", c, c) /\ UNCHANGED fireboltVars
FireboltAbort(a) == Abort(a) /\ UNCHANGED fireboltVars
FireboltIsSpeaking(a) == IsSpeaking(a) /\ UNCHANGED fireboltVars

\* setTTSConfiguration(), getTTSConfiguration(); enableTTS() does nothing.
FireboltConfigure(a) == Configure(a) /\ UNCHANGED fireboltVars

FireboltDelete(a) == (Delete(a) \/ Unregister(a) \/ DestructorEnds(a)) /\ UNCHANGED fireboltVars

--------------------------------------------------------------------------------
(* The SDK's pool, and the engine. *)

FireboltDispatch(h) == Dispatch(h) /\ UNCHANGED fireboltVars

FireboltSpeechEvent(h, k, s) ==
  subscribed[k] = "accepted" /\ SpeechEvent(h, k, s) /\ UNCHANGED fireboltVars
FireboltStateEvent(h, k) ==
  subscribed["ttsstatechange"] = "accepted" /\ StateEvent(h, k) /\ UNCHANGED fireboltVars

\* The steps of a call that has begun.
FireboltGoesOn(a) ==
  \/ FireboltInitSkip(a) \/ FireboltConnect(a) \/ FireboltConnectFails(a)
  \/ FireboltConnected(a) \/ FireboltTimeout(a) \/ FireboltSubscribe(a)
  \/ FireboltCall(a) \/ FireboltConstructed(a) \/ FireboltQueryReturns(a)
  \/ FireboltSpeakReset(a) \/ FireboltSpeakReturns(a)

FireboltCalls(a) ==
  \/ FireboltIsTTSEnabled(a) \/ FireboltCreateSession(a) \/ FireboltDestroySession(a)
  \/ \E c \in ClientIds :
       FireboltSpeak(a, c) \/ FireboltPause(a, c) \/ FireboltResume(a, c) \/ FireboltGetSpeechState(a, c)
  \/ FireboltAbort(a) \/ FireboltIsSpeaking(a) \/ FireboltConfigure(a) \/ FireboltDelete(a)

FireboltEngine ==
  \/ \E h \in Pool, k \in SpeechKinds, s \in ServiceIds : FireboltSpeechEvent(h, k, s)
  \/ \E h \in Pool, k \in StateKinds : FireboltStateEvent(h, k)
  \/ \E connected \in BOOLEAN : ConnectionChanged(connected)
================================================================================
