------------------------------- MODULE ComService -------------------------------
(***************************************************************************)
(* The COM-RPC backend: TextToSpeechServiceCOMRPC with its clients         *)
(* TTSClientPrivateCOMRPC (module BackendClient).  Every API function      *)
(* calls initialize() first, so any thread may be the one that connects;   *)
(* three attempts are all there are.  The notifications go through one     *)
(* worker (module ComWorker, which shows that it keeps their order), so    *)
(* that one handler thread takes them in the order they were sent.  The    *)
(* end of the process (uninitialize) is in ComWorker.                      *)
(***************************************************************************)
EXTENDS BackendClient

CONSTANT Worker  \* the handler thread of this backend

ASSUME WorkerAssumption == Worker \in Handlers

VARIABLES
  attempts,    \* m_pendingInitAttempts, a uint8_t
  remote,      \* m_remoteObject: 0 for null, else the number of the object
  flag,        \* m_registeredSpeechEventHandlers
  registered,  \* external: whether the plugin was asked to register the
               \* notification, and ever did so
  opened       \* history: how often Open() was called

comVars == <<attempts, remote, flag, registered, opened>>

InitAttempts == 3
Registrations == {"unasked", "refused", "accepted"}

ComTypeOK ==
  /\ attempts \in 0..255 /\ remote \in Nat /\ opened \in Nat
  /\ flag \in BOOLEAN /\ registered \in Registrations

ComInit ==
  /\ attempts = InitAttempts /\ remote = 0 /\ flag = FALSE
  /\ registered = "unasked" /\ opened = 0

--------------------------------------------------------------------------------
(* initialize() *)

\* initialized(), or no attempts left.
ComInitSkip(a) ==
  /\ MutexFree /\ (active \/ attempts = 0)
  /\ InitSkip(a) /\ UNCHANGED comVars

\* Mutant of ComInitBegin: the attempts are not tested.
ComInitBeginUnchecked(a) ==
  /\ ~active
  /\ attempts' = (attempts + 255) % 256 /\ opened' = opened + 1
  /\ InitBegin(a) /\ UNCHANGED <<remote, flag, registered>>

\* Mutant of ComInitBegin: the counter goes below zero.
ComInitBeginSigned(a) ==
  /\ ~active
  /\ attempts' = attempts - 1 /\ opened' = opened + 1
  /\ InitBegin(a) /\ UNCHANGED <<remote, flag, registered>>

\* An attempt is used, and Open() called.
ComInitBegin(a) ==
  /\ ~active /\ attempts > 0
  /\ attempts' = (attempts + 255) % 256 /\ opened' = opened + 1
  /\ InitBegin(a) /\ UNCHANGED <<remote, flag, registered>>

\* Mutant of ComOpenFails: what Open() returns is not tested.
ComOpenFailsUnchecked(a) ==
  /\ pc[a] = "open" /\ InitStep(a, "linked") /\ UNCHANGED active
  /\ UNCHANGED comVars

ComOpenFails(a) ==
  /\ pc[a] = "open" /\ InitEnd(a, FALSE)
  /\ UNCHANGED comVars

\* m_remoteObject = ...
ComOpenSucceeds(a) ==
  /\ pc[a] = "open" /\ remote' = opened
  /\ InitStep(a, "linked") /\ UNCHANGED active
  /\ UNCHANGED <<attempts, flag, registered, opened>>

\* m_initialized = true
ComInitialized(a) ==
  /\ pc[a] = "linked" /\ InitStep(a, "opened") /\ active'
  /\ UNCHANGED comVars

\* onTTSStateChange(false) to every client; m_mutex is released.
ComNotify(a) ==
  /\ pc[a] = "notify" /\ InitEnd(a, TRUE)
  /\ UNCHANGED comVars

--------------------------------------------------------------------------------
(* registerSpeechEventHandlers(), by the thread that connects, under        *)
(* m_mutex, and by every thread in speak(), without it.                     *)

\* Where it returns to.
Registered(a) ==
  IF mutex = a THEN InitStep(a, "notify") /\ UNCHANGED active ELSE SpeakReset(a)

\* if(!m_registeredSpeechEventHandlers && m_remoteObject)
ComRegCheck(a) ==
  /\ pc[a] \in {"opened", "speak"}
  /\ IF ~flag /\ remote # 0 THEN InitStep(a, "regSet") /\ UNCHANGED active ELSE Registered(a)
  /\ UNCHANGED comVars

ComRegSet(a) ==
  /\ pc[a] = "regSet" /\ flag' = TRUE
  /\ InitStep(a, "regCall") /\ UNCHANGED active
  /\ UNCHANGED <<attempts, remote, registered, opened>>

\* RegisterWithCallsign(), whose result nobody looks at.  The callsign is the
\* client's, or the service's m_callsign if a configuration call connects, which
\* is empty then: the plugin may take either or refuse it.
ComRegCall(a) ==
  /\ pc[a] = "regCall"
  /\ registered' \in {"accepted", IF registered = "accepted" THEN "accepted" ELSE "refused"}
  /\ Registered(a)
  /\ UNCHANGED <<attempts, remote, flag, opened>>

--------------------------------------------------------------------------------
(* The client's calls. *)

ComCreate(a) == Create(a) /\ UNCHANGED comVars
ComConstructed(a) == Register(a) /\ UNCHANGED comVars

ComIsTTSEnabled(a) == Query(a, "query") /\ UNCHANGED comVars
ComCreateSession(a) == Query(a, "session") /\ UNCHANGED comVars
ComQueryReturns(a) == QueryReturns(a) /\ UNCHANGED comVars
ComDestroySession(a) == DestroySession(a) /\ UNCHANGED comVars

ComSpeak(a, c) == SpeakEnter(a, c) /\ UNCHANGED comVars
ComSpeakReturns(a) ==
  (SpeakFails(a) \/ SpeakAccepted(a) \/ SpeakAssign(a) \/ SpeakAdd(a)) /\ UNCHANGED comVars

ComPauseOrResume(a, c) ==
  enabled[a] /\ Named(a, "named", c, GetServiceId(table[a], c)) /\ UNCHANGED comVars
ComGetSpeechState(a, c) == Named(a, "named", c, GetServiceId(table[a], c)) /\ UNCHANGED comVars
ComAbort(a) == Abort(a) /\ UNCHANGED comVars
ComIsSpeaking(a) == IsSpeaking(a) /\ UNCHANGED comVars

\* enableTTS(), setTTSConfiguration(), getTTSConfiguration()
ComConfigure(a) == Configure(a) /\ UNCHANGED comVars

ComDelete(a) == (Delete(a) \/ Unregister(a) \/ DestructorEnds(a)) /\ UNCHANGED comVars

--------------------------------------------------------------------------------
(* The worker, and the plugin. *)

ComDispatch == Dispatch(Worker) /\ UNCHANGED comVars

\* The plugin notifies whom it has registered.
Listening == registered = "accepted"

ComSpeechEvent(k, s) == Listening /\ SpeechEvent(Worker, k, s) /\ UNCHANGED comVars
ComStateEvent(k) == Listening /\ StateEvent(Worker, k) /\ UNCHANGED comVars

\* The steps of a call that has begun.
ComGoesOn(a) ==
  \/ ComInitSkip(a) \/ ComInitBegin(a) \/ ComOpenFails(a) \/ ComOpenSucceeds(a) \/ ComInitialized(a)
  \/ ComNotify(a)
  \/ ComRegCheck(a) \/ ComRegSet(a) \/ ComRegCall(a)
  \/ ComConstructed(a) \/ ComQueryReturns(a) \/ ComSpeakReturns(a)

ComCalls(a) ==
  \/ ComIsTTSEnabled(a) \/ ComCreateSession(a) \/ ComDestroySession(a)
  \/ \E c \in ClientIds : ComSpeak(a, c) \/ ComPauseOrResume(a, c) \/ ComGetSpeechState(a, c)
  \/ ComAbort(a) \/ ComIsSpeaking(a) \/ ComConfigure(a) \/ ComDelete(a)

ComEngine ==
  \/ \E k \in SpeechKinds, s \in ServiceIds : ComSpeechEvent(k, s)
  \/ \E k \in StateKinds : ComStateEvent(k)

--------------------------------------------------------------------------------
(* Properties. *)

\* initialize() and uint8_t m_pendingInitAttempts: Open() is called three
\* times at most in the life of the process, whoever calls, and never again
\* once it has succeeded, so that the remote object stays the one and only.
OpenedAtMostThrice ==
  /\ opened + attempts = InitAttempts
  /\ remote # 0 => remote = opened
================================================================================
