---------------------------- MODULE TTSClient_proofs ----------------------------
(***************************************************************************)
(* Both backends do nothing to their clients but what ClientsSpec allows,  *)
(* whoever connects and whatever fails, so that the theorems about         *)
(* ClientsSpec hold of them; and what keeps the connection of each         *)
(* consistent, for any number of clients and threads.                      *)
(***************************************************************************)
EXTENDS TTSClient, BackendClient_proofs

USE DEF comVars, fireboltVars, baseVars, serviceVars, clientVars, appVars, handlerVars, engineVars

--------------------------------------------------------------------------------
(* The backends implement ClientsSpec. *)

\* Every step of the COM-RPC backend is one of ClientsNext.
LEMMA ComImplements == ComNext => ClientsNext
<1> USE DEF Inside
<1>1. ASSUME NEW a \in Apps, ComCreate(a) \/ ComGoesOn(a)
      PROVE  AppStep(a)
  <2>1. CASE ComCreate(a) \/ ComInitSkip(a) \/ ComInitBegin(a) \/ ComConstructed(a) \/ ComQueryReturns(a) \/ ComSpeakReturns(a)
    BY <2>1 DEF AppStep, ComCreate, ComInitSkip, ComInitBegin, ComConstructed, ComQueryReturns, ComSpeakReturns
  <2>2. CASE ComOpenFails(a) \/ ComOpenSucceeds(a) \/ ComInitialized(a) \/ ComNotify(a)
    BY <2>2 DEF AppStep, ComOpenFails, ComOpenSucceeds, ComInitialized, ComNotify
  <2>3. CASE ComRegCheck(a) \/ ComRegSet(a) \/ ComRegCall(a)
    BY <2>3 DEF AppStep, ComRegCheck, ComRegSet, ComRegCall, Registered
  <2>4. QED
    BY <1>1, <2>1, <2>2, <2>3 DEF ComGoesOn
<1>2. ASSUME NEW a \in Apps, ComCalls(a)
      PROVE  AppStep(a)
  <2>1. CASE \/ ComIsTTSEnabled(a) \/ ComCreateSession(a) \/ ComDestroySession(a)
             \/ ComAbort(a) \/ ComIsSpeaking(a) \/ ComConfigure(a) \/ ComDelete(a)
    BY <2>1 DEF AppStep, ComIsTTSEnabled, ComCreateSession, ComDestroySession, ComAbort, ComIsSpeaking, ComConfigure, ComDelete
  <2>2. ASSUME NEW c \in ClientIds, ComSpeak(a, c) \/ ComPauseOrResume(a, c) \/ ComGetSpeechState(a, c)
        PROVE  AppStep(a)
    BY <2>2 DEF AppStep, ComSpeak, ComPauseOrResume, ComGetSpeechState
  <2>3. QED
    BY <1>2, <2>1, <2>2 DEF ComCalls
<1>3. ComDispatch => \E h \in Handlers : Dispatch(h)
  BY WorkerAssumption DEF ComDispatch
<1>4. ComEngine => \/ \E h \in Handlers, k \in SpeechKinds, s \in ServiceIds : SpeechEvent(h, k, s)
                   \/ \E h \in Handlers, k \in StateKinds : StateEvent(h, k)
  BY WorkerAssumption DEF ComEngine, ComSpeechEvent, ComStateEvent
<1>5. QED
  BY <1>1, <1>2, <1>3, <1>4 DEF ComNext, ClientsNext

\* Every step of the Firebolt backend is one of ClientsNext, or the SDK's.
LEMMA FireboltImplements == FireboltNext => ClientsNext \/ UNCHANGED baseVars
<1> USE DEF Inside
<1>1. ASSUME NEW a \in Apps, FireboltCreate(a) \/ FireboltGoesOn(a)
      PROVE  AppStep(a)
  <2>1. CASE FireboltCreate(a) \/ FireboltInitSkip(a) \/ FireboltConnect(a) \/ FireboltConnectFails(a) \/ FireboltCall(a)
    BY <2>1 DEF AppStep, FireboltCreate, FireboltInitSkip, FireboltConnect, FireboltConnectFails, FireboltCall
  <2>2. CASE FireboltConnected(a) \/ FireboltTimeout(a) \/ FireboltSubscribe(a)
    BY <2>2 DEF AppStep, FireboltConnected, FireboltTimeout, FireboltSubscribe
  <2>3. CASE FireboltConstructed(a) \/ FireboltQueryReturns(a) \/ FireboltSpeakReset(a) \/ FireboltSpeakReturns(a)
    BY <2>3 DEF AppStep, FireboltConstructed, FireboltQueryReturns, FireboltSpeakReset, FireboltSpeakReturns
  <2>4. QED
    BY <1>1, <2>1, <2>2, <2>3 DEF FireboltGoesOn
<1>2. ASSUME NEW a \in Apps, FireboltCalls(a)
      PROVE  AppStep(a)
  <2>1. CASE \/ FireboltIsTTSEnabled(a) \/ FireboltCreateSession(a) \/ FireboltDestroySession(a)
             \/ FireboltAbort(a) \/ FireboltIsSpeaking(a) \/ FireboltConfigure(a) \/ FireboltDelete(a)
    BY <2>1 DEF AppStep, FireboltIsTTSEnabled, FireboltCreateSession, FireboltDestroySession,
                FireboltAbort, FireboltIsSpeaking, FireboltConfigure, FireboltDelete
  <2>2. ASSUME NEW c \in ClientIds,
               FireboltSpeak(a, c) \/ FireboltPause(a, c) \/ FireboltResume(a, c) \/ FireboltGetSpeechState(a, c)
        PROVE  AppStep(a)
    BY <2>2 DEF AppStep, FireboltSpeak, FireboltPause, FireboltResume, FireboltGetSpeechState
  <2>3. QED
    BY <1>2, <2>1, <2>2 DEF FireboltCalls
<1>3. ASSUME NEW h \in Pool, FireboltDispatch(h)
      PROVE  \E g \in Handlers : Dispatch(g)
  BY <1>3, PoolAssumption DEF FireboltDispatch
<1>4. FireboltEngine => \/ \E h \in Handlers, k \in SpeechKinds, s \in ServiceIds : SpeechEvent(h, k, s)
                        \/ \E h \in Handlers, k \in StateKinds : StateEvent(h, k)
                        \/ UNCHANGED baseVars
  BY PoolAssumption DEF FireboltEngine, FireboltSpeechEvent, FireboltStateEvent, ConnectionChanged
<1>5. QED
  BY <1>1, <1>2, <1>3, <1>4 DEF FireboltNext, ClientsNext

LEMMA StepImplements == [Next]_vars => [ClientsNext]_baseVars
  BY ComImplements, FireboltImplements DEF Next, AllDeleted, vars

\* Whichever backend the process gets, its clients behave as ClientsSpec says.
THEOREM BackendsImplementClients == Spec => ClientsSpec
<1>1. Init => ClientsInit
  BY DEF Init
<1>2. QED
  BY <1>1, StepImplements, PTL DEF Spec, ClientsSpec

LEMMA SpecIndInv == Spec => []IndInv
  BY BackendsImplementClients, ClientsIndInv, PTL

--------------------------------------------------------------------------------
(* The connections. *)

LEMMA ServicesInvInit == Init => ServicesInv
<1> SUFFICES ASSUME Init
             PROVE  ServicesInv
  OBVIOUS
<1>1. backend \in {"COM", "FIREBOLT"} /\ ComInit /\ FireboltInit
  BY DEF Init
<1>2. active = FALSE /\ \A a \in Apps : pc[a] = "out" /\ op[a] = "none"
  BY DEF Init, ClientsInit
<1>3. ComTypeOK /\ FireboltTypeOK
  <2>1. ComTypeOK
    <3>1. attempts = 3 /\ remote = 0 /\ opened = 0
      BY <1>1 DEF ComInit, InitAttempts
    <3>2. flag = FALSE /\ registered = "unasked"
      BY <1>1 DEF ComInit
    <3>3. attempts \in 0..255 /\ remote \in Nat /\ opened \in Nat
      BY <3>1
    <3>4. flag \in BOOLEAN
      BY <3>2
    <3>5. registered \in Registrations
      BY <3>2 DEF Registrations
    <3>6. QED
      BY <3>3, <3>4, <3>5 DEF ComTypeOK
  <2>2. FireboltTypeOK
    BY <1>1 DEF FireboltInit, FireboltTypeOK
  <2>3. QED
    BY <2>1, <2>2
<1>4. LinkingHolds /\ RequestsAreActive
  BY <1>2 DEF LinkingHolds, RequestsAreActive, Linking, Inside
<1>5. ComLinks /\ FireboltLinks
  <2>1. ComLinks
    <3>1. attempts = 3 /\ remote = 0 /\ opened = 0
      BY <1>1 DEF ComInit, InitAttempts
    <3>2. flag = FALSE
      BY <1>1 DEF ComInit
    <3>3. QED
      BY <1>2, <3>1, <3>2 DEF ComLinks, InitAttempts
  <2>2. FireboltLinks
    BY <1>1, <1>2 DEF ComInit, FireboltInit, FireboltLinks, InitAttempts
  <2>3. QED
    BY <2>1, <2>2
<1>6. QED
  BY <1>1, <1>3, <1>4, <1>5 DEF ServicesInv

\* The thread of a step goes to p in call o; no other thread moves.
Moves(a, o, p) == pc' = [pc EXCEPT ![a] = p] /\ op' = [op EXCEPT ![a] = o]

LEMMA Moved ==
  ASSUME ClientsTypeOK, NEW a \in Apps, NEW o, NEW p, Moves(a, o, p)
  PROVE  /\ pc'[a] = p /\ op'[a] = o
         /\ \A b \in Apps : b # a => pc'[b] = pc[b] /\ op'[b] = op[b]
  BY DEF ClientsTypeOK, Moves

LEMMA GotoMoves ==
  ASSUME ClientsTypeOK, NEW a \in Apps, NEW l, Goto(a, l)
  PROVE  Moves(a, op[a], l)
  BY DEF ClientsTypeOK, Moves, Goto

LEMMA GoOnGoes ==
  ASSUME ClientsTypeOK, NEW a \in Apps, GoOn(a)
  PROVE  \E o \in Calls, p \in {"register", "wait", "idle"} :
           Moves(a, o, p) /\ (p = "wait" => active \/ op[a] = "dtor")
<1>1. op[a] \in Calls /\ "none" \in Calls
  BY DEF ClientsTypeOK, Calls
<1>2. CASE op[a] = "construct"
  <2>1. Goto(a, "register")
    BY <1>2 DEF GoOn
  <2>2. QED
    BY <1>1, <2>1, GotoMoves
<1>3. CASE op[a] # "construct" /\ (op[a] = "dtor" \/ (active /\ op[a] \in {"query", "session", "speak"}))
  <2>1. Goto(a, "wait")
    BY <1>3 DEF GoOn
  <2>2. QED
    BY <1>1, <1>3, <2>1, GotoMoves
<1>4. CASE op[a] # "construct" /\ ~(op[a] = "dtor" \/ (active /\ op[a] \in {"query", "session", "speak"}))
  <2>1. Return(a)
    BY <1>4 DEF GoOn
  <2>2. QED
    BY <1>1, <2>1 DEF Return, Begin, Moves
<1>5. QED
  BY <1>2, <1>3, <1>4

\* A thread that does not connect and does not begin to, and leaves the
\* connection alone, disturbs nothing.
LEMMA CallsDoNotConnect ==
  ASSUME ClientsTypeOK, ServicesInv, NEW a \in Apps, NEW o, NEW p, Moves(a, o, p),
         UNCHANGED <<active, mutex, comVars, subscribed, backend>>, FireboltTypeOK',
         pc[a] \notin Linking \cup {"regSet", "regCall"}, p \notin Inside \/ p = "speak",
         p = "wait" \/ (o = "dtor" /\ p \in {"init", "call", "speak"}) => active
  PROVE  ServicesInv'
<1>1. /\ pc'[a] = p /\ op'[a] = o
      /\ \A b \in Apps : b # a => pc'[b] = pc[b] /\ op'[b] = op[b]
  BY Moved
<1>2. LinkingHolds' /\ RequestsAreActive'
  BY <1>1 DEF ServicesInv, LinkingHolds, RequestsAreActive, Linking, Inside
<1>3. \A b \in Apps : pc[b] \in {"open", "linked", "opened", "regSet", "regCall"} => pc'[b] = pc[b]
  BY <1>1 DEF Linking
<1>4. \A b \in Apps : pc'[b] \in {"open", "linked", "opened", "regSet", "regCall"} => pc[b] = pc'[b]
  BY <1>1 DEF Inside
<1>5. ComLinks => ComLinks'
  BY <1>3, <1>4 DEF ComLinks
<1>6. FireboltLinks => FireboltLinks'
  BY <1>3, <1>4 DEF FireboltLinks, Asked
<1>7. ComTypeOK'
  BY DEF ServicesInv, ComTypeOK
<1>8. QED
  BY <1>2, <1>5, <1>6, <1>7 DEF ServicesInv

\* What a table returns for a client id is a natural number.
LEMMA ServiceIdIsNat ==
  ASSUME ClientsTypeOK, NEW a \in Apps, NEW c \in ClientIds
  PROVE  GetServiceId(table[a], c) \in Nat
<1>1. table[a] \in Tables
  BY DEF ClientsTypeOK
<1>2. QED
  BY <1>1, TableType, IdsAreNat DEF GetServiceId

\* The calls of a client, in either backend, and what they wait for.
QuietStep(a) ==
  \/ Create(a) \/ Register(a) \/ QueryReturns(a) \/ DestroySession(a)
  \/ \E o \in {"query", "session"} : Query(a, o)
  \/ \E c \in ClientIds : SpeakEnter(a, c)
  \/ \E c \in ClientIds, o \in {"named", "state"}, s \in Nat : Named(a, o, c, s)
  \/ SpeakFails(a) \/ SpeakAccepted(a) \/ SpeakAssign(a) \/ SpeakAdd(a)
  \/ Abort(a) \/ IsSpeaking(a) \/ Configure(a) \/ Delete(a) \/ Unregister(a) \/ DestructorEnds(a)

LEMMA QuietStepKeeps ==
  ASSUME ClientsTypeOK, ServicesInv, NEW a \in Apps, QuietStep(a), UNCHANGED <<comVars, fireboltVars, backend>>
  PROVE  ServicesInv'
<1> USE DEF Linking, Inside, Checked
<1>0. FireboltTypeOK'
  BY DEF ServicesInv, FireboltTypeOK
<1>1. CASE Create(a) \/ Register(a) \/ QueryReturns(a) \/ SpeakFails(a) \/ SpeakAccepted(a) \/ SpeakAdd(a)
           \/ IsSpeaking(a) \/ Configure(a) \/ Delete(a) \/ DestructorEnds(a)
  <2>1. /\ pc[a] \notin Linking \cup {"regSet", "regCall"} /\ UNCHANGED <<active, mutex>>
        /\ \E o \in {"construct", "none", "speak", "last", "configure"},
              p \in {"init", "idle", "assign", "call", "dead"} : Moves(a, o, p)
           \/ Moves(a, "dtor", "unregister")
    BY <1>1 DEF Create, Register, QueryReturns, SpeakFails, SpeakAccepted, SpeakAdd, IsSpeaking, Configure, Delete,
                DestructorEnds, Return, Begin, Moves
  <2>2. QED
    BY <2>1, <1>0, CallsDoNotConnect
<1>2. CASE DestroySession(a)
  <2>1. pc[a] = "idle" /\ Moves(a, op[a], "idle") /\ UNCHANGED <<active, mutex>>
    BY <1>2 DEF DestroySession, Moves, ClientsTypeOK
  <2>2. QED
    BY <2>1, <1>0, CallsDoNotConnect
<1>3. CASE SpeakAssign(a) \/ Unregister(a)
  <2>1. /\ pc[a] \in {"assign", "unregister"} /\ UNCHANGED <<active, mutex>>
        /\ Goto(a, "add") \/ Goto(a, "dtorAbort")
    BY <1>3 DEF SpeakAssign, Unregister
  <2>2. Moves(a, op[a], "add") \/ Moves(a, op[a], "dtorAbort")
    BY <2>1, GotoMoves
  <2>3. QED
    BY <2>1, <2>2, <1>0, CallsDoNotConnect
<1>4. CASE Abort(a)
  <2>1. /\ pc[a] \in {"idle", "dtorAbort"} /\ active /\ UNCHANGED <<active, mutex>>
        /\ \E o \in {"last", "dtor"} : Moves(a, o, "call")
    BY <1>4 DEF Abort, Begin, Moves
  <2>2. QED
    BY <2>1, <1>0, CallsDoNotConnect
<1>5. ASSUME NEW o \in {"query", "session"}, Query(a, o)
      PROVE  ServicesInv'
  <2>1. pc[a] = "idle" /\ Moves(a, o, "call") /\ UNCHANGED <<active, mutex>>
    BY <1>5 DEF Query, Begin, Moves
  <2>2. QED
    BY <2>1, <1>0, CallsDoNotConnect
<1>6. ASSUME NEW c \in ClientIds, SpeakEnter(a, c)
      PROVE  ServicesInv'
  <2>1. pc[a] = "idle" /\ Moves(a, "speak", "speak") /\ UNCHANGED <<active, mutex>>
    BY <1>6 DEF SpeakEnter, Begin, Moves
  <2>2. QED
    BY <2>1, <1>0, CallsDoNotConnect
<1>7. ASSUME NEW c \in ClientIds, NEW o \in {"named", "state"}, NEW s \in Nat, Named(a, o, c, s)
      PROVE  ServicesInv'
  <2>1. pc[a] = "idle" /\ Moves(a, o, "call") /\ UNCHANGED <<active, mutex>>
    BY <1>7 DEF Named, Begin, Moves
  <2>2. QED
    BY <2>1, <1>0, CallsDoNotConnect
<1>8. QED
  BY <1>1, <1>2, <1>3, <1>4, <1>5, <1>6, <1>7 DEF QuietStep

\* initialize() that does not connect.
LEMMA InitSkipKeeps ==
  ASSUME ClientsTypeOK, ServicesInv, NEW a \in Apps, InitSkip(a), UNCHANGED <<comVars, subscribed, backend>>, FireboltTypeOK'
  PROVE  ServicesInv'
<1>1. pc[a] \in {"init", "call"} /\ GoOn(a) /\ UNCHANGED <<active, mutex>>
  BY DEF InitSkip
<1>2. PICK o \in Calls, p \in {"register", "wait", "idle"} : Moves(a, o, p) /\ (p = "wait" => active \/ op[a] = "dtor")
  BY <1>1, GoOnGoes
<1>3. p = "wait" => active
  BY <1>1, <1>2 DEF ServicesInv, RequestsAreActive
<1>4. QED
  BY <1>1, <1>2, <1>3, CallsDoNotConnect DEF Linking, Inside

\* A handler thread takes m_mutex only when it is free, and moves no caller.
LEMMA HandlersDoNotConnect ==
  ASSUME ServicesInv, NEW h \in Handlers,
         Dispatch(h) \/ (\E e \in Events : Arrive(h, e)), UNCHANGED <<comVars, fireboltVars, backend>>,
         MutexHeld
  PROVE  ServicesInv'
<1>1. UNCHANGED <<active, pc, op>> /\ (mutex' = mutex \/ mutex \in {None, h})
  BY DEF Dispatch, Enter, CallBack, Leave, OnTTSStateChange, OnSpeechInfo, OnSpeechEnd, Arrive, Turn, MutexFree, MutexHeld
<1>2. \A a \in Apps : mutex = a => mutex' = a
  BY <1>1, ThreadsAssumption
<1>3. LinkingHolds' /\ RequestsAreActive'
  BY <1>1, <1>2 DEF ServicesInv, LinkingHolds, RequestsAreActive
<1>4. ComTypeOK' /\ FireboltTypeOK'
  BY DEF ServicesInv, ComTypeOK, FireboltTypeOK
<1>5. (ComLinks => ComLinks') /\ (FireboltLinks => FireboltLinks')
  BY <1>1 DEF ComLinks, FireboltLinks, Asked
<1>6. QED
  BY <1>3, <1>4, <1>5 DEF ServicesInv

\* The thread that connects, or registers the handlers: what has to be shown
\* of its step.
LEMMA LinkMoves ==
  ASSUME ClientsTypeOK, ServicesInv, NEW a \in Apps, NEW o, NEW p, Moves(a, o, p),
         active' \in {active, TRUE},
         mutex' = mutex \/ (mutex \in {a, None} /\ mutex' \in {a, None}),
         p \in Linking => mutex' = a,
         p = "wait" \/ (o = "dtor" /\ p \in {"init", "call"} \cup Inside) => active
  PROVE  LinkingHolds' /\ RequestsAreActive'
<1>1. /\ pc'[a] = p /\ op'[a] = o
      /\ \A b \in Apps : b # a => pc'[b] = pc[b] /\ op'[b] = op[b]
  BY Moved
<1>2. \A b \in Apps : b # a => (mutex = b => mutex' = b)
  BY ThreadsAssumption
<1>3. LinkingHolds'
  BY <1>1, <1>2 DEF ServicesInv, LinkingHolds
<1>4. RequestsAreActive'
  <2>1. active => active'
    OBVIOUS
  <2>2. RequestsAreActive
    BY DEF ServicesInv
  <2>3. ASSUME NEW b \in Apps, pc'[b] = "wait" \/ (op'[b] = "dtor" /\ pc'[b] \in {"init", "call"} \cup Inside)
        PROVE  active
    BY <1>1, <2>2, <2>3 DEF RequestsAreActive
  <2>4. QED
    BY <2>1, <2>3 DEF RequestsAreActive
<1>5. QED
  BY <1>3, <1>4

\* A thread that goes on inside initialize().
LEMMA InsideGoes ==
  ASSUME ClientsTypeOK, ServicesInv, NEW a \in Apps, NEW l, InitStep(a, l)
  PROVE  /\ Moves(a, op[a], l) /\ pc[a] \in Inside /\ l \in Inside
         /\ active' \in {active, TRUE} /\ mutex' = mutex
         /\ op[a] = "dtor" => active
<1>1. Goto(a, l) /\ pc[a] \in Inside /\ l \in Inside /\ active' \in {active, TRUE} /\ mutex' = mutex
  BY DEF InitStep
<1>2. op[a] = "dtor" => active
  <2>1. RequestsAreActive /\ pc[a] \in Inside
    BY <1>1 DEF ServicesInv
  <2>2. QED
    BY <2>1 DEF RequestsAreActive
<1>3. QED
  BY <1>1, <1>2, GotoMoves

\* A thread whose initialize() is over.
LEMMA InitEndGoes ==
  ASSUME ClientsTypeOK, ServicesInv, NEW a \in Apps, NEW notify, InitEnd(a, notify)
  PROVE  /\ mutex = a /\ mutex' = None /\ active' = active
         /\ \E o \in Calls, p \in {"register", "wait", "idle"} : Moves(a, o, p) /\ (p = "wait" => active)
<1>1. mutex = a /\ mutex' = None /\ active' = active /\ GoOn(a) /\ pc[a] \in Inside
  BY DEF InitEnd
<1>2. PICK o \in Calls, p \in {"register", "wait", "idle"} : Moves(a, o, p) /\ (p = "wait" => active \/ op[a] = "dtor")
  BY <1>1, GoOnGoes
<1>3. p = "wait" => active
  <2>1. RequestsAreActive
    BY DEF ServicesInv
  <2>2. op[a] = "dtor" => active
    BY <1>1, <2>1 DEF RequestsAreActive
  <2>3. QED
    BY <1>2, <2>2
<1>4. QED
  BY <1>1, <1>2, <1>3

\* One more attempt, while nobody else is connecting.
LEMMA ComInitBeginKeeps ==
  ASSUME ClientsTypeOK, ServicesInv, backend = "COM", NEW a \in Apps, ComInitBegin(a), UNCHANGED <<backend, fireboltVars>>
  PROVE  ServicesInv'
<1>1. /\ ~active /\ attempts > 0 /\ attempts' = (attempts + 255) % 256 /\ opened' = opened + 1
      /\ UNCHANGED <<active, remote, flag, registered>>
  BY DEF ComInitBegin, InitBegin
<1>2. mutex = None /\ mutex' = a /\ Moves(a, op[a], "open") /\ pc[a] \in {"init", "call"}
  BY GotoMoves DEF ComInitBegin, InitBegin, MutexFree
<1>3. ComTypeOK /\ ComLinks /\ LinkingHolds /\ FireboltTypeOK /\ RequestsAreActive
  BY DEF ServicesInv
<1>4. pc'[a] = "open" /\ \A b \in Apps : b # a => pc'[b] = pc[b]
  BY <1>2, Moved
<1>5. attempts \in 1..3 /\ attempts' = attempts - 1 /\ opened + attempts = 3 /\ opened \in Nat
  <2>1. attempts \in Nat /\ opened \in Nat /\ opened + attempts = 3
    BY <1>3 DEF ComTypeOK, ComLinks, InitAttempts
  <2>2. attempts = 1 \/ attempts = 2 \/ attempts = 3
    BY <1>1, <2>1
  <2>3. QED
    BY <1>1, <2>1, <2>2
<1>6. \A b \in Apps : pc[b] \notin Linking
  BY <1>2, <1>3, ThreadsAssumption DEF LinkingHolds
<1>7. remote = 0
  BY <1>1, <1>3, <1>6 DEF ComLinks, Linking
<1>8. LinkingHolds' /\ RequestsAreActive'
  <2>1. op[a] = "dtor" => active
    BY <1>2, <1>3 DEF RequestsAreActive
  <2>2. QED
    BY <1>1, <1>2, <2>1, LinkMoves DEF Linking
<1>9. ComTypeOK'
  BY <1>1, <1>3, <1>5 DEF ComTypeOK
<1>10. ComLinks'
  <2>1. flag /\ registered = "unasked" => \E b \in Apps : pc'[b] = "regCall"
    <3>1. ASSUME flag, registered = "unasked"
          PROVE  \E b \in Apps : pc[b] = "regCall"
      BY <1>3, <3>1 DEF ComLinks
    <3>2. QED
      BY <1>2, <1>4, <3>1
  <2>2. \A b \in Apps : pc'[b] # "linked"
    BY <1>4, <1>6 DEF Linking
  <2>3. opened' + attempts' = InitAttempts /\ opened' > 0
    BY <1>1, <1>5 DEF InitAttempts
  <2>4. QED
    BY <1>1, <1>7, <2>1, <2>2, <2>3 DEF ComLinks
<1>11. FireboltTypeOK'
  BY <1>3 DEF FireboltTypeOK
<1>12. QED
  BY <1>8, <1>9, <1>10, <1>11 DEF ServicesInv

\* Open() fails, or the notification of the clients ends initialize().
LEMMA ComInitEndKeeps ==
  ASSUME ClientsTypeOK, ServicesInv, backend = "COM", NEW a \in Apps, ComOpenFails(a) \/ ComNotify(a),
         UNCHANGED <<backend, fireboltVars>>
  PROVE  ServicesInv'
<1>1. pc[a] \in {"open", "notify"} /\ UNCHANGED comVars /\ \E notify \in BOOLEAN : InitEnd(a, notify)
  BY DEF ComOpenFails, ComNotify
<1>2. mutex = a /\ mutex' = None /\ active' = active
  BY <1>1, InitEndGoes
<1>3. PICK o \in Calls, p \in {"register", "wait", "idle"} : Moves(a, o, p) /\ (p = "wait" => active)
  BY <1>1, InitEndGoes
<1>4. pc'[a] = p /\ \A b \in Apps : b # a => pc'[b] = pc[b]
  BY <1>3, Moved
<1>5. ComTypeOK /\ ComLinks /\ FireboltTypeOK
  BY DEF ServicesInv
<1>6. LinkingHolds' /\ RequestsAreActive'
  BY <1>2, <1>3, LinkMoves DEF Linking, Inside
<1>7. ComTypeOK' /\ FireboltTypeOK'
  BY <1>1, <1>5 DEF ComTypeOK, FireboltTypeOK
<1>8. /\ \A b \in Apps : pc[b] \in {"linked", "opened", "regSet", "regCall"} => pc'[b] = pc[b]
      /\ \A b \in Apps : pc'[b] \in {"open", "linked"} => pc[b] = pc'[b]
  BY <1>1, <1>4
<1>9. ComLinks'
  BY <1>1, <1>2, <1>5, <1>8 DEF ComLinks
<1>10. QED
  BY <1>6, <1>7, <1>9 DEF ServicesInv

\* Open() succeeds, and the object is not null.
LEMMA ComOpenSucceedsKeeps ==
  ASSUME ClientsTypeOK, ServicesInv, backend = "COM", NEW a \in Apps, ComOpenSucceeds(a), UNCHANGED <<backend, fireboltVars>>
  PROVE  ServicesInv'
<1>1. /\ pc[a] = "open" /\ remote' = opened /\ InitStep(a, "linked")
      /\ UNCHANGED <<active, attempts, flag, registered, opened>>
  BY DEF ComOpenSucceeds
<1>2. Moves(a, op[a], "linked") /\ mutex' = mutex /\ (op[a] = "dtor" => active)
  BY <1>1, InsideGoes
<1>3. ComTypeOK /\ ComLinks /\ LinkingHolds /\ FireboltTypeOK
  BY DEF ServicesInv
<1>4. pc'[a] = "linked" /\ \A b \in Apps : b # a => pc'[b] = pc[b]
  BY <1>2, Moved
<1>5. mutex = a
  BY <1>1, <1>3 DEF LinkingHolds, Linking
<1>6. LinkingHolds' /\ RequestsAreActive'
  BY <1>1, <1>2, <1>5, LinkMoves
<1>7. ComTypeOK' /\ FireboltTypeOK'
  BY <1>1, <1>3 DEF ComTypeOK, FireboltTypeOK
<1>8. remote' # 0 /\ remote' = opened'
  BY <1>1, <1>3 DEF ComLinks
<1>9. \A b \in Apps : pc[b] \in {"opened", "regSet", "regCall"} => pc'[b] = pc[b]
  BY <1>1, <1>4
<1>10. \A b \in Apps : pc'[b] = "open" => pc[b] = "open"
  BY <1>4
<1>11. ComLinks'
  BY <1>1, <1>3, <1>4, <1>8, <1>9, <1>10 DEF ComLinks
<1>12. QED
  BY <1>6, <1>7, <1>11 DEF ServicesInv

\* m_initialized = true, when the object is there and nobody is registered.
LEMMA ComInitializedKeeps ==
  ASSUME ClientsTypeOK, ServicesInv, backend = "COM", NEW a \in Apps, ComInitialized(a), UNCHANGED <<backend, fireboltVars>>
  PROVE  ServicesInv'
<1>1. pc[a] = "linked" /\ active' /\ InitStep(a, "opened") /\ UNCHANGED comVars
  BY DEF ComInitialized
<1>2. Moves(a, op[a], "opened") /\ mutex' = mutex /\ (op[a] = "dtor" => active) /\ active' \in {active, TRUE}
  BY <1>1, InsideGoes
<1>3. ComTypeOK /\ ComLinks /\ LinkingHolds /\ FireboltTypeOK
  BY DEF ServicesInv
<1>4. pc'[a] = "opened" /\ \A b \in Apps : b # a => pc'[b] = pc[b]
  BY <1>2, Moved
<1>5. mutex = a /\ remote # 0
  BY <1>1, <1>3 DEF LinkingHolds, Linking, ComLinks
<1>6. LinkingHolds' /\ RequestsAreActive'
  BY <1>1, <1>2, <1>5, LinkMoves
<1>7. ComTypeOK' /\ FireboltTypeOK'
  BY <1>1, <1>3 DEF ComTypeOK, FireboltTypeOK
<1>8. \A b \in Apps : pc[b] = "regCall" => pc'[b] = pc[b]
  BY <1>1, <1>4
<1>9. \A b \in Apps : pc'[b] \in {"open", "linked"} => pc'[b] = pc[b]
  BY <1>4
<1>10. ComLinks'
  BY <1>1, <1>3, <1>4, <1>5, <1>8, <1>9 DEF ComLinks
<1>11. QED
  BY <1>6, <1>7, <1>10 DEF ServicesInv

\* registerSpeechEventHandlers() finds nothing to do, or is done: the thread
\* that connects goes on to the notification, the one in speak() leaves.
LEMMA RegisteredGoes ==
  ASSUME ClientsTypeOK, ServicesInv, NEW a \in Apps, Registered(a)
  PROVE  /\ UNCHANGED <<active, mutex>> /\ LinkingHolds' /\ RequestsAreActive'
         /\ pc'[a] \in {"notify", "call"} /\ \A b \in Apps : b # a => pc'[b] = pc[b]
<1>1. CASE mutex = a
  <2>1. InitStep(a, "notify") /\ active' = active
    BY <1>1 DEF Registered
  <2>2. Moves(a, op[a], "notify") /\ mutex' = mutex /\ (op[a] = "dtor" => active)
    BY <2>1, InsideGoes
  <2>3. LinkingHolds' /\ RequestsAreActive'
    BY <1>1, <2>1, <2>2, LinkMoves
  <2>4. QED
    BY <2>1, <2>2, <2>3, Moved
<1>2. CASE mutex # a
  <2>1. SpeakReset(a)
    BY <1>2 DEF Registered
  <2>2. op[a] = "speak" /\ Goto(a, "call") /\ UNCHANGED <<active, mutex>>
    BY <2>1 DEF SpeakReset
  <2>3. Moves(a, op[a], "call")
    BY <2>2, GotoMoves
  <2>4. "call" \notin Linking
    BY DEF Linking
  <2>5. LinkingHolds' /\ RequestsAreActive'
    BY <2>2, <2>3, <2>4, LinkMoves
  <2>6. QED
    BY <2>2, <2>3, <2>5, Moved
<1>3. QED
  BY <1>1, <1>2

\* if(!m_registeredSpeechEventHandlers && m_remoteObject), and the flag set.
LEMMA ComRegCheckKeeps ==
  ASSUME ClientsTypeOK, ServicesInv, backend = "COM", NEW a \in Apps, ComRegCheck(a) \/ ComRegSet(a),
         UNCHANGED <<backend, fireboltVars>>
  PROVE  ServicesInv'
<1>0. ComTypeOK /\ ComLinks /\ LinkingHolds /\ FireboltTypeOK
  BY DEF ServicesInv
<1>1. CASE ComRegCheck(a) /\ ~flag /\ remote # 0
  <2>1. pc[a] \in {"opened", "speak"} /\ InitStep(a, "regSet") /\ active' = active /\ UNCHANGED comVars
    BY <1>1 DEF ComRegCheck
  <2>2. Moves(a, op[a], "regSet") /\ mutex' = mutex /\ (op[a] = "dtor" => active)
    BY <2>1, InsideGoes
  <2>3. pc'[a] = "regSet" /\ \A b \in Apps : b # a => pc'[b] = pc[b]
    BY <2>2, Moved
  <2>4. LinkingHolds' /\ RequestsAreActive'
    BY <2>1, <2>2, LinkMoves DEF Linking
  <2>5. ComTypeOK' /\ FireboltTypeOK'
    BY <1>0, <2>1 DEF ComTypeOK, FireboltTypeOK
  <2>6. /\ \A b \in Apps : pc[b] \in {"linked", "regCall"} => pc'[b] = pc[b]
        /\ \A b \in Apps : pc'[b] \in {"open", "linked"} => pc'[b] = pc[b]
    BY <2>1, <2>3
  <2>7. ComLinks'
    BY <1>0, <2>1, <2>3, <2>6 DEF ComLinks
  <2>8. QED
    BY <2>4, <2>5, <2>7 DEF ServicesInv
<1>2. CASE ComRegCheck(a) /\ ~(~flag /\ remote # 0)
  <2>1. pc[a] \in {"opened", "speak"} /\ Registered(a) /\ UNCHANGED comVars
    BY <1>2 DEF ComRegCheck
  <2>2. /\ UNCHANGED <<active, mutex>> /\ LinkingHolds' /\ RequestsAreActive'
        /\ pc'[a] \in {"notify", "call"} /\ \A b \in Apps : b # a => pc'[b] = pc[b]
    BY <2>1, RegisteredGoes
  <2>3. ComTypeOK' /\ FireboltTypeOK'
    BY <1>0, <2>1 DEF ComTypeOK, FireboltTypeOK
  <2>4. /\ \A b \in Apps : pc[b] \in {"linked", "regCall"} => pc'[b] = pc[b]
        /\ \A b \in Apps : pc'[b] \in {"open", "linked"} => pc'[b] = pc[b]
    BY <2>1, <2>2
  <2>5. active' /\ ~flag' => FALSE
    BY <1>0, <1>2, <2>1, <2>2 DEF ComLinks
  <2>6. ComLinks'
    BY <1>0, <2>1, <2>2, <2>4, <2>5 DEF ComLinks
  <2>7. QED
    BY <2>2, <2>3, <2>6 DEF ServicesInv
<1>3. CASE ComRegSet(a)
  <2>1. /\ pc[a] = "regSet" /\ InitStep(a, "regCall") /\ active' = active /\ flag' = TRUE
        /\ UNCHANGED <<attempts, remote, registered, opened>>
    BY <1>3 DEF ComRegSet
  <2>2. Moves(a, op[a], "regCall") /\ mutex' = mutex /\ (op[a] = "dtor" => active)
    BY <2>1, InsideGoes
  <2>3. pc'[a] = "regCall" /\ \A b \in Apps : b # a => pc'[b] = pc[b]
    BY <2>2, Moved
  <2>4. LinkingHolds' /\ RequestsAreActive'
    BY <2>1, <2>2, LinkMoves DEF Linking
  <2>5. ComTypeOK' /\ FireboltTypeOK'
    BY <1>0, <2>1 DEF ComTypeOK, FireboltTypeOK
  <2>6. /\ \A b \in Apps : pc[b] = "linked" => pc'[b] = pc[b]
        /\ \A b \in Apps : pc'[b] \in {"open", "linked"} => pc'[b] = pc[b]
    BY <2>1, <2>3
  <2>7. ComLinks'
    BY <1>0, <2>1, <2>3, <2>6 DEF ComLinks
  <2>8. QED
    BY <2>4, <2>5, <2>7 DEF ServicesInv
<1>4. QED
  BY <1>1, <1>2, <1>3

\* The notification is registered.
LEMMA ComRegCallKeeps ==
  ASSUME ClientsTypeOK, ServicesInv, backend = "COM", NEW a \in Apps, ComRegCall(a), UNCHANGED <<backend, fireboltVars>>
  PROVE  ServicesInv'
<1>0. ComTypeOK /\ ComLinks /\ LinkingHolds /\ FireboltTypeOK
  BY DEF ServicesInv
<1>1. /\ pc[a] = "regCall" /\ Registered(a)
      /\ registered' \in {"accepted", "refused"}
      /\ UNCHANGED <<attempts, remote, flag, opened>>
  BY DEF ComRegCall
<1>2. /\ UNCHANGED <<active, mutex>> /\ LinkingHolds' /\ RequestsAreActive'
      /\ pc'[a] \in {"notify", "call"} /\ \A b \in Apps : b # a => pc'[b] = pc[b]
  BY <1>1, RegisteredGoes
<1>3. ComTypeOK' /\ FireboltTypeOK'
  BY <1>0, <1>1 DEF ComTypeOK, Registrations, FireboltTypeOK
<1>4. registered' # "unasked"
  BY <1>1
<1>5. /\ \A b \in Apps : pc[b] \in {"linked", "opened", "regSet"} => pc'[b] = pc[b]
      /\ \A b \in Apps : pc'[b] \in {"open", "linked"} => pc'[b] = pc[b]
  BY <1>1, <1>2
<1>6. ComLinks'
  BY <1>0, <1>1, <1>2, <1>4, <1>5 DEF ComLinks
<1>7. QED
  BY <1>2, <1>3, <1>6 DEF ServicesInv

\* A step of the COM-RPC backend.
LEMMA ComKeeps ==
  ASSUME IndInv, ServicesInv, backend = "COM", ComNext, UNCHANGED <<backend, fireboltVars>>
  PROVE  ServicesInv'
<1>0. ClientsTypeOK /\ MutexHeld
  BY DEF IndInv
<1>1. FireboltTypeOK'
  BY DEF ServicesInv, FireboltTypeOK
<1>2. ASSUME NEW a \in Apps, ComCreate(a) \/ ComGoesOn(a)
      PROVE  ServicesInv'
  <2>1. CASE ComCreate(a) \/ ComConstructed(a) \/ ComQueryReturns(a) \/ ComSpeakReturns(a)
    <3>1. QuietStep(a) /\ UNCHANGED comVars
      BY <2>1 DEF QuietStep, ComCreate, ComConstructed, ComQueryReturns, ComSpeakReturns
    <3>2. QED
      BY <1>0, <3>1, QuietStepKeeps
  <2>2. CASE ComInitSkip(a)
    BY <1>0, <1>1, <2>2, InitSkipKeeps DEF ComInitSkip
  <2>3. CASE ComInitBegin(a)
    BY <1>0, <2>3, ComInitBeginKeeps
  <2>4. CASE ComOpenFails(a) \/ ComNotify(a)
    BY <1>0, <2>4, ComInitEndKeeps
  <2>5. CASE ComOpenSucceeds(a)
    BY <1>0, <2>5, ComOpenSucceedsKeeps
  <2>6. CASE ComInitialized(a)
    BY <1>0, <2>6, ComInitializedKeeps
  <2>7. CASE ComRegCheck(a) \/ ComRegSet(a)
    BY <1>0, <2>7, ComRegCheckKeeps
  <2>8. CASE ComRegCall(a)
    BY <1>0, <2>8, ComRegCallKeeps
  <2>9. QED
    BY <1>2, <2>1, <2>2, <2>3, <2>4, <2>5, <2>6, <2>7, <2>8 DEF ComGoesOn
<1>3. ASSUME NEW a \in Apps, ComCalls(a)
      PROVE  ServicesInv'
  <2>1. ASSUME NEW c \in ClientIds, ComPauseOrResume(a, c) \/ ComGetSpeechState(a, c)
        PROVE  QuietStep(a) /\ UNCHANGED comVars
    <3>1. Named(a, "named", c, GetServiceId(table[a], c)) /\ UNCHANGED comVars
      BY <2>1 DEF ComPauseOrResume, ComGetSpeechState
    <3>2. GetServiceId(table[a], c) \in Nat
      BY <1>0, ServiceIdIsNat
    <3>3. QED
      BY <3>1, <3>2 DEF QuietStep
  <2>2. QuietStep(a) /\ UNCHANGED comVars
    BY <1>3, <2>1 DEF QuietStep, ComCalls, ComIsTTSEnabled, ComCreateSession, ComDestroySession, ComSpeak,
                      ComAbort, ComIsSpeaking, ComConfigure, ComDelete
  <2>3. QED
    BY <1>0, <2>2, QuietStepKeeps
<1>4. CASE ComDispatch \/ ComEngine
  <2>1. (Dispatch(Worker) \/ \E e \in Events : Arrive(Worker, e)) /\ UNCHANGED comVars
    BY <1>4, EventsArrive DEF ComDispatch, ComEngine, ComSpeechEvent, ComStateEvent, SpeechEvent, StateEvent
  <2>2. QED
    BY <1>0, <2>1, WorkerAssumption, HandlersDoNotConnect
<1>5. QED
  BY <1>2, <1>3, <1>4 DEF ComNext

\* A step of the Firebolt backend inside initialize(), or of speak() before
\* the request.
LEMMA FireboltInitializeKeeps ==
  ASSUME ClientsTypeOK, ServicesInv, backend = "FIREBOLT", NEW a \in Apps, UNCHANGED <<backend, comVars>>,
         \/ FireboltConnect(a) \/ FireboltConnected(a) \/ FireboltTimeout(a) \/ FireboltSubscribe(a)
         \/ FireboltSpeakReset(a)
  PROVE  ServicesInv'
<1>0. ComTypeOK /\ FireboltTypeOK /\ FireboltLinks /\ LinkingHolds /\ RequestsAreActive
  BY DEF ServicesInv
<1>1. ComTypeOK'
  BY <1>0 DEF ComTypeOK
<1>2. CASE FireboltConnect(a)
  <2>1. /\ pc[a] = "init" /\ ~active /\ isConnected' = FALSE /\ linking' = TRUE /\ subscribed' = subscribed
        /\ Goto(a, "open") /\ mutex = None /\ mutex' = a /\ active' = active
    BY <1>2 DEF FireboltConnect, InitBegin, MutexFree
  <2>2. Moves(a, op[a], "open") /\ (op[a] = "dtor" => active)
    BY <1>0, <2>1, GotoMoves DEF RequestsAreActive
  <2>3. pc'[a] = "open" /\ \A b \in Apps : b # a => pc'[b] = pc[b]
    BY <2>2, Moved
  <2>4. LinkingHolds' /\ RequestsAreActive'
    BY <2>1, <2>2, LinkMoves
  <2>5. FireboltTypeOK' /\ FireboltLinks'
    BY <1>0, <2>1, <2>3 DEF FireboltTypeOK, FireboltLinks, Asked
  <2>6. QED
    BY <1>1, <2>4, <2>5 DEF ServicesInv
<1>3. CASE FireboltConnected(a)
  <2>1. pc[a] = "open" /\ InitStep(a, "opened") /\ active' /\ UNCHANGED fireboltVars
    BY <1>3 DEF FireboltConnected
  <2>2. Moves(a, op[a], "opened") /\ mutex' = mutex /\ (op[a] = "dtor" => active) /\ active' \in {active, TRUE}
    BY <2>1, InsideGoes
  <2>3. pc'[a] = "opened" /\ \A b \in Apps : b # a => pc'[b] = pc[b]
    BY <2>2, Moved
  <2>4. mutex = a
    BY <1>0, <2>1 DEF LinkingHolds, Linking
  <2>5. LinkingHolds' /\ RequestsAreActive'
    BY <2>1, <2>2, <2>4, LinkMoves
  <2>6. FireboltTypeOK' /\ FireboltLinks'
    BY <1>0, <2>1, <2>3 DEF FireboltTypeOK, FireboltLinks, Asked
  <2>7. QED
    BY <1>1, <2>5, <2>6 DEF ServicesInv
<1>4. CASE FireboltTimeout(a) \/ FireboltSubscribe(a)
  <2>1. /\ InitEnd(a, FALSE) /\ UNCHANGED <<isConnected, linking>>
        /\ \/ pc[a] = "open" /\ subscribed' = subscribed
           \/ pc[a] = "opened" /\ (IF active THEN subscribed' \in [Subscriptions -> Answers]
                                             ELSE UNCHANGED subscribed)
    BY <1>4 DEF FireboltTimeout, FireboltSubscribe
  <2>2. mutex = a /\ mutex' = None /\ active' = active
    BY <2>1, InitEndGoes
  <2>3. PICK o \in Calls, p \in {"register", "wait", "idle"} : Moves(a, o, p) /\ (p = "wait" => active)
    BY <2>1, InitEndGoes
  <2>4. pc'[a] = p /\ \A b \in Apps : b # a => pc'[b] = pc[b]
    BY <2>3, Moved
  <2>5. LinkingHolds' /\ RequestsAreActive'
    BY <2>2, <2>3, LinkMoves DEF Linking, Inside
  <2>6. pc[a] = "opened" => subscribed' \in [Subscriptions -> Answers]
    BY <1>0, <2>1 DEF FireboltLinks, Asked
  <2>7. FireboltTypeOK'
    BY <1>0, <2>1, <2>6 DEF FireboltTypeOK
  <2>8. pc[a] = "opened" => Asked'
    BY <2>6 DEF Asked
  <2>9. FireboltLinks'
    BY <1>0, <2>1, <2>2, <2>4, <2>8 DEF FireboltLinks, Asked
  <2>10. QED
    BY <1>1, <2>5, <2>7, <2>9 DEF ServicesInv
<1>5. CASE FireboltSpeakReset(a)
  <2>1. mutex # a /\ op[a] = "speak" /\ Goto(a, "call") /\ UNCHANGED <<active, mutex, fireboltVars>>
    BY <1>5 DEF FireboltSpeakReset, SpeakReset
  <2>2. Moves(a, op[a], "call")
    BY <2>1, GotoMoves
  <2>3. pc[a] # "opened" /\ pc'[a] = "call" /\ \A b \in Apps : b # a => pc'[b] = pc[b]
    BY <1>0, <2>1, <2>2, Moved DEF LinkingHolds, Linking
  <2>4. "call" \notin Linking
    BY DEF Linking
  <2>5. LinkingHolds' /\ RequestsAreActive'
    BY <2>1, <2>2, <2>4, LinkMoves
  <2>6. FireboltTypeOK' /\ FireboltLinks'
    BY <1>0, <2>1, <2>3 DEF FireboltTypeOK, FireboltLinks, Asked
  <2>7. QED
    BY <1>1, <2>5, <2>6 DEF ServicesInv
<1>6. QED
  BY <1>2, <1>3, <1>4, <1>5

\* A step of the Firebolt backend.
LEMMA FireboltKeeps ==
  ASSUME IndInv, ServicesInv, backend = "FIREBOLT", FireboltNext, UNCHANGED <<backend, comVars>>
  PROVE  ServicesInv'
<1>0. ClientsTypeOK /\ MutexHeld
  BY DEF IndInv
<1>1. FireboltTypeOK
  BY DEF ServicesInv
<1>2. ASSUME NEW a \in Apps, FireboltCreate(a) \/ FireboltGoesOn(a)
      PROVE  ServicesInv'
  <2>1. CASE FireboltCreate(a) \/ FireboltConstructed(a) \/ FireboltQueryReturns(a) \/ FireboltSpeakReturns(a)
    <3>1. QuietStep(a) /\ UNCHANGED fireboltVars
      BY <2>1 DEF QuietStep, FireboltCreate, FireboltConstructed, FireboltQueryReturns, FireboltSpeakReturns
    <3>2. QED
      BY <1>0, <3>1, QuietStepKeeps
  <2>2. CASE FireboltInitSkip(a) \/ FireboltCall(a) \/ FireboltConnectFails(a)
    <3>1. InitSkip(a) /\ subscribed' = subscribed
      BY <2>2 DEF FireboltInitSkip, FireboltCall, FireboltConnectFails
    <3>2. FireboltTypeOK'
      BY <1>1, <2>2 DEF FireboltInitSkip, FireboltCall, FireboltConnectFails, FireboltTypeOK
    <3>3. QED
      BY <1>0, <3>1, <3>2, InitSkipKeeps
  <2>3. CASE \/ FireboltConnect(a) \/ FireboltConnected(a) \/ FireboltTimeout(a) \/ FireboltSubscribe(a)
             \/ FireboltSpeakReset(a)
    BY <1>0, <2>3, FireboltInitializeKeeps
  <2>4. QED
    BY <1>2, <2>1, <2>2, <2>3 DEF FireboltGoesOn
<1>3. ASSUME NEW a \in Apps, FireboltCalls(a)
      PROVE  ServicesInv'
  <2>1. ASSUME NEW c \in ClientIds, FireboltPause(a, c) \/ FireboltResume(a, c) \/ FireboltGetSpeechState(a, c)
        PROVE  QuietStep(a) /\ UNCHANGED fireboltVars
    <3>1. /\ Named(a, "named", c, GetServiceId(table[a], c)) \/ Named(a, "state", c, c)
          /\ UNCHANGED fireboltVars
      BY <2>1 DEF FireboltPause, FireboltResume, FireboltGetSpeechState
    <3>2. GetServiceId(table[a], c) \in Nat /\ c \in Nat
      BY <1>0, ServiceIdIsNat, IdsAreNat
    <3>3. QED
      BY <3>1, <3>2 DEF QuietStep
  <2>2. QuietStep(a) /\ UNCHANGED fireboltVars
    BY <1>3, <2>1 DEF QuietStep, FireboltCalls, FireboltIsTTSEnabled, FireboltCreateSession, FireboltDestroySession,
                      FireboltSpeak, FireboltAbort, FireboltIsSpeaking, FireboltConfigure, FireboltDelete
  <2>3. QED
    BY <1>0, <2>2, QuietStepKeeps
<1>4. ASSUME \/ \E h \in Pool : FireboltDispatch(h)
             \/ \E h \in Pool, k \in SpeechKinds, s \in ServiceIds : FireboltSpeechEvent(h, k, s)
             \/ \E h \in Pool, k \in StateKinds : FireboltStateEvent(h, k)
      PROVE  ServicesInv'
  <2>1. PICK h \in Handlers : (Dispatch(h) \/ \E e \in Events : Arrive(h, e)) /\ UNCHANGED fireboltVars
    BY <1>4, EventsArrive, PoolAssumption
       DEF FireboltDispatch, FireboltSpeechEvent, FireboltStateEvent, SpeechEvent, StateEvent
  <2>2. QED
    BY <1>0, <2>1, HandlersDoNotConnect
<1>5. ASSUME NEW connected \in BOOLEAN, ConnectionChanged(connected)
      PROVE  ServicesInv'
  <2>1. isConnected' = connected /\ UNCHANGED <<baseVars, linking, subscribed>>
    BY <1>5 DEF ConnectionChanged
  <2>2. FireboltTypeOK'
    BY <1>1, <2>1 DEF FireboltTypeOK
  <2>3. UNCHANGED <<active, mutex, pc, op, subscribed, comVars>>
    BY <2>1 DEF baseVars, serviceVars, appVars
  <2>4. LinkingHolds' /\ RequestsAreActive' /\ ComTypeOK'
    BY <2>3 DEF ServicesInv, LinkingHolds, RequestsAreActive, ComTypeOK, comVars
  <2>5. FireboltLinks'
    BY <2>3 DEF ServicesInv, FireboltLinks, Asked, comVars
  <2>6. QED
    BY <2>2, <2>4, <2>5 DEF ServicesInv
<1>6. QED
  BY <1>2, <1>3, <1>4, <1>5 DEF FireboltNext, FireboltEngine

LEMMA ServicesInvStep == IndInv /\ ServicesInv /\ [Next]_vars => ServicesInv'
<1> SUFFICES ASSUME IndInv, ServicesInv, [Next]_vars
             PROVE  ServicesInv'
  OBVIOUS
<1>1. CASE backend = "COM" /\ ComNext /\ UNCHANGED <<backend, fireboltVars>>
  BY <1>1, ComKeeps
<1>2. CASE backend = "FIREBOLT" /\ FireboltNext /\ UNCHANGED <<backend, comVars>>
  BY <1>2, FireboltKeeps
<1>3. CASE UNCHANGED vars
  BY <1>3 DEF vars, ServicesInv, ComTypeOK, FireboltTypeOK, LinkingHolds, RequestsAreActive, ComLinks, FireboltLinks, Asked
<1>4. QED
  BY <1>1, <1>2, <1>3 DEF Next, AllDeleted

LEMMA SpecServicesInv == Spec => []ServicesInv
  BY SpecIndInv, ServicesInvInit, ServicesInvStep, PTL DEF Spec

--------------------------------------------------------------------------------
(* The properties. *)

\* Every variable keeps its type; the counter of attempts never wraps.
THEOREM TypeCorrect == Spec => []TypeOK
<1>1. IndInv /\ ServicesInv => TypeOK
  BY DEF IndInv, ServicesInv, TypeOK
<1>2. QED
  BY <1>1, SpecIndInv, SpecServicesInv, PTL

\* However many threads call however often, Open() is called three times at
\* most, and never again once there is an object.
THEOREM OpensAtMostThrice == Spec => []OpenedAtMostThrice
<1>1. ServicesInv => OpenedAtMostThrice
  BY DEF ServicesInv, ComLinks, FireboltLinks, OpenedAtMostThrice, InitAttempts
<1>2. QED
  BY <1>1, SpecServicesInv, PTL

\* A request over COM-RPC, sent after isActive() was read without m_mutex,
\* never meets a null remote object.
THEOREM RequestsMeetARemote == Spec => []RemoteWhenUsed
<1>1. ServicesInv => RemoteWhenUsed
  BY DEF ServicesInv, ComLinks, RequestsAreActive, RemoteWhenUsed
<1>2. QED
  BY <1>1, SpecServicesInv, PTL

\* Once initialized and unlocked, either backend has asked for the events,
\* whichever thread connected and whichever was in speak() meanwhile.
THEOREM ConnectionsAsk == Spec => []ConnectedHasAsked
<1>1. IndInv /\ ServicesInv => ConnectedHasAsked
  <2>1. ASSUME ServicesInv, mutex = None
        PROVE  \A a \in Apps : pc[a] # "opened"
    BY <2>1, ThreadsAssumption DEF ServicesInv, LinkingHolds, Linking
  <2>2. ASSUME IndInv, ServicesInv, active, mutex = None, \A a \in Apps : pc[a] \notin {"regSet", "regCall"}, backend = "COM"
        PROVE  registered # "unasked"
    BY <2>1, <2>2 DEF ServicesInv, ComLinks
  <2>3. ASSUME IndInv, ServicesInv, active, mutex = None, backend # "COM"
        PROVE  Asked
    BY <2>1, <2>3 DEF ServicesInv, FireboltLinks, Asked
  <2>4. QED
    BY <2>2, <2>3 DEF ConnectedHasAsked
<1>2. QED
  BY <1>1, SpecIndInv, SpecServicesInv, PTL

\* The safety of the clients, over either backend.
THEOREM ClientsAreSafe == Spec => [](CallbackNamesOwnSpeech /\ EndIsLast /\ RequestNamesOwnSpeech
                                     /\ LastSpeechIsNewest /\ SilentAfterUnregister)
<1>1. IndInv => CallbackNamesOwnSpeech /\ EndIsLast /\ RequestNamesOwnSpeech /\ LastSpeechIsNewest /\ SilentAfterUnregister
  BY DEF IndInv
<1>2. QED
  BY <1>1, SpecIndInv, PTL

\* And the lifecycle every speech goes through.
THEOREM BackendsImplementLifecycle == Spec => ImplementsLifecycle
  BY BackendsImplementClients, ClientsImplementLifecycle, PTL
================================================================================
