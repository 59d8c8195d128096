-------------------------- MODULE SpeechClient_proofs --------------------------
(***************************************************************************)
(* The safety properties of SpeechClient hold for any number of speeches,  *)
(* any client ids and any kinds of events.                                 *)
(***************************************************************************)
EXTENDS SpeechClient, SpeechRequestMap_proofs

USE DEF vars, clientVars, serviceVars, appVars, eventVars, pluginVars, historyVars

\* getClientId() returns a client id of the table, or 0.
LEMMA GetClientIdType ==
  ASSUME TypeOK, NEW s
  PROVE  GetClientId(requestedSpeeches, s) \in ClientIds \cup {0}
<1>1. DOMAIN requestedSpeeches \subseteq Nat
  BY ClientIdsAssumption DEF TypeOK
<1>2. CASE Holders(requestedSpeeches, s) = {}
  BY <1>2 DEF GetClientId
<1>3. CASE Holders(requestedSpeeches, s) # {}
  BY <1>1, <1>3, GetClientIdIsLeast DEF TypeOK
<1>4. QED
  BY <1>2, <1>3

\* An event about a speech carries one of the plugin's service ids.
LEMMA SpeechEventId ==
  ASSUME NEW e \in Events, e.kind \notin StateKinds
  PROVE  e \in SpeechEvents /\ e.id \in ServiceIds /\ e.kind \in InfoKinds \cup EndKinds
<1>1. e \in SpeechEvents
  BY DEF Events
<1>2. QED
  BY <1>1 DEF SpeechEvents

LEMMA NoEventType == NoEvent \in Events
BY DEF NoEvent, Events, StateKinds

LEMMA TypeOKInit == Init => TypeOK
<1> SUFFICES ASSUME Init
             PROVE  TypeOK
  OBVIOUS
<1>1. DOMAIN EmptyMap = {} /\ EmptyMap \in [DOMAIN EmptyMap -> ServiceIds \cup {0}]
  BY DEF EmptyMap
<1>2. wire \in Seq(Events)
  BY DEF Init
<1>3. nextId \in 1..(MaxServiceId + 1)
  BY MaxServiceIdAssumption DEF Init
<1>4. owner \in [ServiceIds -> ClientIds \cup {Nobody}]
  BY DEF Init
<1>5. QED
  BY <1>1, <1>2, <1>3, <1>4, NoEventType DEF Init, TypeOK, AppStates, Stages

\* Every step keeps the types.
LEMMA TypeOKStep == TypeOK /\ [Next]_vars => TypeOK'
<1> SUFFICES ASSUME TypeOK, [Next]_vars
             PROVE  TypeOK'
  OBVIOUS
<1> USE DEF AppStates, Stages
<1>1. CASE App
  <2>1. CASE Construct
    BY <2>1 DEF Construct, TypeOK
  <2>12. CASE CreateSession
    <3>1. firstQuery' \in BOOLEAN
      BY <2>12 DEF CreateSession
    <3>2. pc' = "sessionQuery"
      BY <2>12 DEF CreateSession
    <3>3. UNCHANGED <<ttsEnabled, lastSpeechId, requestedSpeeches, sessionCallback,
                      serviceVars, arg, reply, eventVars, pluginVars, historyVars>>
      BY <2>12 DEF CreateSession
    <3>4. QED
      BY <3>1, <3>2, <3>3 DEF TypeOK
  <2>13. CASE DestroySession
    <3>1. sessionCallback' \in BOOLEAN
      BY <2>13 DEF DestroySession
    <3>2. UNCHANGED <<ttsEnabled, lastSpeechId, requestedSpeeches, firstQuery,
                      serviceVars, appVars, eventVars, pluginVars, historyVars>>
      BY <2>13 DEF DestroySession
    <3>3. QED
      BY <3>1, <3>2 DEF TypeOK
  <2>11. CASE QueryReturns
    <3>1. ttsEnabled' \in BOOLEAN /\ sessionCallback' \in BOOLEAN
      BY <2>11 DEF QueryReturns, TypeOK
    <3>2. QED
      BY <2>11, <3>1 DEF QueryReturns, TypeOK
  <2>2. ASSUME NEW force \in BOOLEAN, IsTTSEnabled(force)
        PROVE  TypeOK'
    <3>1. firstQuery' \in BOOLEAN
      BY <2>2 DEF IsTTSEnabled
    <3>2. pc' = "query"
      BY <2>2 DEF IsTTSEnabled
    <3>3. UNCHANGED <<ttsEnabled, lastSpeechId, requestedSpeeches, sessionCallback,
                      serviceVars, arg, reply, eventVars, pluginVars, historyVars>>
      BY <2>2 DEF IsTTSEnabled
    <3>4. QED
      BY <3>1, <3>2, <3>3 DEF TypeOK
  <2>3. ASSUME NEW c \in ClientIds, SpeakEnter(c)
        PROVE  TypeOK'
    BY <2>3 DEF SpeakEnter, TypeOK
  <2>4. ASSUME NEW c \in ClientIds, PauseOrResume(c) \/ GetSpeechState(c)
        PROVE  TypeOK'
    BY <2>4 DEF PauseOrResume, GetSpeechState, GetServiceId, TypeOK
  <2>5. CASE SpeakFails \/ SpeakAssign
    BY <2>5 DEF SpeakFails, SpeakAssign, TypeOK
  <2>6. CASE SpeakAccepted
    BY <2>6, MaxServiceIdAssumption DEF SpeakAccepted, TypeOK, ServiceIds
  <2>7. CASE SpeakAdd
    <3>1. CASE arg \in DOMAIN requestedSpeeches
      BY <2>7, <3>1 DEF SpeakAdd, Add, TypeOK
    <3>2. CASE arg \notin DOMAIN requestedSpeeches
      <4>1. requestedSpeeches' =
              [d \in DOMAIN requestedSpeeches \cup {arg} |->
                 IF d = arg THEN lastSpeechId ELSE requestedSpeeches[d]]
        BY <2>7, <3>2 DEF SpeakAdd, Add
      <4>2. arg \in ClientIds
        BY <2>7 DEF SpeakAdd, TypeOK
      <4>3. QED
        BY <2>7, <4>1, <4>2 DEF SpeakAdd, TypeOK
    <3>3. QED
      BY <3>1, <3>2
  <2>8. CASE Abort \/ IsSpeaking \/ RequestReturns \/ Delete
    BY <2>8 DEF Abort, IsSpeaking, RequestReturns, Delete, TypeOK
  <2>9. CASE Unregister \/ AbortNothing \/ DestructorEnds
    <3>1. registered' \in BOOLEAN /\ sessionCallback' \in BOOLEAN
      BY <2>9 DEF Unregister, AbortNothing, DestructorEnds, TypeOK
    <3>2. pc' \in {"dtorAbort", "dtorEnd", "dead"}
      BY <2>9 DEF Unregister, AbortNothing, DestructorEnds
    <3>3. UNCHANGED <<ttsEnabled, lastSpeechId, requestedSpeeches, firstQuery, connection, subscribed,
                      arg, reply, eventVars, pluginVars, historyVars>>
      BY <2>9 DEF Unregister, AbortNothing, DestructorEnds
    <3>4. QED
      BY <3>1, <3>2, <3>3 DEF TypeOK
  <2>10. QED
    BY <1>1, <2>1, <2>11, <2>12, <2>13, <2>2, <2>3, <2>4, <2>5, <2>6, <2>7, <2>8, <2>9 DEF App
<1>2. CASE EventThread
  <2>1. CASE Deliver
    BY <2>1 DEF Deliver, TypeOK
  <2>2. CASE SkipUnregistered \/ OnTTSStateChange \/ EnterHandler
    <3>1. CASE SkipUnregistered
      BY <3>1, NoEventType DEF SkipUnregistered, TypeOK
    <3>2. CASE OnTTSStateChange
      <4>1. ttsEnabled' \in BOOLEAN
        BY <3>2 DEF OnTTSStateChange
      <4>2. QED
        BY <3>2, <4>1, NoEventType DEF OnTTSStateChange, TypeOK
    <3>3. CASE EnterHandler
      BY <3>3 DEF EnterHandler, TypeOK
    <3>4. QED
      BY <2>2, <3>1, <3>2, <3>3
  <2>3. CASE LookUp
    <3>1. GetClientId(requestedSpeeches, ev.id) \in ClientIds \cup {0}
      BY GetClientIdType
    <3>2. QED
      BY <2>3, <3>1 DEF LookUp, TypeOK
  <2>4. CASE LookUpAndRemove
    <3>1. removed' \subseteq ServiceIds
      <4>1. ev \in Events /\ ev.kind \notin StateKinds
        BY <2>4, KindsAssumption DEF LookUpAndRemove, TypeOK, StateKinds
      <4>2. QED
        BY <2>4, <4>1, SpeechEventId DEF LookUpAndRemove, TypeOK
    <3>2. /\ DOMAIN requestedSpeeches' \subseteq ClientIds
          /\ requestedSpeeches' \in [DOMAIN requestedSpeeches' -> ServiceIds \cup {0}]
      BY <2>4 DEF LookUpAndRemove, TypeOK, RemoveServiceId
    <3>3. GetClientId(requestedSpeeches, ev.id) \in ClientIds \cup {0}
      BY GetClientIdType
    <3>4. QED
      BY <2>4, <3>1, <3>2, <3>3 DEF LookUpAndRemove, TypeOK
  <2>5. CASE CheckCallback \/ CallBack
    <3>1. heard' \subseteq ServiceIds
      <4>1. CASE CallBack /\ ev.kind \in EndKinds
        BY <4>1, SpeechEventId, KindsAssumption DEF CallBack, TypeOK, StateKinds
      <4>2. QED
        BY <2>5, <4>1 DEF CheckCallback, CallBack, TypeOK
    <3>2. QED
      BY <2>5, <3>1, NoEventType DEF CheckCallback, CallBack, TypeOK
  <2>6. QED
    BY <1>2, <2>1, <2>2, <2>3, <2>4, <2>5 DEF EventThread
<1>3. CASE Connection
  <2>1. CASE ConnectionLost
    <3>1. wire' \in Seq(Events)
      BY <2>1 DEF ConnectionLost
    <3>2. subscribed' \in BOOLEAN /\ connection' \in {"up", "closing", "down"}
      BY <2>1 DEF ConnectionLost
    <3>3. QED
      BY <2>1, <3>1, <3>2 DEF ConnectionLost, TypeOK
  <2>2. CASE OnDeactivation \/ ConnectionMade
    <3>1. ttsEnabled' \in BOOLEAN /\ lastSpeechId' \in ServiceIds \cup {0}
      BY <2>2 DEF OnDeactivation, ConnectionMade, TypeOK
    <3>2. connection' \in {"up", "closing", "down"}
      BY <2>2 DEF OnDeactivation, ConnectionMade
    <3>3. QED
      BY <2>2, <3>1, <3>2 DEF OnDeactivation, ConnectionMade, TypeOK
  <2>3. QED
    BY <1>3, <2>1, <2>2 DEF Connection
<1>4. CASE Plugin
  <2>1. ASSUME NEW k \in InfoKinds \cup EndKinds, NEW s \in ServiceIds, PluginSpeechEvent(k, s)
        PROVE  TypeOK'
    <3>1. [kind |-> k, id |-> s] \in Events
      BY DEF Events, SpeechEvents
    <3>2. QED
      BY <2>1, <3>1 DEF PluginSpeechEvent, TypeOK
  <2>2. ASSUME NEW k \in StateKinds, PluginStateEvent(k)
        PROVE  TypeOK'
    <3>1. [kind |-> k, id |-> 0] \in Events
      BY DEF Events
    <3>2. QED
      BY <2>2, <3>1 DEF PluginStateEvent, TypeOK
  <2>3. CASE PluginAcceptsOther
    BY <2>3, MaxServiceIdAssumption DEF PluginAcceptsOther, TypeOK, ServiceIds
  <2>4. QED
    BY <1>4, <2>1, <2>2, <2>3 DEF Plugin
<1>5. CASE UNCHANGED vars
  BY <1>5 DEF TypeOK
<1>6. QED
  BY <1>1, <1>2, <1>3, <1>4, <1>5 DEF Next

\* Type correctness of the client, its table and the threads' locals, for
\* every reachable state.
THEOREM TypeCorrect == Spec => []TypeOK
<1>1. QED
  BY TypeOKInit, TypeOKStep, PTL DEF Spec

--------------------------------------------------------------------------------
(* The inductive invariant. *)

\* The part of IndInv the types do not cover.
Sound ==
  /\ EntriesOwned /\ EntriesAlive /\ GivenOut /\ HeardAreRemoved
  /\ SpeakLocals /\ HandlerLocals
  /\ RequestNamesOwnSpeech /\ LastSpeechIsNewest /\ SilentAfterUnregister

LEMMA SoundInit == Init => Sound
BY DEF Init, Sound, EntriesOwned, EntriesAlive, GivenOut, HeardAreRemoved, SpeakLocals,
   HandlerLocals, RequestNamesOwnSpeech, LastSpeechIsNewest, SilentAfterUnregister, EmptyMap,
   NoEvent, StateKinds

\* An entry's service id identifies the client id it is filed under, so the
\* look-up by service id finds the owner.
LEMMA HolderIsOwner ==
  ASSUME TypeOK, EntriesOwned, NEW s \in ServiceIds, NEW c \in Holders(requestedSpeeches, s)
  PROVE  owner[s] = c
BY DEF Holders, EntriesOwned, ServiceIds

LEMMA LookUpFindsOwner ==
  ASSUME TypeOK, EntriesOwned, NEW s \in ServiceIds,
         GetClientId(requestedSpeeches, s) # 0
  PROVE  /\ owner[s] = GetClientId(requestedSpeeches, s)
         /\ s \in Tracked(requestedSpeeches)
<1>1. Holders(requestedSpeeches, s) # {}
  BY DEF GetClientId
<1>2. GetClientId(requestedSpeeches, s) \in Holders(requestedSpeeches, s)
  BY <1>1, GetClientIdIsLeast, ClientIdsAssumption DEF TypeOK, Holders
<1>3. QED
  BY <1>2, HolderIsOwner DEF Holders, Tracked

\* Steps of speak().
LEMMA SpeakKeepsSound ==
  ASSUME TypeOK, TypeOK', Sound,
         \/ \E c \in ClientIds : SpeakEnter(c)
         \/ SpeakFails \/ SpeakAccepted \/ SpeakAssign \/ SpeakAdd
  PROVE  Sound'
<1>1. ASSUME NEW c \in ClientIds, SpeakEnter(c)
      PROVE  Sound'
  BY <1>1 DEF SpeakEnter, Sound, EntriesOwned, EntriesAlive, GivenOut, HeardAreRemoved,
     SpeakLocals, HandlerLocals, RequestNamesOwnSpeech, LastSpeechIsNewest, SilentAfterUnregister
<1>2. CASE SpeakFails
  BY <1>2 DEF SpeakFails, Sound, EntriesOwned, EntriesAlive, GivenOut, HeardAreRemoved,
     SpeakLocals, HandlerLocals, RequestNamesOwnSpeech, LastSpeechIsNewest, SilentAfterUnregister
<1>3. CASE SpeakAccepted
  <2>1. /\ nextId \in ServiceIds /\ nextId \in Nat /\ nextId' = nextId + 1
        /\ owner'[nextId] = arg /\ owner[nextId] = Nobody
        /\ \A s \in ServiceIds : s # nextId => owner'[s] = owner[s]
    BY <1>3 DEF SpeakAccepted, TypeOK, Sound, GivenOut, ServiceIds
  <2>2. nextId \notin removed /\ nextId \notin heard
    BY <2>1 DEF Sound, GivenOut, HeardAreRemoved
  <2>3. /\ \A d \in DOMAIN requestedSpeeches : requestedSpeeches[d] # nextId
        /\ nextId \notin Tracked(requestedSpeeches)
    BY <2>1, NobodyAssumption, ClientIdsAssumption
       DEF Sound, EntriesOwned, TypeOK, Tracked, ServiceIds
  <2>4. (EntriesOwned /\ EntriesAlive /\ HeardAreRemoved)'
    BY <1>3, <2>1, <2>3
       DEF SpeakAccepted, TypeOK, Sound, EntriesOwned, EntriesAlive, HeardAreRemoved
  <2>5. GivenOut'
    BY <1>3, <2>1 DEF SpeakAccepted, TypeOK, Sound, GivenOut, ServiceIds
  <2>6. SpeakLocals'
    <3>1. \A s \in ServiceIds : owner'[s] # Nobody => s <= nextId
      BY <2>1 DEF Sound, GivenOut, ServiceIds
    <3>2. QED
      BY <1>3, <2>1, <2>2, <2>3, <3>1 DEF SpeakAccepted, Sound, SpeakLocals
  <2>7. HandlerLocals'
    <3>1. ASSUME stage \in {"check", "call"}, cid # 0
          PROVE  owner'[ev.id] = owner[ev.id]
      <4>1. owner[ev.id] = cid /\ ev.kind \notin StateKinds
        BY <3>1 DEF Sound, HandlerLocals
      <4>2. ev.id \in ServiceIds
        BY <4>1, SpeechEventId DEF TypeOK
      <4>3. ev.id # nextId
        BY <2>1, <4>1, NobodyAssumption, ClientIdsAssumption DEF TypeOK
      <4>4. QED
        BY <2>1, <4>2, <4>3
    <3>2. QED
      BY <1>3, <3>1 DEF SpeakAccepted, Sound, HandlerLocals
  <2>8. (RequestNamesOwnSpeech /\ LastSpeechIsNewest /\ SilentAfterUnregister)'
    BY <1>3 DEF SpeakAccepted, Sound, SpeakLocals, RequestNamesOwnSpeech, LastSpeechIsNewest,
       SilentAfterUnregister
  <2>9. QED
    BY <2>4, <2>5, <2>6, <2>7, <2>8 DEF Sound
<1>4. CASE SpeakAssign
  <2>1. owner[reply] # Nobody
    BY <1>4, NobodyAssumption, ClientIdsAssumption DEF SpeakAssign, Sound, SpeakLocals, TypeOK
  <2>2. (SpeakLocals /\ LastSpeechIsNewest)'
    BY <1>4, <2>1 DEF SpeakAssign, Sound, SpeakLocals, LastSpeechIsNewest
  <2>3. QED
    BY <1>4, <2>2 DEF SpeakAssign, Sound, EntriesOwned, EntriesAlive, GivenOut,
       HeardAreRemoved, HandlerLocals, RequestNamesOwnSpeech, SilentAfterUnregister
<1>5. CASE SpeakAdd
  <2>1. /\ \A d \in DOMAIN requestedSpeeches' :
              \/ d \in DOMAIN requestedSpeeches /\ requestedSpeeches'[d] = requestedSpeeches[d]
              \/ d = arg /\ requestedSpeeches'[d] \in {0, reply}
        /\ owner[reply] = arg /\ reply \notin removed
    <3>1. requestedSpeeches' = Add(requestedSpeeches, arg, lastSpeechId)
      BY <1>5 DEF SpeakAdd
    <3>2. /\ DOMAIN requestedSpeeches' = DOMAIN requestedSpeeches \cup {arg}
          /\ \A d \in DOMAIN requestedSpeeches : requestedSpeeches'[d] = requestedSpeeches[d]
          /\ arg \notin DOMAIN requestedSpeeches => requestedSpeeches'[arg] = lastSpeechId
      <4> DEFINE m == Add(requestedSpeeches, arg, lastSpeechId)
      <4>1. /\ DOMAIN m = DOMAIN requestedSpeeches \cup {arg}
            /\ \A d \in DOMAIN requestedSpeeches : m[d] = requestedSpeeches[d]
            /\ arg \notin DOMAIN requestedSpeeches => m[arg] = lastSpeechId
        BY AddKeeps
      <4> HIDE DEF m
      <4>2. requestedSpeeches' = m
        BY <3>1 DEF m
      <4>3. QED
        BY <4>1, <4>2
    <3>3. /\ lastSpeechId \in {0, reply}
          /\ owner[reply] = arg /\ reply \notin removed
      BY <1>5 DEF SpeakAdd, Sound, SpeakLocals
    <3>4. QED
      BY <3>2, <3>3
  <2>2. (EntriesOwned /\ EntriesAlive)'
    <3>1. owner' = owner /\ removed' = removed /\ 0 \notin removed
      BY <1>5 DEF SpeakAdd, TypeOK, ServiceIds
    <3>2. QED
      BY <2>1, <3>1 DEF Sound, EntriesOwned, EntriesAlive
  <2>3. Tracked(requestedSpeeches) \subseteq Tracked(requestedSpeeches')
    BY <1>5, AddKeeps DEF SpeakAdd, Add, Tracked
  <2>4. QED
    BY <1>5, <2>2, <2>3 DEF SpeakAdd, Sound, GivenOut, HeardAreRemoved, SpeakLocals, HandlerLocals,
       RequestNamesOwnSpeech, LastSpeechIsNewest, SilentAfterUnregister
<1>6. QED
  BY <1>1, <1>2, <1>3, <1>4, <1>5

\* Steps of the other API calls, the constructor and the destructor.
LEMMA ApiKeepsSound ==
  ASSUME TypeOK, Sound,
         \/ Construct \/ CreateSession \/ QueryReturns \/ DestroySession
         \/ \E force \in BOOLEAN : IsTTSEnabled(force)
         \/ \E c \in ClientIds : PauseOrResume(c) \/ GetSpeechState(c)
         \/ Abort \/ IsSpeaking \/ RequestReturns
         \/ Delete \/ Unregister \/ AbortNothing \/ DestructorEnds
  PROVE  Sound'
<1> USE DEF Sound, EntriesOwned, EntriesAlive, GivenOut, HeardAreRemoved, SpeakLocals,
            HandlerLocals, RequestNamesOwnSpeech, LastSpeechIsNewest, SilentAfterUnregister
<1>1. CASE Construct
  BY <1>1 DEF Construct
<1>2. CASE CreateSession \/ QueryReturns \/ DestroySession
  BY <1>2 DEF CreateSession, QueryReturns, DestroySession
<1>3. ASSUME NEW force \in BOOLEAN, IsTTSEnabled(force)
      PROVE  Sound'
  BY <1>3 DEF IsTTSEnabled
<1>4. ASSUME NEW c \in ClientIds, PauseOrResume(c) \/ GetSpeechState(c)
      PROVE  Sound'
  BY <1>4 DEF PauseOrResume, GetSpeechState, GetServiceId
<1>5. CASE Abort \/ IsSpeaking \/ RequestReturns
  BY <1>5 DEF Abort, IsSpeaking, RequestReturns
<1>6. CASE Delete \/ AbortNothing \/ DestructorEnds
  BY <1>6 DEF Delete, AbortNothing, DestructorEnds
<1>7. CASE Unregister
  BY <1>7 DEF Unregister, MutexFree
<1>8. QED
  BY <1>1, <1>2, <1>3, <1>4, <1>5, <1>6, <1>7

\* Steps of the event thread.
LEMMA HandlerKeepsSound ==
  ASSUME TypeOK, TypeOK', Sound, EventThread
  PROVE  Sound'
<1>1. CASE Deliver
  BY <1>1 DEF Deliver, Sound, EntriesOwned, EntriesAlive, GivenOut, HeardAreRemoved, SpeakLocals,
     HandlerLocals, RequestNamesOwnSpeech, LastSpeechIsNewest, SilentAfterUnregister
<1>2. CASE SkipUnregistered \/ OnTTSStateChange \/ EnterHandler
  BY <1>2 DEF SkipUnregistered, OnTTSStateChange, EnterHandler, Sound, EntriesOwned, EntriesAlive,
     GivenOut, HeardAreRemoved, SpeakLocals, HandlerLocals, RequestNamesOwnSpeech,
     LastSpeechIsNewest, SilentAfterUnregister
<1>3. ASSUME stage = "lookup", GetClientId(requestedSpeeches, ev.id) # 0
      PROVE  /\ ev.id \in ServiceIds
             /\ owner[ev.id] = GetClientId(requestedSpeeches, ev.id)
             /\ ev.id \in Tracked(requestedSpeeches)
             /\ ev.id \notin removed
             /\ ev.id \notin heard
  <2>1. ev.id \in ServiceIds
    BY <1>3, SpeechEventId DEF Sound, HandlerLocals, TypeOK
  <2>2. /\ owner[ev.id] = GetClientId(requestedSpeeches, ev.id)
        /\ ev.id \in Tracked(requestedSpeeches)
    BY <1>3, <2>1, LookUpFindsOwner DEF Sound
  <2>3. ev.id \notin removed
    BY <2>2 DEF Sound, EntriesAlive, Tracked
  <2>4. QED
    BY <2>1, <2>2, <2>3 DEF Sound, HeardAreRemoved
<1>4. CASE LookUp
  <2>1. HandlerLocals'
    BY <1>3, <1>4, KindsAssumption DEF LookUp, Sound, HandlerLocals
  <2>2. QED
    BY <1>4, <2>1 DEF LookUp, Sound, EntriesOwned, EntriesAlive, GivenOut, HeardAreRemoved,
       SpeakLocals, RequestNamesOwnSpeech, LastSpeechIsNewest, SilentAfterUnregister
<1>5. CASE LookUpAndRemove
  <2>0. /\ ev.id \in ServiceIds
        /\ removed' = removed \cup ({ev.id} \cap Tracked(requestedSpeeches))
        /\ owner' = owner /\ nextId' = nextId /\ heard' = heard
    BY <1>5, SpeechEventId DEF LookUpAndRemove, Sound, HandlerLocals, TypeOK
  <2>1. /\ DOMAIN requestedSpeeches' \subseteq DOMAIN requestedSpeeches
        /\ \A d \in DOMAIN requestedSpeeches' : requestedSpeeches'[d] = requestedSpeeches[d]
    BY <1>5 DEF LookUpAndRemove, RemoveServiceId
  <2>2. Tracked(requestedSpeeches') \subseteq Tracked(requestedSpeeches)
    BY <2>1 DEF Tracked
  <2>3. EntriesOwned'
    BY <2>0, <2>1 DEF Sound, EntriesOwned
  <2>4. EntriesAlive'
    <3>1. \A c, d \in Holders(requestedSpeeches, ev.id) : c = d
      BY <2>0, HolderIsOwner DEF Sound
    <3>2. DOMAIN requestedSpeeches \subseteq Nat
      BY ClientIdsAssumption DEF TypeOK
    <3>3. Holders(RemoveServiceId(requestedSpeeches, ev.id), ev.id) = {}
      BY <3>1, <3>2, RemoveErases
    <3>4. Holders(requestedSpeeches', ev.id) = {}
      BY <1>5, <3>3 DEF LookUpAndRemove
    <3>5. QED
      BY <2>0, <2>1, <3>4 DEF Sound, EntriesAlive, Holders
  <2>5. GivenOut'
    <3>1. ev.id \in Tracked(requestedSpeeches) => ev.id < nextId
      BY <2>0, NobodyAssumption, ClientIdsAssumption
         DEF Tracked, Sound, EntriesOwned, GivenOut, TypeOK, ServiceIds
    <3>2. QED
      BY <2>0, <3>1 DEF Sound, GivenOut
  <2>6. SpeakLocals'
    BY <1>5, <2>0, <2>2 DEF LookUpAndRemove, Sound, SpeakLocals
  <2>7. HandlerLocals'
    BY <1>3, <1>5, <2>0, KindsAssumption DEF LookUpAndRemove, Sound, HandlerLocals
  <2>8. QED
    BY <1>5, <2>3, <2>4, <2>5, <2>6, <2>7 DEF LookUpAndRemove, Sound, HeardAreRemoved,
       RequestNamesOwnSpeech, LastSpeechIsNewest, SilentAfterUnregister
<1>6. CASE CheckCallback
  BY <1>6 DEF CheckCallback, Sound, EntriesOwned, EntriesAlive, GivenOut, HeardAreRemoved,
     SpeakLocals, HandlerLocals, RequestNamesOwnSpeech, LastSpeechIsNewest, SilentAfterUnregister
<1>7. CASE CallBack
  <2>1. heard' \subseteq removed
    BY <1>7, KindsAssumption DEF CallBack, Sound, HandlerLocals, HeardAreRemoved
  <2>2. QED
    BY <1>7, <2>1 DEF CallBack, Sound, EntriesOwned, EntriesAlive, GivenOut, HeardAreRemoved,
       SpeakLocals, HandlerLocals, RequestNamesOwnSpeech, LastSpeechIsNewest, SilentAfterUnregister
<1>8. QED
  BY <1>1, <1>2, <1>4, <1>5, <1>6, <1>7 DEF EventThread

\* Steps of the connection and the plugin.
LEMMA OutsideKeepsSound ==
  ASSUME TypeOK, Sound, Connection \/ Plugin
  PROVE  Sound'
<1> USE DEF Sound, EntriesOwned, EntriesAlive, GivenOut, HeardAreRemoved, SpeakLocals,
            HandlerLocals, RequestNamesOwnSpeech, LastSpeechIsNewest, SilentAfterUnregister
<1>1. CASE Connection
  BY <1>1 DEF Connection, ConnectionLost, OnDeactivation, ConnectionMade
<1>2. CASE PluginAcceptsOther
  BY <1>2 DEF PluginAcceptsOther, TypeOK, ServiceIds
<1>3. CASE Plugin /\ ~PluginAcceptsOther
  <2>1. /\ UNCHANGED <<clientVars, serviceVars, appVars, eventVars, historyVars>>
        /\ nextId' = nextId /\ owner' = owner
    BY <1>3 DEF Plugin, PluginSpeechEvent, PluginStateEvent
  <2>2. QED
    BY <2>1
<1>4. QED
  BY <1>1, <1>2, <1>3

LEMMA IndInvIsBoth == IndInv <=> TypeOK /\ Sound
BY DEF IndInv, Sound

\* IndInv is inductive.
LEMMA IndInvStep == IndInv /\ [Next]_vars => IndInv'
<1> SUFFICES ASSUME TypeOK, Sound, [Next]_vars
             PROVE  TypeOK' /\ Sound'
  BY DEF IndInv, Sound
<1>1. TypeOK'
  BY TypeOKStep
<1>2. CASE App
  BY <1>1, <1>2, SpeakKeepsSound, ApiKeepsSound DEF App
<1>3. CASE EventThread
  BY <1>1, <1>3, HandlerKeepsSound
<1>4. CASE Connection \/ Plugin
  BY <1>1, <1>4, OutsideKeepsSound
<1>5. CASE UNCHANGED vars
  BY <1>1, <1>5 DEF Sound, EntriesOwned, EntriesAlive, GivenOut, HeardAreRemoved, SpeakLocals,
     HandlerLocals, RequestNamesOwnSpeech, LastSpeechIsNewest, SilentAfterUnregister
<1>6. QED
  BY <1>1, <1>2, <1>3, <1>4, <1>5 DEF Next

LEMMA IndInvHolds == Spec => []IndInv
<1>1. Init => IndInv
  BY TypeOKInit, SoundInit DEF IndInv, Sound
<1>2. QED
  BY <1>1, IndInvStep, PTL DEF Spec

\* Every session callback names the client id under which this client asked
\* for the speech the event is about, in every reachable state.
THEOREM CallbacksReachTheirOwner == Spec => []CallbackNamesOwnSpeech
<1>1. IndInv => CallbackNamesOwnSpeech
  BY DEF IndInv, HandlerLocals, CallbackNamesOwnSpeech
<1>2. QED
  BY <1>1, IndInvHolds, PTL

\* No callback about a speech follows the one that told of its end.
THEOREM NothingAfterTheEnd == Spec => []EndIsLast
<1>1. IndInv => EndIsLast
  BY DEF IndInv, HandlerLocals, EndIsLast
<1>2. QED
  BY <1>1, IndInvHolds, PTL

\* pause, resume and getspeechstate never name the speech of another id.
THEOREM RequestsStayOwn == Spec => []RequestNamesOwnSpeech
<1>1. IndInv => RequestNamesOwnSpeech
  BY DEF IndInv
<1>2. QED
  BY <1>1, IndInvHolds, PTL

\* abort() and isSpeaking() act on the newest speech or on none.
THEOREM AbortActsOnNewest == Spec => []LastSpeechIsNewest
<1>1. IndInv => LastSpeechIsNewest
  BY DEF IndInv
<1>2. QED
  BY <1>1, IndInvHolds, PTL

\* Once unregisterClient() has returned no handler runs on the object.
THEOREM NoHandlerAfterUnregister == Spec => []SilentAfterUnregister
<1>1. IndInv => SilentAfterUnregister
  BY DEF IndInv
<1>2. QED
  BY <1>1, IndInvHolds, PTL

--------------------------------------------------------------------------------
(* The client implements the lifecycle. *)

\* The plugin accepting a speech is the lifecycle's Accept.
LEMMA AcceptRefines ==
  ASSUME TypeOK, Sound, SpeakAccepted
  PROVE  Lifecycle!Accept(nextId) /\ nextId \in ServiceIds
<1>1. /\ nextId \in ServiceIds /\ owner[nextId] = Nobody
      /\ owner' = [owner EXCEPT ![nextId] = arg] /\ arg # Nobody
      /\ UNCHANGED <<heard, removed, requestedSpeeches, stage, ev>>
  BY NobodyAssumption, ClientIdsAssumption DEF SpeakAccepted, TypeOK, Sound, GivenOut, ServiceIds
<1>2. nextId \notin removed /\ nextId \notin heard
  BY <1>1 DEF Sound, GivenOut, HeardAreRemoved, ServiceIds
<1>3. nextId \notin Tracked(requestedSpeeches)
  BY <1>1, NobodyAssumption, ClientIdsAssumption
     DEF Sound, EntriesOwned, TypeOK, Tracked, ServiceIds
<1>4. \A s \in ServiceIds : s = nextId => Phase(s) = "unknown" /\ Phase(s)' = "accepted"
  BY <1>1, <1>2, <1>3 DEF Phase, TypeOK
<1>5. ASSUME NEW s \in ServiceIds, s # nextId
      PROVE  Phase(s)' = Phase(s)
  BY <1>1, <1>5 DEF Phase, TypeOK
<1>6. QED
  BY <1>1, <1>4, <1>5 DEF Lifecycle!Accept

\* add() is the lifecycle's Track, or nothing if the entry is refused or 0.
LEMMA AddRefines ==
  ASSUME TypeOK, Sound, SpeakAdd
  PROVE  \/ reply \in ServiceIds /\ Lifecycle!Track(reply)
         \/ UNCHANGED Lifecycle!lifecycleVars
<1>1. /\ requestedSpeeches' = Add(requestedSpeeches, arg, lastSpeechId)
      /\ UNCHANGED <<heard, removed, owner, stage, ev>>
      /\ reply \in ServiceIds /\ owner[reply] # Nobody
      /\ reply \notin removed /\ reply \notin heard /\ reply \notin Tracked(requestedSpeeches)
      /\ lastSpeechId \in {0, reply}
  BY NobodyAssumption, ClientIdsAssumption
     DEF SpeakAdd, Sound, SpeakLocals, HeardAreRemoved, TypeOK
<1>2. CASE arg \in DOMAIN requestedSpeeches \/ lastSpeechId = 0
  <2>1. \A s \in ServiceIds : s \in Tracked(requestedSpeeches') <=> s \in Tracked(requestedSpeeches)
    <3>1. CASE arg \in DOMAIN requestedSpeeches
      BY <1>1, <3>1 DEF Add
    <3>2. CASE arg \notin DOMAIN requestedSpeeches /\ lastSpeechId = 0
      <4>1. Tracked(requestedSpeeches') = Tracked(requestedSpeeches) \cup {0}
        BY <1>1, <3>2 DEF Add, Tracked
      <4>2. QED
        BY <4>1 DEF ServiceIds
    <3>3. QED
      BY <1>2, <3>1, <3>2
  <2>2. \A s \in ServiceIds : Phase(s)' = Phase(s)
    BY <1>1, <2>1 DEF Phase
  <2>3. QED
    BY <1>1, <2>2 DEF Lifecycle!lifecycleVars
<1>3. CASE arg \notin DOMAIN requestedSpeeches /\ lastSpeechId = reply
  <2>1. \A s \in ServiceIds :
          s \in Tracked(requestedSpeeches') <=> s \in Tracked(requestedSpeeches) \/ s = reply
    BY <1>1, <1>3 DEF Add, Tracked
  <2>2. \A s \in ServiceIds : s = reply => Phase(s) = "accepted" /\ Phase(s)' = "tracked"
    BY <1>1, <2>1 DEF Phase
  <2>3. \A s \in ServiceIds : s # reply => Phase(s)' = Phase(s)
    BY <1>1, <2>1 DEF Phase
  <2>4. QED
    BY <1>1, <2>2, <2>3 DEF Lifecycle!Track
<1>4. QED
  BY <1>1, <1>2, <1>3

\* removeServiceId() is the lifecycle's End if it finds an entry.
LEMMA RemoveRefines ==
  ASSUME TypeOK, TypeOK', Sound, Sound', LookUpAndRemove
  PROVE  \/ ev.id \in ServiceIds /\ Lifecycle!End(ev.id)
         \/ UNCHANGED Lifecycle!lifecycleVars
<1>1. /\ requestedSpeeches' = RemoveServiceId(requestedSpeeches, ev.id)
      /\ removed' = removed \cup ({ev.id} \cap Tracked(requestedSpeeches))
      /\ UNCHANGED <<heard, owner, ev>> /\ stage = "lookup" /\ stage' = "check"
      /\ ev.id \in ServiceIds
  BY SpeechEventId DEF LookUpAndRemove, Sound, HandlerLocals, TypeOK
<1>2. \A s \in ServiceIds : s # ev.id =>
        (s \in Tracked(requestedSpeeches') <=> s \in Tracked(requestedSpeeches))
  <2>1. CASE Holders(requestedSpeeches, ev.id) = {}
    BY <1>1, <2>1 DEF RemoveServiceId
  <2>2. CASE Holders(requestedSpeeches, ev.id) # {}
    <3>1. requestedSpeeches[GetClientId(requestedSpeeches, ev.id)] = ev.id
      BY <2>2, GetClientIdIsLeast, ClientIdsAssumption DEF TypeOK
    <3>2. requestedSpeeches' = [c \in DOMAIN requestedSpeeches
                                  \ {GetClientId(requestedSpeeches, ev.id)} |-> requestedSpeeches[c]]
      BY <1>1, <2>2 DEF RemoveServiceId
    <3>3. QED
      BY <3>1, <3>2 DEF Tracked
  <2>3. QED
    BY <2>1, <2>2
<1>3. \A s \in ServiceIds : s # ev.id => Phase(s)' = Phase(s)
  BY <1>1, <1>2 DEF Phase
<1>4. CASE ev.id \notin Tracked(requestedSpeeches)
  <2>1. requestedSpeeches' = requestedSpeeches /\ removed' = removed
    BY <1>1, <1>4 DEF RemoveServiceId, Holders, Tracked
  <2>2. \A s \in ServiceIds : Phase(s)' = Phase(s)
    BY <1>1, <2>1 DEF Phase
  <2>3. QED
    BY <1>1, <2>2 DEF Lifecycle!lifecycleVars
<1>5. CASE ev.id \in Tracked(requestedSpeeches)
  <2>1. ev.id \notin removed /\ ev.id \notin heard
    BY <1>5 DEF Sound, EntriesAlive, HeardAreRemoved, Tracked
  <2>2. Phase(ev.id) = "tracked" /\ Phase(ev.id)' = "ended"
    BY <1>1, <1>5, <2>1 DEF Phase
  <2>3. QED
    BY <1>1, <1>3, <2>2 DEF Lifecycle!End
<1>6. QED
  BY <1>4, <1>5

\* Entering and leaving a session callback are Begin and Finish.
LEMMA CallRefines ==
  ASSUME TypeOK, Sound, CheckCallback \/ CallBack
  PROVE  \/ ev.id \in ServiceIds /\ (Lifecycle!Begin(ev.id) \/ Lifecycle!Finish(ev.id))
         \/ UNCHANGED Lifecycle!lifecycleVars
<1>1. /\ ev.id \in ServiceIds /\ ev.id # 0 /\ ev.kind \in InfoKinds \cup EndKinds
      /\ UNCHANGED <<removed, owner, requestedSpeeches>>
  BY SpeechEventId DEF CheckCallback, CallBack, Sound, HandlerLocals, TypeOK, ServiceIds
<1>2. CASE CheckCallback
  <2>1. heard' = heard /\ stage = "check"
    BY <1>2 DEF CheckCallback
  <2>2. \A s \in ServiceIds : Phase(s)' = Phase(s)
    BY <1>1, <2>1 DEF Phase
  <2>3. CASE cid # 0 /\ sessionCallback
    <3>1. Phase(ev.id) \in {"tracked", "ended"}
      BY <1>1, <2>1, <2>3 DEF Phase, Sound, HandlerLocals
    <3>2. stage' = "call" /\ ev' = ev
      BY <1>2, <2>3 DEF CheckCallback
    <3>3. QED
      BY <1>1, <2>1, <2>2, <3>1, <3>2 DEF Lifecycle!Begin
  <2>4. CASE ~(cid # 0 /\ sessionCallback)
    <3>1. stage' = "idle"
      BY <1>2, <2>4 DEF CheckCallback
    <3>2. QED
      BY <2>1, <2>2, <3>1 DEF Lifecycle!lifecycleVars
  <2>5. QED
    BY <2>3, <2>4
<1>3. CASE CallBack
  <2>1. /\ heard' = heard \cup (IF ev.kind \in EndKinds THEN {ev.id} ELSE {})
        /\ stage = "call" /\ stage' = "idle" /\ ev.id \notin heard
        /\ ev.kind \in EndKinds => ev.id \in removed
        /\ ev.kind \notin EndKinds => ev.id \notin removed /\ ev.id \in Tracked(requestedSpeeches)
    BY <1>1, <1>3 DEF CallBack, Sound, HandlerLocals
  <2>2. \A s \in ServiceIds : s # ev.id => Phase(s)' = Phase(s)
    BY <1>1, <2>1 DEF Phase
  <2>3. \A s \in ServiceIds :
          s = ev.id => Phase(s)' = IF Phase(s) = "ended" THEN "over" ELSE Phase(s)
    BY <1>1, <2>1 DEF Phase
  <2>4. QED
    BY <1>1, <2>1, <2>2, <2>3 DEF Lifecycle!Finish
<1>4. QED
  BY <1>2, <1>3

\* Every other step leaves all the lifecycle speaks of as it was.
LEMMA OthersStutter ==
  ASSUME TypeOK, Sound, [Next]_vars,
         ~SpeakAccepted, ~SpeakAdd, ~LookUpAndRemove, ~CheckCallback, ~CallBack
  PROVE  UNCHANGED Lifecycle!lifecycleVars
<1>1. /\ UNCHANGED <<requestedSpeeches, owner, removed, heard>>
      /\ (stage' = stage /\ ev' = ev) \/ (stage # "call" /\ stage' # "call")
  <2>1. CASE App
    BY <2>1 DEF App, Construct, CreateSession, QueryReturns, DestroySession, IsTTSEnabled,
       SpeakEnter, PauseOrResume, GetSpeechState, SpeakFails, SpeakAssign, Abort, IsSpeaking,
       RequestReturns, Delete, Unregister, AbortNothing, DestructorEnds
  <2>2. CASE EventThread
    BY <2>2 DEF EventThread, Deliver, SkipUnregistered, OnTTSStateChange, EnterHandler, LookUp
  <2>3. CASE Connection
    BY <2>3 DEF Connection, ConnectionLost, OnDeactivation, ConnectionMade
  <2>4. CASE Plugin
    BY <2>4 DEF Plugin, PluginSpeechEvent, PluginStateEvent, PluginAcceptsOther
  <2>5. QED
    BY <2>1, <2>2, <2>3, <2>4 DEF Next
<1>2. \A s \in ServiceIds : Phase(s)' = Phase(s)
  BY <1>1 DEF Phase
<1>3. QED
  BY <1>1, <1>2 DEF Lifecycle!lifecycleVars

\* The client implements SpeechLifecycle: whatever the plugin sends, each
\* speech is tracked once, ends once, and its end is told at most once and last.
THEOREM ClientImplementsLifecycle == Spec => ImplementsLifecycle
<1>1. Init => Lifecycle!Init
  BY DEF Init, Lifecycle!Init, Phase, Tracked, EmptyMap
<1>2. IndInv /\ IndInv' /\ [Next]_vars => [Lifecycle!Next]_Lifecycle!lifecycleVars
  <2> SUFFICES ASSUME TypeOK, TypeOK', Sound, Sound', [Next]_vars
               PROVE  [Lifecycle!Next]_Lifecycle!lifecycleVars
    BY DEF IndInv, Sound
  <2>1. CASE SpeakAccepted
    BY <2>1, AcceptRefines DEF Lifecycle!Next
  <2>2. CASE SpeakAdd
    BY <2>2, AddRefines DEF Lifecycle!Next
  <2>3. CASE LookUpAndRemove
    BY <2>3, RemoveRefines DEF Lifecycle!Next
  <2>4. CASE CheckCallback \/ CallBack
    BY <2>4, CallRefines DEF Lifecycle!Next
  <2>5. CASE ~(SpeakAccepted \/ SpeakAdd \/ LookUpAndRemove \/ CheckCallback \/ CallBack)
    BY <2>5, OthersStutter
  <2>6. QED
    BY <2>1, <2>2, <2>3, <2>4, <2>5
<1>3. QED
  BY <1>1, <1>2, IndInvHolds, PTL DEF Spec, ImplementsLifecycle, Lifecycle!Spec
================================================================================
