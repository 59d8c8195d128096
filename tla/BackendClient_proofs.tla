-------------------------- MODULE BackendClient_proofs --------------------------
(***************************************************************************)
(* The safety properties of BackendClient hold for any number of clients,  *)
(* handler threads and speeches, whatever the service in between does      *)
(* within ClientsNext.                                                     *)
(***************************************************************************)
EXTENDS BackendClient, SpeechRequestMap_proofs

USE DEF baseVars, serviceVars, clientVars, appVars, handlerVars, engineVars

--------------------------------------------------------------------------------
(* Tables, ids and events. *)

\* A table is a function from some client ids to service ids, or 0.
LEMMA TableType ==
  ASSUME NEW t
  PROVE  t \in Tables <=> DOMAIN t \subseteq ClientIds /\ t \in [DOMAIN t -> ServiceIds \cup {0}]
<1>1. ASSUME t \in Tables
      PROVE  DOMAIN t \subseteq ClientIds /\ t \in [DOMAIN t -> ServiceIds \cup {0}]
  <2>1. PICK D \in SUBSET ClientIds : t \in [D -> ServiceIds \cup {0}]
    BY <1>1 DEF Tables
  <2>2. DOMAIN t = D
    BY <2>1
  <2>3. QED
    BY <2>1, <2>2
<1>2. ASSUME DOMAIN t \subseteq ClientIds, t \in [DOMAIN t -> ServiceIds \cup {0}]
      PROVE  t \in Tables
  <2>1. DOMAIN t \in SUBSET ClientIds
    BY <1>2
  <2>2. QED
    BY <1>2, <2>1 DEF Tables
<1>3. QED
  BY <1>1, <1>2

LEMMA EmptyTable == EmptyMap \in Tables /\ Tracked(EmptyMap) = {} /\ DOMAIN EmptyMap = {}
<1>1. DOMAIN EmptyMap = {} /\ EmptyMap \in [DOMAIN EmptyMap -> ServiceIds \cup {0}]
  BY DEF EmptyMap
<1>2. Tracked(EmptyMap) = {}
  BY <1>1 DEF Tracked
<1>3. QED
  BY <1>1, <1>2, TableType

\* add() keeps the type of a table and adds at most the given service id.
LEMMA AddedTable ==
  ASSUME NEW t \in Tables, NEW c \in ClientIds, NEW s \in ServiceIds \cup {0}
  PROVE  /\ Add(t, c, s) \in Tables
         /\ Tracked(Add(t, c, s)) \subseteq Tracked(t) \cup {s}
         /\ \A d \in DOMAIN Add(t, c, s) :
              (d \in DOMAIN t /\ Add(t, c, s)[d] = t[d]) \/ (d = c /\ Add(t, c, s)[d] = s)
<1>0. DOMAIN t \subseteq ClientIds /\ t \in [DOMAIN t -> ServiceIds \cup {0}]
  BY TableType
<1>1. CASE c \in DOMAIN t
  BY <1>1 DEF Add
<1>2. CASE c \notin DOMAIN t
  <2> DEFINE u == [d \in DOMAIN t \cup {c} |-> IF d = c THEN s ELSE t[d]]
  <2>1. Add(t, c, s) = u
    BY <1>2 DEF Add
  <2>2. DOMAIN u \subseteq ClientIds /\ u \in [DOMAIN u -> ServiceIds \cup {0}]
    BY <1>0
  <2>3. u \in Tables
    <3> HIDE DEF u
    <3> QED BY <2>2, TableType
  <2>4. Tracked(u) \subseteq Tracked(t) \cup {s}
    BY <1>2 DEF Tracked
  <2>5. \A d \in DOMAIN u : (d \in DOMAIN t /\ u[d] = t[d]) \/ (d = c /\ u[d] = s)
    BY <1>2
  <2>6. QED
    BY <2>1, <2>3, <2>4, <2>5
<1>3. QED
  BY <1>1, <1>2

\* removeServiceId() keeps the type of a table and leaves the other entries.
LEMMA RemovedTable ==
  ASSUME NEW t \in Tables, NEW s
  PROVE  /\ RemoveServiceId(t, s) \in Tables
         /\ Tracked(RemoveServiceId(t, s)) \subseteq Tracked(t)
         /\ \A d \in DOMAIN RemoveServiceId(t, s) : d \in DOMAIN t /\ RemoveServiceId(t, s)[d] = t[d]
<1> DEFINE u == RemoveServiceId(t, s)
<1>1. DOMAIN t \subseteq ClientIds /\ t \in [DOMAIN t -> ServiceIds \cup {0}]
  BY TableType
<1>2. DOMAIN u \subseteq DOMAIN t /\ \A d \in DOMAIN u : u[d] = t[d]
  BY RemoveKeeps
<1>3. u \in [DOMAIN u -> ServiceIds \cup {0}]
  BY <1>1 DEF RemoveServiceId
<1>4. u \in Tables
  <2> HIDE DEF u
  <2> QED BY <1>1, <1>2, <1>3, TableType
<1>5. QED
  BY <1>2, <1>4 DEF Tracked

\* getClientId() returns 0, or a client id under which the service id is filed.
LEMMA LookUp ==
  ASSUME NEW t \in Tables, NEW s
  PROVE  /\ GetClientId(t, s) \in ClientIds \cup {0}
         /\ GetClientId(t, s) # 0 => GetClientId(t, s) \in DOMAIN t /\ t[GetClientId(t, s)] = s /\ s \in Tracked(t)
<1>1. DOMAIN t \subseteq ClientIds /\ DOMAIN t \subseteq Nat
  BY TableType, BackendIdsAssumption
<1>2. CASE Holders(t, s) = {}
  BY <1>2 DEF GetClientId
<1>3. CASE Holders(t, s) # {}
  BY <1>1, <1>3, GetClientIdIsLeast DEF Tracked
<1>4. QED
  BY <1>2, <1>3

\* An event about a speech carries a service id.
LEMMA SpeechEventId ==
  ASSUME NEW e \in Events, e.kind \in SpeechKinds
  PROVE  e.id \in ServiceIds
  BY BackendKindsAssumption DEF Events, SpeechKinds, StateKinds

LEMMA IdsAreNat == ServiceIds \subseteq Nat /\ 0 \notin ServiceIds /\ ClientIds \subseteq Nat
  BY BackendIdsAssumption DEF ServiceIds

--------------------------------------------------------------------------------
(* Steps of an application thread that leave tables, events and ids alone. *)

\* Such a step keeps the invariant if it takes and gives back m_mutex as it
\* should, and if a thread that goes to a state with an obligation meets it.
LEMMA AppMoves ==
  ASSUME IndInv, NEW a \in Apps,
         NEW o \in Calls, NEW p \in AppStates, NEW c \in ClientIds \cup {0}, NEW r \in Nat,
         Begin(a, o, p, c, r),
         UNCHANGED <<table, handlerVars, engineVars, heard>>,
         active' \in BOOLEAN, enabled' \in [Apps -> BOOLEAN], session' \in [Apps -> BOOLEAN],
         last' \in [Apps -> ServiceIds \cup {0}], \A b \in Apps : last'[b] \in {0, last[b]},
         clients' \subseteq Apps, clients' = clients \/ mutex = None,
         mutex' = mutex \/ (mutex \in {a, None} /\ mutex' \in {a, None}),
         mutex' = a => p \in Inside,
         p \notin {"assign", "add"},
         o = "speak" /\ (p \in {"init", "call", "wait"} \/ mutex' = a) => last'[a] = 0,
         o = "speak" => c \in ClientIds,
         p = "call" /\ o = "named" => r \in ServiceIds /\ owner[r] = <<a, c>>
  PROVE  IndInv'
<1>1. ClientsTypeOK'
  <2>1. /\ pc' \in [Apps -> AppStates] /\ op' \in [Apps -> Calls]
        /\ arg' \in [Apps -> ClientIds \cup {0}] /\ reply' \in [Apps -> Nat]
    BY DEF IndInv, ClientsTypeOK, Begin
  <2>2. mutex' \in Apps \cup Handlers \cup {None}
    BY DEF IndInv, ClientsTypeOK
  <2>3. QED
    BY <2>1, <2>2 DEF IndInv, ClientsTypeOK
<1>2. \A b \in Apps : b # a => /\ pc'[b] = pc[b] /\ op'[b] = op[b] /\ arg'[b] = arg[b] /\ reply'[b] = reply[b]
                               /\ (mutex' = b => mutex = b)
  BY ThreadsAssumption DEF IndInv, ClientsTypeOK, Begin
<1>3. pc'[a] = p /\ op'[a] = o /\ arg'[a] = c /\ reply'[a] = r
  BY DEF IndInv, ClientsTypeOK, Begin
<1>4. EntriesOwned' /\ GivenOut' /\ HeardIsGone' /\ EndIsLast'
  BY DEF IndInv, EntriesOwned, GivenOut, HeardIsGone, EndIsLast
<1>5. MutexHeld'
  <2>1. \A b \in Apps : mutex' = b => pc'[b] \in Inside
    BY <1>2, <1>3 DEF IndInv, MutexHeld
  <2>2. \A h \in Handlers : mutex' = h <=> mutex = h
    BY ThreadsAssumption
  <2>3. QED
    BY <2>1, <2>2 DEF IndInv, MutexHeld
<1>6. SpeakLocals'
  <2>1. ASSUME NEW b \in Apps
        PROVE  op'[b] = "speak" /\ (pc'[b] \in {"init", "call", "wait", "assign"} \/ mutex' = b) => last'[b] = 0
    BY <1>2, <1>3, <2>1 DEF IndInv, SpeakLocals
  <2>0. ASSUME NEW b \in Apps
        PROVE  op'[b] = "speak" => arg'[b] \in ClientIds
    BY <1>2, <1>3 DEF IndInv, SpeakLocals
  <2>2. ASSUME NEW b \in Apps, pc'[b] \in {"assign", "add"}
        PROVE  /\ reply'[b] \in ServiceIds /\ owner'[reply'[b]] = <<b, arg'[b]>>
               /\ last'[b] \in {0, reply'[b]} /\ reply'[b] \notin heard'
               /\ \A x \in Apps : reply'[b] \notin Tracked(table'[x])
               /\ \A s \in ServiceIds : owner'[s][1] = b => s <= reply'[b]
    <3>1. b # a
      BY <1>3, <2>2
    <3>2. pc[b] \in {"assign", "add"} /\ reply'[b] = reply[b] /\ arg'[b] = arg[b]
      BY <1>2, <2>2, <3>1
    <3>3. last'[b] \in {0, last[b]}
      OBVIOUS
    <3>4. QED
      BY <3>2, <3>3 DEF IndInv, SpeakLocals
  <2>3. QED
    BY <2>0, <2>1, <2>2 DEF SpeakLocals
<1>7. HandlerLocals' /\ SilentAfterUnregister' /\ CallbackNamesOwnSpeech'
  <2>1. \A h \in Handlers : stage[h] = "call" \/ todo[h] # {} => clients' = clients
    BY ThreadsAssumption DEF IndInv, MutexHeld
  <2>2. \A b \in Apps : pc'[b] \in {"assign", "add"} => pc[b] \in {"assign", "add"} /\ reply'[b] = reply[b]
    BY <1>2, <1>3
  <2>3. HandlerLocals'
    BY <2>1, <2>2 DEF IndInv, HandlerLocals
  <2>4. SilentAfterUnregister'
    BY <2>1 DEF IndInv, SilentAfterUnregister
  <2>5. CallbackNamesOwnSpeech'
    BY DEF IndInv, CallbackNamesOwnSpeech
  <2>6. QED
    BY <2>3, <2>4, <2>5
<1>8. RequestNamesOwnSpeech'
  <2>1. SUFFICES ASSUME NEW b \in Apps, pc'[b] = "call", op'[b] = "named"
                 PROVE  reply'[b] \in ServiceIds /\ owner[reply'[b]] = <<b, arg'[b]>>
    BY DEF RequestNamesOwnSpeech
  <2>2. CASE b = a
    BY <1>3, <2>1, <2>2
  <2>3. CASE b # a
    <3>1. RequestNamesOwnSpeech
      BY DEF IndInv
    <3>2. pc[b] = "call" /\ op[b] = "named" /\ reply'[b] = reply[b] /\ arg'[b] = arg[b]
      BY <1>2, <2>1, <2>3
    <3>3. QED
      BY <3>1, <3>2 DEF RequestNamesOwnSpeech
  <2>4. QED
    BY <2>2, <2>3
<1>9. LastSpeechIsNewest'
  BY DEF IndInv, LastSpeechIsNewest
<1>10. QED
  BY <1>1, <1>4, <1>5, <1>6, <1>7, <1>8, <1>9 DEF IndInv

\* Going on in a call is beginning it again elsewhere.
LEMMA GotoIsBegin ==
  ASSUME IndInv, NEW a \in Apps, NEW l, Goto(a, l)
  PROVE  /\ Begin(a, op[a], l, arg[a], reply[a])
         /\ op[a] \in Calls /\ arg[a] \in ClientIds \cup {0} /\ reply[a] \in Nat
         /\ op[a] = "speak" => arg[a] \in ClientIds
<1>1. op[a] = "speak" => arg[a] \in ClientIds
  BY DEF IndInv, SpeakLocals
<1>2. QED
  BY <1>1 DEF IndInv, ClientsTypeOK, Goto, Begin

\* The thread that is not inside initialize() does not hold m_mutex.
LEMMA NotHolding ==
  ASSUME IndInv, NEW a \in Apps, pc[a] \notin Inside
  PROVE  mutex # a
  BY DEF IndInv, MutexHeld

\* A step that changes nothing but where its thread is.
LEMMA AppWalks ==
  ASSUME IndInv, NEW a \in Apps,
         NEW o \in Calls, NEW p \in AppStates, NEW c \in ClientIds \cup {0}, NEW r \in Nat,
         Begin(a, o, p, c, r),
         UNCHANGED <<serviceVars, clientVars, handlerVars, engineVars, heard>>,
         pc[a] \notin Inside, p \notin {"assign", "add"},
         o = "speak" /\ p \in {"init", "call", "wait"} => last[a] = 0,
         o = "speak" => c \in ClientIds,
         p = "call" /\ o = "named" => r \in ServiceIds /\ owner[r] = <<a, c>>
  PROVE  IndInv'
<1>1. mutex' # a
  BY NotHolding
<1>2. /\ active' \in BOOLEAN /\ enabled' \in [Apps -> BOOLEAN] /\ session' \in [Apps -> BOOLEAN]
      /\ last' \in [Apps -> ServiceIds \cup {0}] /\ clients' \subseteq Apps
  BY DEF IndInv, ClientsTypeOK
<1>3. QED
  BY <1>1, <1>2, AppMoves

LEMMA GoOnMoves ==
  ASSUME IndInv, NEW a \in Apps, GoOn(a)
  PROVE  \E o \in Calls, p \in AppStates, c \in ClientIds \cup {0}, r \in Nat :
           /\ Begin(a, o, p, c, r)
           /\ p \notin Inside \cup {"assign", "add", "call", "init"}
           /\ p = "wait" => o = op[a]
           /\ o = "speak" => c \in ClientIds
<1>1. CASE op[a] = "construct"
  <2>1. Goto(a, "register")
    BY <1>1 DEF GoOn
  <2>2. "register" \in AppStates /\ "register" \notin Inside
    BY DEF AppStates, Inside
  <2>3. QED
    BY <2>1, <2>2, GotoIsBegin
<1>2. CASE op[a] # "construct" /\ (op[a] = "dtor" \/ (active /\ op[a] \in {"query", "session", "speak"}))
  <2>1. Goto(a, "wait")
    BY <1>2 DEF GoOn
  <2>2. "wait" \in AppStates /\ "wait" \notin Inside
    BY DEF AppStates, Inside
  <2>3. QED
    BY <2>1, <2>2, GotoIsBegin
<1>3. CASE op[a] # "construct" /\ ~(op[a] = "dtor" \/ (active /\ op[a] \in {"query", "session", "speak"}))
  <2>1. Return(a)
    BY <1>3 DEF GoOn
  <2>2. Begin(a, "none", "idle", 0, 0) /\ "none" \in Calls /\ "idle" \in AppStates \ Inside
    BY <2>1 DEF Return, Calls, AppStates, Inside
  <2>3. QED
    BY <2>2
<1>4. QED
  BY <1>1, <1>2, <1>3

\* Calls and constructors that begin or end, and what only waits.
LEMMA CallsKeep ==
  ASSUME IndInv, NEW a \in Apps,
         \/ Create(a) \/ InitSkip(a) \/ SpeakFails(a) \/ Abort(a) \/ IsSpeaking(a) \/ Configure(a) \/ Delete(a)
         \/ \E o \in {"query", "session"} : Query(a, o)
         \/ \E c \in ClientIds :
              SpeakEnter(a, c) \/ Named(a, "named", c, GetServiceId(table[a], c)) \/ Named(a, "state", c, c)
  PROVE  IndInv'
<1> USE DEF AppStates, Calls, Inside, Checked
<1>1. CASE Create(a) \/ SpeakFails(a) \/ Abort(a) \/ IsSpeaking(a) \/ Configure(a) \/ Delete(a)
  <2>1. /\ pc[a] \notin Inside
        /\ UNCHANGED <<serviceVars, clientVars, handlerVars, engineVars, heard>>
    BY <1>1 DEF Create, SpeakFails, Abort, IsSpeaking, Configure, Delete
  <2>2. \E o \in {"construct", "none", "last", "dtor", "configure"}, p \in {"init", "idle", "call", "unregister"} :
          Begin(a, o, p, 0, 0)
    BY <1>1 DEF Create, SpeakFails, Abort, IsSpeaking, Configure, Delete, Return
  <2>3. PICK o \in Calls \ {"speak", "named"}, p \in AppStates \ {"assign", "add"} : Begin(a, o, p, 0, 0)
    BY <2>2
  <2> HIDE DEF AppStates, Calls, Inside
  <2>4. QED
    BY <2>1, <2>3, AppWalks
<1>2. CASE InitSkip(a)
  <2>1. pc[a] \in {"init", "call"} /\ GoOn(a) /\ UNCHANGED <<serviceVars, clientVars, handlerVars, engineVars, heard>>
    BY <1>2 DEF InitSkip
  <2>2. PICK o \in Calls, p \in AppStates, c \in ClientIds \cup {0}, r \in Nat :
          /\ Begin(a, o, p, c, r) /\ p \notin Inside \cup {"assign", "add", "call", "init"} /\ (p = "wait" => o = op[a]) /\ (o = "speak" => c \in ClientIds)
    BY <2>1, GoOnMoves
  <2>3. op[a] = "speak" => last[a] = 0
    BY <2>1 DEF IndInv, SpeakLocals
  <2>4. pc[a] \notin Inside /\ p \notin {"assign", "add", "init", "call"}
    BY <2>1, <2>2
  <2>5. o = "speak" /\ p = "wait" => last[a] = 0
    BY <2>2, <2>3
  <2> HIDE DEF AppStates, Calls, Inside
  <2>6. QED
    BY <2>1, <2>2, <2>4, <2>5, AppWalks
<1>3. ASSUME NEW o \in {"query", "session"}, Query(a, o)
      PROVE  IndInv'
  <2>1. /\ Begin(a, o, "call", 0, 0) /\ pc[a] \notin Inside
        /\ UNCHANGED <<serviceVars, clientVars, handlerVars, engineVars, heard>>
    BY <1>3 DEF Query
  <2>2. o \in Calls /\ o \notin {"speak", "named"} /\ "call" \in AppStates
    OBVIOUS
  <2> HIDE DEF AppStates, Calls, Inside
  <2>3. QED
    BY <2>1, <2>2, AppWalks
<1>4. ASSUME NEW c \in ClientIds, SpeakEnter(a, c)
      PROVE  IndInv'
  <2>1. /\ Begin(a, "speak", "speak", c, 0) /\ pc[a] \notin Inside
        /\ UNCHANGED <<serviceVars, clientVars, handlerVars, engineVars, heard>>
    BY <1>4 DEF SpeakEnter
  <2>2. "speak" \in Calls /\ "speak" \in AppStates /\ "speak" \notin {"assign", "add", "init", "call", "wait"}
    OBVIOUS
  <2> HIDE DEF AppStates, Calls, Inside
  <2>3. QED
    BY <2>1, <2>2, AppWalks
<1>5. ASSUME NEW c \in ClientIds, Named(a, "named", c, GetServiceId(table[a], c))
      PROVE  IndInv'
  <2>1. table[a] \in Tables
    BY DEF IndInv, ClientsTypeOK
  <2>2. c \in DOMAIN table[a] /\ GetServiceId(table[a], c) = table[a][c] /\ table[a][c] # 0
    BY <1>5 DEF Named, GetServiceId
  <2>3. GetServiceId(table[a], c) \in ServiceIds /\ GetServiceId(table[a], c) \in Nat
    BY <2>1, <2>2, TableType, IdsAreNat
  <2>4. owner[GetServiceId(table[a], c)] = <<a, c>>
    BY <2>2 DEF IndInv, EntriesOwned
  <2>5. /\ Begin(a, "named", "call", c, GetServiceId(table[a], c)) /\ pc[a] \notin Inside
        /\ UNCHANGED <<serviceVars, clientVars, handlerVars, engineVars, heard>>
    BY <1>5 DEF Named
  <2>6. "named" \in Calls /\ "call" \in AppStates /\ c \in ClientIds \cup {0}
    OBVIOUS
  <2> HIDE DEF AppStates, Calls, Inside
  <2>7. QED
    BY <2>3, <2>4, <2>5, <2>6, AppWalks
<1>6. ASSUME NEW c \in ClientIds, Named(a, "state", c, c)
      PROVE  IndInv'
  <2>1. /\ Begin(a, "state", "call", c, c) /\ pc[a] \notin Inside
        /\ UNCHANGED <<serviceVars, clientVars, handlerVars, engineVars, heard>>
    BY <1>6 DEF Named
  <2>2. "state" \in Calls /\ "call" \in AppStates /\ c \in ClientIds \cup {0} /\ c \in Nat
    BY IdsAreNat
  <2> HIDE DEF AppStates, Calls, Inside
  <2>3. QED
    BY <2>1, <2>2, AppWalks
<1>7. QED
  BY <1>1, <1>2, <1>3, <1>4, <1>5, <1>6

\* initialize(): m_mutex is taken, kept and given back.
LEMMA InitializeKeeps ==
  ASSUME IndInv, NEW a \in Apps,
         InitBegin(a) \/ (\E l \in Inside : InitStep(a, l)) \/ (\E notify \in BOOLEAN : InitEnd(a, notify))
  PROVE  IndInv'
<1>1. CASE InitBegin(a)
  <2>1. /\ Goto(a, "open") /\ mutex' = a /\ mutex = None /\ pc[a] \in {"init", "call"}
        /\ UNCHANGED <<active, clients, clientVars, handlerVars, engineVars, heard>>
    BY <1>1 DEF InitBegin, MutexFree
  <2>2. "open" \in AppStates /\ "open" \in Inside /\ "open" \notin {"assign", "add", "init", "call", "wait"}
    BY DEF AppStates, Inside
  <2>3. op[a] = "speak" => last[a] = 0
    BY <2>1 DEF IndInv, SpeakLocals
  <2>4. /\ active' \in BOOLEAN /\ enabled' \in [Apps -> BOOLEAN] /\ session' \in [Apps -> BOOLEAN]
        /\ last' \in [Apps -> ServiceIds \cup {0}] /\ clients' \subseteq Apps
    BY <2>1 DEF IndInv, ClientsTypeOK
  <2>5. QED
    BY <2>1, <2>2, <2>3, <2>4, GotoIsBegin, AppMoves
<1>2. ASSUME NEW l \in Inside, InitStep(a, l)
      PROVE  IndInv'
  <2>1. /\ Goto(a, l) /\ mutex' = mutex /\ pc[a] \in Inside /\ active' \in {active, TRUE}
        /\ UNCHANGED <<clients, mutex, clientVars, handlerVars, engineVars, heard>>
    BY <1>2 DEF InitStep
  <2>2. l \in AppStates /\ l \in Inside /\ l \notin {"assign", "add", "init", "call", "wait"}
    BY DEF AppStates, Inside
  <2>3. op[a] = "speak" /\ mutex = a => last[a] = 0
    BY DEF IndInv, SpeakLocals
  <2>4. /\ enabled' \in [Apps -> BOOLEAN] /\ session' \in [Apps -> BOOLEAN]
        /\ last' \in [Apps -> ServiceIds \cup {0}] /\ clients' \subseteq Apps
    BY <2>1 DEF IndInv, ClientsTypeOK
  <2>5. active' \in BOOLEAN
    BY <2>1 DEF IndInv, ClientsTypeOK
  <2>6. QED
    BY <2>1, <2>2, <2>3, <2>4, <2>5, GotoIsBegin, AppMoves
<1>3. ASSUME NEW notify \in BOOLEAN, InitEnd(a, notify)
      PROVE  IndInv'
  <2>1. /\ GoOn(a) /\ mutex = a /\ mutex' = None
        /\ UNCHANGED <<active, clients, table, session, handlerVars, engineVars, heard>>
    BY <1>3 DEF InitEnd
  <2>2. PICK o \in Calls, p \in AppStates, c \in ClientIds \cup {0}, r \in Nat :
          /\ Begin(a, o, p, c, r) /\ p \notin Inside \cup {"assign", "add", "call", "init"} /\ (p = "wait" => o = op[a]) /\ (o = "speak" => c \in ClientIds)
    BY <2>1, GoOnMoves
  <2>3. op[a] = "speak" => last[a] = 0
    BY <2>1 DEF IndInv, SpeakLocals
  <2>4. /\ last' = [b \in Apps |-> IF notify /\ b \in clients THEN 0 ELSE last[b]]
        /\ enabled' = [b \in Apps |-> enabled[b] /\ ~(notify /\ b \in clients)]
    BY <1>3 DEF InitEnd
  <2>5. last' \in [Apps -> ServiceIds \cup {0}] /\ \A b \in Apps : last'[b] \in {0, last[b]}
    BY <2>4 DEF IndInv, ClientsTypeOK
  <2>6. active' \in BOOLEAN /\ session' \in [Apps -> BOOLEAN] /\ clients' \subseteq Apps
    BY <2>1 DEF IndInv, ClientsTypeOK
  <2>7. enabled' \in [Apps -> BOOLEAN]
    <3>1. \A b \in Apps : (enabled[b] /\ ~(notify /\ b \in clients)) \in BOOLEAN
      OBVIOUS
    <3>2. QED
      BY <2>4, <3>1
  <2>8. mutex' # a
    BY <2>1, ThreadsAssumption
  <2>9. QED
    BY <2>1, <2>2, <2>3, <2>5, <2>6, <2>7, <2>8, AppMoves
<1>4. QED
  BY <1>1, <1>2, <1>3

\* The lists of clients, the sessions, and m_lastSpeechId = 0.
LEMMA ClientMembersKeep ==
  ASSUME IndInv, NEW a \in Apps,
         Register(a) \/ Unregister(a) \/ QueryReturns(a) \/ DestroySession(a) \/ SpeakReset(a) \/ DestructorEnds(a)
  PROVE  IndInv'
<1>0. /\ active \in BOOLEAN /\ clients \subseteq Apps
      /\ enabled \in [Apps -> BOOLEAN] /\ session \in [Apps -> BOOLEAN] /\ last \in [Apps -> ServiceIds \cup {0}]
      /\ \A b \in Apps : last[b] \in {0, last[b]}
  BY DEF IndInv, ClientsTypeOK
<1>1. CASE Register(a)
  <2>1. /\ Begin(a, "none", "idle", 0, 0) /\ mutex = None /\ pc[a] \notin Inside /\ clients' \subseteq Apps
        /\ UNCHANGED <<active, mutex, clientVars, handlerVars, engineVars, heard>>
    BY <1>0, <1>1 DEF Register, Return, MutexFree, Inside
  <2>2. "none" \in Calls /\ "idle" \in AppStates /\ "idle" \notin Inside
    BY DEF Calls, AppStates, Inside
  <2>3. mutex' # a
    BY <2>1, ThreadsAssumption
  <2>4. QED
    BY <1>0, <2>1, <2>2, <2>3, AppMoves
<1>2. CASE Unregister(a)
  <2>1. /\ Goto(a, "dtorAbort") /\ mutex = None /\ clients' \subseteq Apps
        /\ UNCHANGED <<active, mutex, clientVars, handlerVars, engineVars, heard>>
    BY <1>0, <1>2 DEF Unregister, MutexFree
  <2>2. "dtorAbort" \in AppStates /\ "dtorAbort" \notin Inside /\ "dtorAbort" \notin {"assign", "add", "init", "call", "wait"}
    BY DEF AppStates, Inside
  <2>3. mutex' # a
    BY <2>1, ThreadsAssumption
  <2>4. QED
    BY <1>0, <2>1, <2>2, <2>3, GotoIsBegin, AppMoves
<1>3. CASE QueryReturns(a)
  <2>1. /\ Begin(a, "none", "idle", 0, 0) /\ pc[a] \notin Inside /\ enabled' \in [Apps -> BOOLEAN]
        /\ UNCHANGED <<serviceVars, last, table, handlerVars, engineVars, heard>>
    BY <1>0, <1>3 DEF QueryReturns, Return, Inside
  <2>2. session' \in [Apps -> BOOLEAN]
    <3>1. (session[a] \/ op[a] = "session") \in BOOLEAN
      OBVIOUS
    <3>2. QED
      BY <1>0, <1>3, <3>1 DEF QueryReturns
  <2>3. "none" \in Calls /\ "idle" \in AppStates /\ "idle" \notin Inside /\ mutex' # a
    BY <2>1, NotHolding DEF Calls, AppStates, Inside
  <2>4. QED
    BY <1>0, <2>1, <2>2, <2>3, AppMoves
<1>4. CASE DestroySession(a)
  <2>1. /\ pc[a] = "idle" /\ session' \in [Apps -> BOOLEAN]
        /\ UNCHANGED <<serviceVars, enabled, last, table, appVars, handlerVars, engineVars, heard>>
    BY <1>0, <1>4 DEF DestroySession
  <2>2. Goto(a, "idle")
    BY <2>1 DEF Goto, IndInv, ClientsTypeOK
  <2>3. "idle" \in AppStates /\ "idle" \notin Inside /\ mutex' # a
    BY <2>1, NotHolding DEF AppStates, Inside
  <2>4. QED
    BY <1>0, <2>1, <2>2, <2>3, GotoIsBegin, AppMoves
<1>5. CASE SpeakReset(a)
  <2>1. /\ Goto(a, "call") /\ mutex # a /\ op[a] = "speak"
        /\ UNCHANGED <<serviceVars, enabled, table, session, handlerVars, engineVars, heard>>
    BY <1>5 DEF SpeakReset
  <2>2. last' = [last EXCEPT ![a] = 0]
    BY <1>5 DEF SpeakReset
  <2>3. last' \in [Apps -> ServiceIds \cup {0}] /\ last'[a] = 0 /\ \A b \in Apps : last'[b] \in {0, last[b]}
    BY <1>0, <2>2
  <2>4. "call" \in AppStates /\ "call" \notin {"assign", "add"}
    BY DEF AppStates, Inside
  <2>5. QED
    BY <1>0, <2>1, <2>3, <2>4, GotoIsBegin, AppMoves
<1>6. CASE DestructorEnds(a)
  <2>1. /\ Begin(a, "none", "dead", 0, 0) /\ pc[a] \notin Inside /\ session' \in [Apps -> BOOLEAN]
        /\ UNCHANGED <<serviceVars, enabled, last, table, handlerVars, engineVars, heard>>
    BY <1>0, <1>6 DEF DestructorEnds, Inside
  <2>2. "none" \in Calls /\ "dead" \in AppStates /\ "dead" \notin Inside /\ mutex' # a
    BY <2>1, NotHolding DEF Calls, AppStates, Inside
  <2>3. QED
    BY <1>0, <2>1, <2>2, AppMoves
<1>7. QED
  BY <1>1, <1>2, <1>3, <1>4, <1>5, <1>6

--------------------------------------------------------------------------------
(* speak(): the id that is given out, assigned and filed. *)

\* An id somebody owns has been given out.
LEMMA OwnedIsOld ==
  ASSUME IndInv, NEW s \in ServiceIds, NEW a \in Apps, NEW c, owner[s] = <<a, c>>
  PROVE  s < nextId
<1>1. owner[s] # NoOwner
  BY ThreadsAssumption DEF NoOwner
<1>2. QED
  BY <1>1 DEF IndInv, GivenOut

\* A tracked id is 0 or has been given out to the client that tracks it.
LEMMA TrackedIsOwned ==
  ASSUME IndInv, NEW a \in Apps, NEW s \in Tracked(table[a])
  PROVE  /\ s \in ServiceIds \cup {0}
         /\ s # 0 => s < nextId /\ \E c \in ClientIds : owner[s] = <<a, c>>
<1>1. PICK c \in DOMAIN table[a] : table[a][c] = s
  BY DEF Tracked
<1>2. c \in ClientIds /\ s \in ServiceIds \cup {0}
  <2>1. table[a] \in Tables
    BY DEF IndInv, ClientsTypeOK
  <2>2. QED
    BY <1>1, <2>1, TableType
<1>3. s # 0 => owner[s] = <<a, c>>
  BY <1>1 DEF IndInv, EntriesOwned
<1>4. QED
  BY <1>2, <1>3, OwnedIsOld

LEMMA AcceptedKeeps ==
  ASSUME IndInv, NEW a \in Apps, SpeakAccepted(a)
  PROVE  IndInv'
<1> DEFINE n == nextId
<1>0. /\ pc[a] = "wait" /\ op[a] = "speak" /\ n \in ServiceIds
      /\ owner' = [owner EXCEPT ![n] = <<a, arg[a]>>] /\ nextId' = n + 1
      /\ Begin(a, "speak", "assign", arg[a], n)
      /\ UNCHANGED <<serviceVars, clientVars, handlerVars, heard>>
  BY DEF SpeakAccepted
<1>1. /\ pc' = [pc EXCEPT ![a] = "assign"] /\ op' = [op EXCEPT ![a] = "speak"]
      /\ arg' = [arg EXCEPT ![a] = arg[a]] /\ reply' = [reply EXCEPT ![a] = n]
  BY <1>0 DEF Begin
<1>2. ClientsTypeOK
  BY DEF IndInv
<1>3. /\ pc'[a] = "assign" /\ op'[a] = "speak" /\ arg'[a] = arg[a] /\ reply'[a] = n
      /\ \A b \in Apps : b # a => pc'[b] = pc[b] /\ op'[b] = op[b] /\ arg'[b] = arg[b] /\ reply'[b] = reply[b]
  BY <1>1, <1>2 DEF ClientsTypeOK
<1>4. owner'[n] = <<a, arg[a]>> /\ \A s \in ServiceIds : s # n => owner'[s] = owner[s]
  BY <1>0, <1>2 DEF ClientsTypeOK
<1>5. \A s \in ServiceIds : owner[s] # NoOwner \/ s \in heard => s < n
  BY DEF IndInv, GivenOut
<1>6. arg[a] \in ClientIds /\ last[a] = 0 /\ mutex # a
  <2>1. mutex # a
    BY <1>0, NotHolding DEF Inside
  <2>2. QED
    BY <1>0, <2>1 DEF IndInv, SpeakLocals
<1>7. n \in Nat \ {0} /\ n <= MaxServiceId /\ MaxServiceId \in Nat
  BY <1>0, BackendIdsAssumption DEF ServiceIds
<1>8. ClientsTypeOK'
  <2>1. nextId' \in 1..(MaxServiceId + 1)
    BY <1>0, <1>7
  <2>2. owner' \in [ServiceIds -> (Apps \X ClientIds) \cup {NoOwner}]
    BY <1>0, <1>2, <1>6 DEF ClientsTypeOK
  <2>3. /\ pc' \in [Apps -> AppStates] /\ op' \in [Apps -> Calls]
        /\ arg' \in [Apps -> ClientIds \cup {0}] /\ reply' \in [Apps -> Nat]
    BY <1>1, <1>2, <1>7 DEF ClientsTypeOK, AppStates, Calls
  <2>4. QED
    BY <1>0, <1>2, <2>1, <2>2, <2>3 DEF ClientsTypeOK
<1>9. EntriesOwned'
  <2>1. ASSUME NEW b \in Apps, NEW c \in DOMAIN table[b], table[b][c] # 0
        PROVE  owner'[table[b][c]] = <<b, c>>
    <3>1. table[b][c] \in Tracked(table[b])
      BY DEF Tracked
    <3>2. table[b][c] \in ServiceIds /\ table[b][c] < n
      BY <2>1, <3>1, TrackedIsOwned
    <3>3. table[b][c] # n
      BY <1>7, <3>2, IdsAreNat
    <3>4. QED
      BY <1>4, <2>1, <3>2, <3>3 DEF IndInv, EntriesOwned
  <2>2. QED
    BY <1>0, <2>1 DEF EntriesOwned
<1>10. GivenOut'
  BY <1>0, <1>4, <1>5, <1>7, IdsAreNat DEF GivenOut
<1>11. HeardIsGone' /\ EndIsLast' /\ SilentAfterUnregister'
  BY <1>0 DEF IndInv, HeardIsGone, EndIsLast, SilentAfterUnregister
<1>12. MutexHeld'
  BY <1>0, <1>3, <1>6 DEF IndInv, MutexHeld
<1>13. SpeakLocals'
  <2>1. n \notin heard /\ (\A b \in Apps : n \notin Tracked(table[b]))
        /\ \A s \in ServiceIds : owner'[s][1] = a => s <= n
    <3>1. n \notin heard
      BY <1>0, <1>5, <1>7
    <3>2. \A b \in Apps : n \notin Tracked(table[b])
      BY <1>7, TrackedIsOwned
    <3>3. ASSUME NEW s \in ServiceIds, owner'[s][1] = a
          PROVE  s <= n
      <4>1. CASE s = n
        BY <1>7, <4>1
      <4>2. CASE s # n
        <5>1. owner[s] # NoOwner
          BY <1>4, <3>3, <4>2, ThreadsAssumption DEF NoOwner
        <5>2. QED
          BY <1>5, <1>7, <5>1, IdsAreNat
      <4>3. QED
        BY <4>1, <4>2
    <3>4. QED
      BY <3>1, <3>2, <3>3
  <2>2. ASSUME NEW b \in Apps, b # a, pc[b] \in {"assign", "add"}
        PROVE  /\ owner'[reply[b]] = <<b, arg[b]>>
               /\ \A s \in ServiceIds : owner'[s][1] = b => s <= reply[b]
    <3>1. /\ reply[b] \in ServiceIds /\ owner[reply[b]] = <<b, arg[b]>>
          /\ \A s \in ServiceIds : owner[s][1] = b => s <= reply[b]
      BY <2>2 DEF IndInv, SpeakLocals
    <3>2. reply[b] # n
      BY <1>7, <3>1, OwnedIsOld, IdsAreNat
    <3>3. \A s \in ServiceIds : owner'[s][1] = b => owner[s][1] = b
      BY <1>4, <2>2
    <3>4. QED
      BY <1>4, <3>1, <3>2, <3>3
  <2>3. ASSUME NEW b \in Apps
        PROVE  /\ op'[b] = "speak" => arg'[b] \in ClientIds
               /\ op'[b] = "speak" /\ (pc'[b] \in {"init", "call", "wait", "assign"} \/ mutex' = b) => last'[b] = 0
    BY <1>0, <1>3, <1>6 DEF IndInv, SpeakLocals
  <2>4. ASSUME NEW b \in Apps, pc'[b] \in {"assign", "add"}
        PROVE  /\ reply'[b] \in ServiceIds /\ owner'[reply'[b]] = <<b, arg'[b]>>
               /\ last'[b] \in {0, reply'[b]} /\ reply'[b] \notin heard'
               /\ \A x \in Apps : reply'[b] \notin Tracked(table'[x])
               /\ \A s \in ServiceIds : owner'[s][1] = b => s <= reply'[b]
    <3>1. CASE b = a
      BY <1>0, <1>3, <1>4, <1>6, <2>1, <3>1
    <3>2. CASE b # a
      <4>1. pc[b] \in {"assign", "add"} /\ reply'[b] = reply[b] /\ arg'[b] = arg[b]
        BY <1>3, <2>4, <3>2
      <4>2. /\ reply[b] \in ServiceIds /\ last[b] \in {0, reply[b]} /\ reply[b] \notin heard
            /\ \A x \in Apps : reply[b] \notin Tracked(table[x])
        BY <4>1 DEF IndInv, SpeakLocals
      <4>3. QED
        BY <1>0, <2>2, <3>2, <4>1, <4>2
    <3>3. QED
      BY <3>1, <3>2
  <2>5. QED
    BY <2>3, <2>4 DEF SpeakLocals
<1>14. HandlerLocals' /\ CallbackNamesOwnSpeech'
  <2>1. ASSUME NEW h \in Handlers, stage[h] = "call"
        PROVE  ev[h].id \in ServiceIds /\ ev[h].id # n
    <3>1. ev[h].kind \in SpeechKinds /\ at[h] \in Apps /\ owner[ev[h].id] = <<at[h], cid[h]>>
      BY <1>2, <2>1 DEF IndInv, HandlerLocals, ClientsTypeOK, CallbackNamesOwnSpeech
    <3>2. ev[h].id \in ServiceIds
      BY <1>2, <3>1, SpeechEventId DEF ClientsTypeOK
    <3>3. ev[h].id < n
      BY <3>1, <3>2, OwnedIsOld
    <3>4. QED
      BY <1>7, <3>2, <3>3, IdsAreNat
  <2>2. HandlerLocals'
    <3>1. \A b \in Apps : pc'[b] \in {"assign", "add"} =>
            (b = a /\ reply'[b] = n) \/ (pc[b] \in {"assign", "add"} /\ reply'[b] = reply[b])
      BY <1>3
    <3>2. QED
      BY <1>0, <2>1, <3>1 DEF IndInv, HandlerLocals
  <2>3. CallbackNamesOwnSpeech'
    BY <1>0, <1>4, <2>1 DEF IndInv, CallbackNamesOwnSpeech
  <2>4. QED
    BY <2>2, <2>3
<1>15. RequestNamesOwnSpeech'
  <2>1. ASSUME NEW b \in Apps, pc'[b] = "call", op'[b] = "named"
        PROVE  reply'[b] \in ServiceIds /\ owner'[reply'[b]] = <<b, arg'[b]>>
    <3>1. b # a /\ pc[b] = "call" /\ op[b] = "named" /\ reply'[b] = reply[b] /\ arg'[b] = arg[b]
      BY <1>3, <2>1
    <3>2. reply[b] \in ServiceIds /\ owner[reply[b]] = <<b, arg[b]>>
      BY <3>1 DEF IndInv, RequestNamesOwnSpeech
    <3>3. reply[b] # n
      BY <1>7, <3>2, OwnedIsOld, IdsAreNat
    <3>4. QED
      BY <1>4, <3>1, <3>2, <3>3
  <2>2. QED
    BY <2>1 DEF RequestNamesOwnSpeech
<1>16. LastSpeechIsNewest'
  <2>1. ASSUME NEW b \in Apps, last[b] # 0
        PROVE  owner'[last[b]][1] = b /\ \A s \in ServiceIds : owner'[s][1] = b => s <= last[b]
    <3>1. b # a
      BY <1>6, <2>1
    <3>2. last[b] \in ServiceIds /\ owner[last[b]][1] = b /\ \A s \in ServiceIds : owner[s][1] = b => s <= last[b]
      BY <1>2, <2>1 DEF IndInv, LastSpeechIsNewest, ClientsTypeOK
    <3>3. owner[last[b]] # NoOwner
      BY <3>2, ThreadsAssumption DEF NoOwner
    <3>4. last[b] # n
      BY <1>5, <1>7, <3>2, <3>3, IdsAreNat
    <3>5. \A s \in ServiceIds : owner'[s][1] = b => owner[s][1] = b
      BY <1>4, <3>1
    <3>6. QED
      BY <1>4, <3>2, <3>4, <3>5
  <2>2. QED
    BY <1>0, <2>1 DEF LastSpeechIsNewest
<1>17. QED
  BY <1>8, <1>9, <1>10, <1>11, <1>12, <1>13, <1>14, <1>15, <1>16 DEF IndInv

\* m_lastSpeechId gets the id of the answer.
LEMMA AssignKeeps ==
  ASSUME IndInv, NEW a \in Apps, SpeakAssign(a)
  PROVE  IndInv'
<1>0. /\ pc[a] = "assign" /\ last' = [last EXCEPT ![a] = reply[a]] /\ pc' = [pc EXCEPT ![a] = "add"]
      /\ UNCHANGED <<op, arg, reply, serviceVars, enabled, table, session, handlerVars, engineVars, heard>>
  BY DEF SpeakAssign, Goto
<1>1. ClientsTypeOK
  BY DEF IndInv
<1>2. /\ pc'[a] = "add" /\ last'[a] = reply[a]
      /\ \A b \in Apps : b # a => pc'[b] = pc[b] /\ last'[b] = last[b]
  BY <1>0, <1>1 DEF ClientsTypeOK
<1>3. /\ reply[a] \in ServiceIds /\ owner[reply[a]] = <<a, arg[a]>>
      /\ \A s \in ServiceIds : owner[s][1] = a => s <= reply[a]
  BY <1>0 DEF IndInv, SpeakLocals
<1>4. mutex # a
  BY <1>0, NotHolding DEF Inside
<1>5. ClientsTypeOK'
  <2>1. last' \in [Apps -> ServiceIds \cup {0}] /\ pc' \in [Apps -> AppStates]
    BY <1>0, <1>1, <1>3 DEF ClientsTypeOK, AppStates
  <2>2. QED
    BY <1>0, <1>1, <2>1 DEF ClientsTypeOK
<1>6. EntriesOwned' /\ GivenOut' /\ HeardIsGone' /\ EndIsLast' /\ SilentAfterUnregister' /\ CallbackNamesOwnSpeech'
  BY <1>0 DEF IndInv, EntriesOwned, GivenOut, HeardIsGone, EndIsLast, SilentAfterUnregister, CallbackNamesOwnSpeech
<1>7. MutexHeld' /\ RequestNamesOwnSpeech'
  BY <1>0, <1>2, <1>4 DEF IndInv, MutexHeld, RequestNamesOwnSpeech
<1>8. SpeakLocals'
  <2>1. ASSUME NEW b \in Apps
        PROVE  /\ op[b] = "speak" => arg[b] \in ClientIds
               /\ op[b] = "speak" /\ (pc'[b] \in {"init", "call", "wait", "assign"} \/ mutex = b) => last'[b] = 0
    BY <1>2, <1>4 DEF IndInv, SpeakLocals
  <2>2. ASSUME NEW b \in Apps, pc'[b] \in {"assign", "add"}
        PROVE  /\ reply[b] \in ServiceIds /\ owner[reply[b]] = <<b, arg[b]>>
               /\ last'[b] \in {0, reply[b]} /\ reply[b] \notin heard
               /\ \A x \in Apps : reply[b] \notin Tracked(table[x])
               /\ \A s \in ServiceIds : owner[s][1] = b => s <= reply[b]
    <3>1. pc[b] \in {"assign", "add"}
      BY <1>0, <1>2, <2>2
    <3>2. last'[b] \in {0, reply[b]}
      BY <1>2, <3>1 DEF IndInv, SpeakLocals
    <3>3. QED
      BY <3>1, <3>2 DEF IndInv, SpeakLocals
  <2>3. QED
    BY <1>0, <2>1, <2>2 DEF SpeakLocals
<1>9. HandlerLocals'
  <2>1. \A b \in Apps : pc'[b] \in {"assign", "add"} => pc[b] \in {"assign", "add"}
    BY <1>0, <1>2
  <2>2. QED
    BY <1>0, <2>1 DEF IndInv, HandlerLocals
<1>10. LastSpeechIsNewest'
  <2>1. ASSUME NEW b \in Apps, last'[b] # 0
        PROVE  owner[last'[b]][1] = b /\ \A s \in ServiceIds : owner[s][1] = b => s <= last'[b]
    BY <1>2, <1>3, <2>1 DEF IndInv, LastSpeechIsNewest
  <2>2. QED
    BY <1>0, <2>1 DEF LastSpeechIsNewest
<1>11. QED
  BY <1>5, <1>6, <1>7, <1>8, <1>9, <1>10 DEF IndInv

\* The speech is filed under the application's id.
LEMMA FileKeeps ==
  ASSUME IndInv, NEW a \in Apps, SpeakAdd(a)
  PROVE  IndInv'
<1> DEFINE u == Add(table[a], arg[a], last[a])
<1>0. /\ pc[a] = "add" /\ table' = [table EXCEPT ![a] = u] /\ Begin(a, "none", "idle", 0, 0)
      /\ UNCHANGED <<serviceVars, enabled, last, session, handlerVars, engineVars, heard>>
  BY DEF SpeakAdd, Return
<1>1. ClientsTypeOK
  BY DEF IndInv
<1>2. /\ pc'[a] = "idle" /\ op'[a] = "none"
      /\ \A b \in Apps : b # a => pc'[b] = pc[b] /\ op'[b] = op[b] /\ arg'[b] = arg[b] /\ reply'[b] = reply[b]
  BY <1>0, <1>1 DEF ClientsTypeOK, Begin
<1>3. reply[a] \in ServiceIds /\ owner[reply[a]] = <<a, arg[a]>> /\ last[a] \in {0, reply[a]} /\ reply[a] \notin heard
  BY <1>0 DEF IndInv, SpeakLocals
<1>4. arg[a] \in ClientIds
  <2>1. owner[reply[a]] \in (Apps \X ClientIds) \cup {NoOwner}
    BY <1>1, <1>3 DEF ClientsTypeOK
  <2>2. owner[reply[a]] # NoOwner
    BY <1>3, ThreadsAssumption DEF NoOwner
  <2>3. QED
    BY <1>3, <2>1, <2>2
<1>5. table[a] \in Tables /\ last[a] \in ServiceIds \cup {0} /\ mutex # a
  <2>1. mutex # a
    BY <1>0, NotHolding DEF Inside
  <2>2. QED
    BY <1>1, <2>1 DEF ClientsTypeOK
<1>6. /\ u \in Tables /\ Tracked(u) \subseteq Tracked(table[a]) \cup {last[a]}
      /\ \A d \in DOMAIN u : (d \in DOMAIN table[a] /\ u[d] = table[a][d]) \/ (d = arg[a] /\ u[d] = last[a])
  BY <1>4, <1>5, AddedTable
<1> HIDE DEF u
<1>7. table'[a] = u /\ \A b \in Apps : b # a => table'[b] = table[b]
  BY <1>0, <1>1 DEF ClientsTypeOK
<1>8. ClientsTypeOK'
  <2>1. table' \in [Apps -> Tables]
    BY <1>0, <1>1, <1>6 DEF ClientsTypeOK
  <2>2. "none" \in Calls /\ "idle" \in AppStates
    BY DEF Calls, AppStates
  <2>3. /\ pc' \in [Apps -> AppStates] /\ op' \in [Apps -> Calls]
        /\ arg' \in [Apps -> ClientIds \cup {0}] /\ reply' \in [Apps -> Nat]
    BY <1>0, <1>1, <2>2 DEF ClientsTypeOK, Begin
  <2>4. QED
    BY <1>0, <1>1, <2>1, <2>3 DEF ClientsTypeOK
<1>9. EntriesOwned'
  <2>1. ASSUME NEW b \in Apps, NEW c \in DOMAIN table'[b], table'[b][c] # 0
        PROVE  owner[table'[b][c]] = <<b, c>>
    BY <1>3, <1>6, <1>7, <2>1 DEF IndInv, EntriesOwned
  <2>2. QED
    BY <1>0, <2>1 DEF EntriesOwned
<1>10. \A b \in Apps, s \in ServiceIds : s # reply[a] /\ s \in Tracked(table'[b]) => s \in Tracked(table[b])
  BY <1>3, <1>6, <1>7, IdsAreNat
<1>11. HeardIsGone'
  <2>1. ASSUME NEW b \in Apps, NEW s \in Tracked(table'[b]), s \in heard
        PROVE  FALSE
    <3>1. s \in ServiceIds /\ s # reply[a]
      BY <1>1, <1>3, <2>1 DEF ClientsTypeOK
    <3>2. s \in Tracked(table[b])
      BY <1>10, <2>1, <3>1
    <3>3. QED
      BY <2>1, <3>2 DEF IndInv, HeardIsGone
  <2>2. QED
    BY <1>0, <2>1 DEF HeardIsGone
<1>12. GivenOut' /\ EndIsLast' /\ SilentAfterUnregister' /\ CallbackNamesOwnSpeech' /\ LastSpeechIsNewest'
  BY <1>0 DEF IndInv, GivenOut, EndIsLast, SilentAfterUnregister, CallbackNamesOwnSpeech, LastSpeechIsNewest
<1>13. MutexHeld' /\ RequestNamesOwnSpeech'
  <2>1. MutexHeld'
    BY <1>0, <1>2, <1>5 DEF IndInv, MutexHeld
  <2>2. RequestNamesOwnSpeech'
    BY <1>0, <1>2 DEF IndInv, RequestNamesOwnSpeech
  <2>3. QED
    BY <2>1, <2>2
<1>14. SpeakLocals'
  <2>1. ASSUME NEW b \in Apps
        PROVE  /\ op'[b] = "speak" => arg'[b] \in ClientIds
               /\ op'[b] = "speak" /\ (pc'[b] \in {"init", "call", "wait", "assign"} \/ mutex' = b) => last'[b] = 0
    BY <1>0, <1>2 DEF IndInv, SpeakLocals
  <2>2. ASSUME NEW b \in Apps, pc'[b] \in {"assign", "add"}
        PROVE  /\ reply'[b] \in ServiceIds /\ owner'[reply'[b]] = <<b, arg'[b]>>
               /\ last'[b] \in {0, reply'[b]} /\ reply'[b] \notin heard'
               /\ \A x \in Apps : reply'[b] \notin Tracked(table'[x])
               /\ \A s \in ServiceIds : owner'[s][1] = b => s <= reply'[b]
    <3>1. b # a /\ pc[b] \in {"assign", "add"} /\ reply'[b] = reply[b] /\ arg'[b] = arg[b]
      BY <1>2, <2>2
    <3>2. /\ reply[b] \in ServiceIds /\ owner[reply[b]] = <<b, arg[b]>>
          /\ \A x \in Apps : reply[b] \notin Tracked(table[x])
      BY <3>1 DEF IndInv, SpeakLocals
    <3>3. reply[b] # reply[a]
      BY <1>3, <3>1, <3>2
    <3>4. \A x \in Apps : reply[b] \notin Tracked(table'[x])
      BY <1>10, <3>2, <3>3
    <3>5. last[b] \in {0, reply[b]} /\ reply[b] \notin heard /\ \A s \in ServiceIds : owner[s][1] = b => s <= reply[b]
      BY <3>1 DEF IndInv, SpeakLocals
    <3>6. QED
      BY <1>0, <3>1, <3>2, <3>4, <3>5
  <2>3. QED
    BY <2>1, <2>2 DEF SpeakLocals
<1>15. HandlerLocals'
  <2>1. ASSUME NEW h \in Handlers, stage[h] = "call"
        PROVE  /\ ev[h].kind \in SpeechKinds /\ at[h] \in clients
               /\ \A b \in Apps : pc'[b] \in {"assign", "add"} => reply'[b] # ev[h].id
               /\ ev[h].kind \in EndKinds => \A b \in Apps : ev[h].id \notin Tracked(table'[b])
    <3>1. /\ ev[h].kind \in SpeechKinds /\ at[h] \in clients /\ reply[a] # ev[h].id
          /\ \A b \in Apps : pc[b] \in {"assign", "add"} => reply[b] # ev[h].id
          /\ ev[h].kind \in EndKinds => \A b \in Apps : ev[h].id \notin Tracked(table[b])
      BY <1>0, <2>1 DEF IndInv, HandlerLocals
    <3>2. ev[h].id \in ServiceIds
      BY <1>1, <3>1, SpeechEventId DEF ClientsTypeOK
    <3>3. \A b \in Apps : pc'[b] \in {"assign", "add"} => pc[b] \in {"assign", "add"} /\ reply'[b] = reply[b]
      BY <1>2
    <3>4. QED
      BY <1>10, <3>1, <3>2, <3>3
  <2>2. QED
    BY <1>0, <2>1 DEF HandlerLocals
<1>16. QED
  BY <1>8, <1>9, <1>11, <1>12, <1>13, <1>14, <1>15 DEF IndInv

--------------------------------------------------------------------------------
(* The handler threads. *)

\* Only the thread that holds m_mutex is in the loop or in a callback.
LEMMA OneInTheLoop ==
  ASSUME IndInv, NEW h \in Handlers, stage[h] \in {"loop", "call"}
  PROVE  /\ mutex = h /\ \A a \in Apps : mutex # a
         /\ \A g \in Handlers : stage[g] \in {"loop", "call"} \/ todo[g] # {} => g = h
  BY ThreadsAssumption DEF IndInv, MutexHeld

\* A step of handler thread h that is in no callback afterwards, and leaves
\* the tables and what was told alone.
LEMMA HandlerMoves ==
  ASSUME IndInv, NEW h \in Handlers, NEW l \in {"idle", "wait", "loop"}, NEW e \in Events, NEW S \in SUBSET clients,
         stage' = [stage EXCEPT ![h] = l], ev' = [ev EXCEPT ![h] = e], todo' = [todo EXCEPT ![h] = S],
         at' \in [Handlers -> Apps \cup {None}], cid' \in [Handlers -> ClientIds \cup {0}],
         \A g \in Handlers : g # h => at'[g] = at[g] /\ cid'[g] = cid[g],
         UNCHANGED <<active, clients, table, session, appVars, engineVars>>,
         enabled' \in [Apps -> BOOLEAN],
         last' \in [Apps -> ServiceIds \cup {0}], \A b \in Apps : last'[b] \in {0, last[b]},
         heard' = heard \/ (stage[h] = "call" /\ ev[h].kind \in EndKinds /\ heard' = heard \cup {ev[h].id}),
         mutex' = mutex \/ (mutex \in {h, None} /\ mutex' \in {h, None}),
         mutex' = h <=> l = "loop",
         S # {} => l = "loop"
  PROVE  IndInv'
<1>1. ClientsTypeOK
  BY DEF IndInv
<1>2. stage'[h] = l /\ todo'[h] = S /\ \A g \in Handlers : g # h => stage'[g] = stage[g] /\ todo'[g] = todo[g] /\ ev'[g] = ev[g]
  BY <1>1 DEF ClientsTypeOK
<1>3. \A g \in Handlers : stage'[g] = "call" => g # h /\ stage[g] = "call"
  BY <1>2
<1>4. ASSUME NEW s \in heard', s \notin heard
      PROVE  stage[h] = "call" /\ ev[h].kind \in EndKinds /\ s = ev[h].id
  BY <1>4
<1>5. stage[h] = "call" => ev[h].id \in ServiceIds /\ ev[h].id < nextId
  <2>1. ASSUME stage[h] = "call"
        PROVE  ev[h].kind \in SpeechKinds /\ at[h] \in Apps /\ owner[ev[h].id] = <<at[h], cid[h]>>
    BY <1>1, <2>1 DEF IndInv, HandlerLocals, CallbackNamesOwnSpeech, ClientsTypeOK
  <2>2. ASSUME stage[h] = "call"
        PROVE  ev[h].id \in ServiceIds
    BY <1>1, <2>1, <2>2, SpeechEventId DEF ClientsTypeOK
  <2>3. QED
    BY <2>1, <2>2, OwnedIsOld
<1>6. ClientsTypeOK'
  <2>1. /\ stage' \in [Handlers -> {"idle", "wait", "loop", "call"}] /\ ev' \in [Handlers -> Events]
        /\ todo' \in [Handlers -> SUBSET Apps]
    BY <1>1 DEF ClientsTypeOK
  <2>2. heard' \subseteq ServiceIds /\ mutex' \in Apps \cup Handlers \cup {None}
    BY <1>1, <1>5 DEF ClientsTypeOK
  <2>3. QED
    BY <1>1, <2>1, <2>2 DEF ClientsTypeOK
<1>7. EntriesOwned' /\ RequestNamesOwnSpeech'
  BY DEF IndInv, EntriesOwned, RequestNamesOwnSpeech
<1>8. GivenOut'
  <2>1. ASSUME NEW s \in ServiceIds, owner[s] # NoOwner \/ s \in heard'
        PROVE  s < nextId
    BY <1>4, <1>5, <2>1 DEF IndInv, GivenOut
  <2>2. QED
    BY <2>1 DEF GivenOut
<1>9. HeardIsGone'
  <2>1. ASSUME NEW b \in Apps, NEW s \in Tracked(table[b]), s \in heard'
        PROVE  FALSE
    <3>1. s \notin heard
      BY DEF IndInv, HeardIsGone
    <3>2. QED
      BY <1>4, <2>1, <3>1 DEF IndInv, HandlerLocals
  <2>2. QED
    BY <2>1 DEF HeardIsGone
<1>10. MutexHeld'
  <2>1. \A a \in Apps : mutex' = a => mutex = a
    BY ThreadsAssumption
  <2>2. \A g \in Handlers : g # h => (mutex' = g <=> mutex = g)
    BY ThreadsAssumption
  <2>3. \A g \in Handlers : (mutex' = g <=> stage'[g] \in {"loop", "call"}) /\ (todo'[g] # {} => mutex' = g)
    BY <1>2, <2>2 DEF IndInv, MutexHeld
  <2>4. QED
    BY <2>1, <2>3 DEF IndInv, MutexHeld
<1>11. SpeakLocals'
  <2>1. ASSUME NEW b \in Apps
        PROVE  /\ op[b] = "speak" => arg[b] \in ClientIds
               /\ op[b] = "speak" /\ (pc[b] \in {"init", "call", "wait", "assign"} \/ mutex' = b) => last'[b] = 0
    <3>1. mutex' = b => mutex = b
      BY ThreadsAssumption
    <3>2. QED
      BY <3>1 DEF IndInv, SpeakLocals
  <2>2. ASSUME NEW b \in Apps, pc[b] \in {"assign", "add"}
        PROVE  /\ reply[b] \in ServiceIds /\ owner[reply[b]] = <<b, arg[b]>>
               /\ last'[b] \in {0, reply[b]} /\ reply[b] \notin heard'
               /\ \A x \in Apps : reply[b] \notin Tracked(table[x])
               /\ \A s \in ServiceIds : owner[s][1] = b => s <= reply[b]
    <3>1. last'[b] \in {0, last[b]}
      OBVIOUS
    <3>2. reply[b] \notin heard'
      <4>1. reply[b] \notin heard
        BY <2>2 DEF IndInv, SpeakLocals
      <4>2. stage[h] = "call" => reply[b] # ev[h].id
        BY <2>2 DEF IndInv, HandlerLocals
      <4>3. QED
        BY <1>4, <4>1, <4>2
    <3>3. QED
      BY <2>2, <3>1, <3>2 DEF IndInv, SpeakLocals
  <2>3. QED
    BY <2>1, <2>2 DEF SpeakLocals
<1>12. HandlerLocals' /\ CallbackNamesOwnSpeech'
  <2>1. HandlerLocals'
    BY <1>2, <1>3 DEF IndInv, HandlerLocals
  <2>2. CallbackNamesOwnSpeech'
    BY <1>2, <1>3 DEF IndInv, CallbackNamesOwnSpeech
  <2>3. QED
    BY <2>1, <2>2
<1>13. SilentAfterUnregister'
  BY <1>2, <1>3 DEF IndInv, SilentAfterUnregister
<1>14. EndIsLast'
  <2>1. ASSUME NEW g \in Handlers, stage'[g] = "call"
        PROVE  ev'[g].id \notin heard'
    <3>1. g # h /\ stage[g] = "call" /\ ev'[g] = ev[g]
      BY <1>2, <1>3, <2>1
    <3>2. stage[h] # "call"
      BY <3>1, OneInTheLoop
    <3>3. QED
      BY <3>1, <3>2 DEF IndInv, EndIsLast
  <2>2. QED
    BY <2>1 DEF EndIsLast
<1>15. LastSpeechIsNewest'
  BY DEF IndInv, LastSpeechIsNewest
<1>16. QED
  BY <1>6, <1>7, <1>8, <1>9, <1>10, <1>11, <1>12, <1>13, <1>14, <1>15 DEF IndInv

\* The steps that reach no application.
LEMMA LoopKeeps ==
  ASSUME IndInv, NEW h \in Handlers,
         \/ \E e \in Events : Arrive(h, e)
         \/ Enter(h) \/ CallBack(h) \/ Leave(h)
         \/ \E b \in Apps : OnTTSStateChange(h, b)
  PROVE  IndInv'
<1>0. /\ enabled \in [Apps -> BOOLEAN] /\ last \in [Apps -> ServiceIds \cup {0}]
      /\ stage \in [Handlers -> {"idle", "wait", "loop", "call"}] /\ ev \in [Handlers -> Events]
      /\ todo \in [Handlers -> SUBSET Apps] /\ at \in [Handlers -> Apps \cup {None}]
      /\ cid \in [Handlers -> ClientIds \cup {0}]
      /\ \A b \in Apps : last[b] \in {0, last[b]}
  BY DEF IndInv, ClientsTypeOK
<1>1. todo[h] \in SUBSET clients /\ ev[h] \in Events
  BY <1>0 DEF IndInv, SilentAfterUnregister
<1>2. stage[h] \in {"idle", "wait"} => mutex # h /\ todo[h] = {}
  BY DEF IndInv, MutexHeld
<1>3. ev = [ev EXCEPT ![h] = ev[h]] /\ todo = [todo EXCEPT ![h] = todo[h]]
  BY <1>0
<1>4. ASSUME NEW e \in Events, Arrive(h, e)
      PROVE  IndInv'
  <2>1. /\ stage[h] = "idle" /\ stage' = [stage EXCEPT ![h] = "wait"] /\ ev' = [ev EXCEPT ![h] = e]
        /\ UNCHANGED <<serviceVars, clientVars, appVars, todo, at, cid, engineVars, heard>>
    BY <1>4 DEF Arrive
  <2>2. mutex' # h /\ todo[h] = {}
    BY <1>2, <2>1
  <2>3. QED
    BY <1>0, <1>1, <1>3, <2>1, <2>2, HandlerMoves
<1>5. CASE Enter(h)
  <2>1. /\ mutex = None /\ mutex' = h /\ todo' = [todo EXCEPT ![h] = clients] /\ stage' = [stage EXCEPT ![h] = "loop"]
        /\ UNCHANGED <<active, clients, clientVars, appVars, ev, at, cid, engineVars, heard>>
    BY <1>5 DEF Enter, MutexFree
  <2>2. QED
    BY <1>0, <1>1, <1>3, <2>1, HandlerMoves
<1>6. CASE CallBack(h)
  <2>1. /\ stage[h] = "call" /\ stage' = [stage EXCEPT ![h] = "loop"]
        /\ at' = [at EXCEPT ![h] = None] /\ cid' = [cid EXCEPT ![h] = 0]
        /\ UNCHANGED <<serviceVars, clientVars, appVars, ev, todo, engineVars>>
    BY <1>6 DEF CallBack
  <2>2. heard' = heard \/ (stage[h] = "call" /\ ev[h].kind \in EndKinds /\ heard' = heard \cup {ev[h].id})
    <3>1. CASE ev[h].kind \in EndKinds
      BY <1>6, <3>1 DEF CallBack
    <3>2. CASE ev[h].kind \notin EndKinds
      BY <1>6, <3>2 DEF CallBack
    <3>3. QED
      BY <3>1, <3>2
  <2>3. mutex' = h
    BY <2>1, OneInTheLoop
  <2>4. /\ at' \in [Handlers -> Apps \cup {None}] /\ cid' \in [Handlers -> ClientIds \cup {0}]
        /\ \A g \in Handlers : g # h => at'[g] = at[g] /\ cid'[g] = cid[g]
    BY <1>0, <2>1
  <2>5. ev' = [ev EXCEPT ![h] = ev[h]] /\ todo' = [todo EXCEPT ![h] = todo[h]]
    BY <1>3, <2>1
  <2>6. /\ enabled' \in [Apps -> BOOLEAN] /\ last' \in [Apps -> ServiceIds \cup {0}] /\ \A b \in Apps : last'[b] \in {0, last[b]}
        /\ UNCHANGED <<active, clients, table, session, appVars, engineVars>> /\ mutex' = mutex
    BY <1>0, <2>1
  <2>7. stage' = [stage EXCEPT ![h] = "loop"]
    BY <2>1
  <2>8. ev[h] \in Events /\ todo[h] \in SUBSET clients
    BY <1>1
  <2>9. QED
    BY <2>2, <2>3, <2>4, <2>5, <2>6, <2>7, <2>8, HandlerMoves
<1>7. CASE Leave(h)
  <2>1. /\ stage[h] = "loop" /\ todo[h] = {} /\ stage' = [stage EXCEPT ![h] = "idle"] /\ ev' = [ev EXCEPT ![h] = NoEvent]
        /\ mutex' = None
        /\ UNCHANGED <<active, clients, clientVars, appVars, todo, at, cid, engineVars, heard>>
    BY <1>7 DEF Leave
  <2>2. NoEvent \in Events
    BY DEF NoEvent, Events, StateKinds
  <2>3. mutex = h /\ None # h
    BY <2>1, OneInTheLoop, ThreadsAssumption
  <2>4. QED
    BY <1>0, <1>1, <1>3, <2>1, <2>2, <2>3, HandlerMoves
<1>8. ASSUME NEW b \in Apps, OnTTSStateChange(h, b)
      PROVE  IndInv'
  <2>1. /\ stage[h] = "loop" /\ todo' = [todo EXCEPT ![h] = todo[h] \ {b}]
        /\ UNCHANGED <<serviceVars, table, session, appVars, stage, ev, at, cid, engineVars, heard>>
    BY <1>8 DEF OnTTSStateChange, Turn
  <2>2. last' = [last EXCEPT ![b] = 0] /\ enabled' = [enabled EXCEPT ![b] = (ev[h].kind = "enabled")]
    BY <1>8 DEF OnTTSStateChange
  <2>3. last' \in [Apps -> ServiceIds \cup {0}] /\ \A x \in Apps : last'[x] \in {0, last[x]}
    BY <1>0, <2>2
  <2>4. enabled' \in [Apps -> BOOLEAN]
    <3>1. (ev[h].kind = "enabled") \in BOOLEAN
      OBVIOUS
    <3>2. QED
      BY <1>0, <2>2, <3>1
  <2>5. mutex' = h /\ stage' = [stage EXCEPT ![h] = "loop"] /\ todo[h] \ {b} \in SUBSET clients
    BY <1>0, <1>1, <2>1, OneInTheLoop
  <2>6. /\ at' \in [Handlers -> Apps \cup {None}] /\ cid' \in [Handlers -> ClientIds \cup {0}]
        /\ \A g \in Handlers : g # h => at'[g] = at[g] /\ cid'[g] = cid[g]
        /\ ev' = [ev EXCEPT ![h] = ev[h]] /\ heard' = heard /\ mutex' = mutex
        /\ UNCHANGED <<active, clients, table, session, appVars, engineVars>>
    BY <1>0, <1>3, <2>1
  <2>7. QED
    BY <1>1, <2>1, <2>3, <2>4, <2>5, <2>6, HandlerMoves
<1>9. QED
  BY <1>4, <1>5, <1>6, <1>7, <1>8

\* A handler that looks an event's id up: only the client that asked for the
\* speech calls its application, and an end leaves no trace of it in any table.
LEMMA VisitKeeps ==
  ASSUME IndInv, NEW h \in Handlers, NEW b \in Apps, OnSpeechInfo(h, b) \/ OnSpeechEnd(h, b)
  PROVE  IndInv'
<1> DEFINE s == ev[h].id
           c == GetClientId(table[b], s)
           u == RemoveServiceId(table[b], s)
<1>0. ClientsTypeOK
  BY DEF IndInv
<1>1. /\ stage[h] = "loop" /\ b \in todo[h] /\ todo' = [todo EXCEPT ![h] = todo[h] \ {b}]
      /\ ev[h].kind \in SpeechKinds /\ MayCall(h, b)
      /\ UNCHANGED <<serviceVars, enabled, last, session, appVars, ev, engineVars, heard>>
  BY DEF OnSpeechInfo, OnSpeechEnd, Turn, SpeechKinds
<1>2. \/ ev[h].kind \notin EndKinds /\ table' = table
      \/ ev[h].kind \in EndKinds /\ table' = [table EXCEPT ![b] = u]
  BY BackendKindsAssumption DEF OnSpeechInfo, OnSpeechEnd
<1>3. s \in ServiceIds
  BY <1>0, <1>1, SpeechEventId DEF ClientsTypeOK
<1>4. table[b] \in Tables /\ b \in clients /\ mutex = h /\ todo[h] \subseteq clients
  BY <1>0, <1>1, OneInTheLoop DEF ClientsTypeOK, IndInv, SilentAfterUnregister
<1>5. u \in Tables /\ Tracked(u) \subseteq Tracked(table[b]) /\ \A d \in DOMAIN u : d \in DOMAIN table[b] /\ u[d] = table[b][d]
  BY <1>4, RemovedTable
<1>6. /\ c \in ClientIds \cup {0}
      /\ c # 0 => c \in DOMAIN table[b] /\ table[b][c] = s /\ s \in Tracked(table[b])
  BY <1>4, LookUp
<1>7. c # 0 => owner[s] = <<b, c>> /\ s \notin heard
  BY <1>3, <1>6, IdsAreNat DEF IndInv, EntriesOwned, HeardIsGone
<1>8. c # 0 => \A x \in Apps : x # b => s \notin Tracked(table[x])
  BY <1>3, <1>7, TrackedIsOwned, IdsAreNat
<1>9. s \notin Tracked(u)
  <2>1. \A x, y \in Holders(table[b], s) : x = y
    BY <1>3, IdsAreNat DEF Holders, IndInv, EntriesOwned
  <2>2. DOMAIN table[b] \subseteq Nat
    BY <1>4, TableType, IdsAreNat
  <2>3. Holders(u, s) = {}
    BY <2>1, <2>2, RemoveErases
  <2>4. QED
    BY <2>3 DEF Holders, Tracked
<1> HIDE DEF u, c
<1>10. \A x \in Apps : Tracked(table'[x]) \subseteq Tracked(table[x])
  BY <1>0, <1>2, <1>5 DEF ClientsTypeOK
<1>11. \/ UNCHANGED <<stage, at, cid>>
       \/ c # 0 /\ stage' = [stage EXCEPT ![h] = "call"] /\ at' = [at EXCEPT ![h] = b] /\ cid' = [cid EXCEPT ![h] = c]
  BY <1>1 DEF MayCall, c
<1>12. /\ \A g \in Handlers : g # h => stage[g] # "call" /\ stage'[g] # "call"
       /\ stage'[h] = "call" => c # 0 /\ at'[h] = b /\ cid'[h] = c
  BY <1>0, <1>1, <1>11, OneInTheLoop DEF ClientsTypeOK
<1>13. ClientsTypeOK'
  <2>1. table' \in [Apps -> Tables]
    BY <1>0, <1>2, <1>5 DEF ClientsTypeOK
  <2>2. todo' \in [Handlers -> SUBSET Apps]
    BY <1>0, <1>1 DEF ClientsTypeOK
  <2>3. /\ stage' \in [Handlers -> {"idle", "wait", "loop", "call"}] /\ at' \in [Handlers -> Apps \cup {None}]
        /\ cid' \in [Handlers -> ClientIds \cup {0}]
    BY <1>0, <1>6, <1>11 DEF ClientsTypeOK, c
  <2>4. QED
    BY <1>0, <1>1, <2>1, <2>2, <2>3 DEF ClientsTypeOK
<1>14. EntriesOwned'
  <2>1. \A x \in Apps : \A d \in DOMAIN table'[x] : d \in DOMAIN table[x] /\ table'[x][d] = table[x][d]
    BY <1>0, <1>2, <1>5 DEF ClientsTypeOK
  <2>2. QED
    BY <1>1, <2>1 DEF IndInv, EntriesOwned
<1>15. GivenOut' /\ HeardIsGone' /\ RequestNamesOwnSpeech' /\ LastSpeechIsNewest'
  <2>1. HeardIsGone'
    BY <1>1, <1>10 DEF IndInv, HeardIsGone
  <2>2. GivenOut' /\ RequestNamesOwnSpeech' /\ LastSpeechIsNewest'
    BY <1>1 DEF IndInv, GivenOut, RequestNamesOwnSpeech, LastSpeechIsNewest
  <2>3. QED
    BY <2>1, <2>2
<1>16. MutexHeld' /\ SilentAfterUnregister'
  <2>1. /\ \A g \in Handlers : stage'[g] \in {"loop", "call"} <=> stage[g] \in {"loop", "call"}
        /\ \A g \in Handlers : todo'[g] \subseteq todo[g]
    BY <1>0, <1>1, <1>11 DEF ClientsTypeOK
  <2>2. MutexHeld'
    BY <1>1, <2>1 DEF IndInv, MutexHeld
  <2>3. SilentAfterUnregister'
    BY <1>1, <1>4, <1>12, <2>1 DEF IndInv, SilentAfterUnregister
  <2>4. QED
    BY <2>2, <2>3
<1>17. SpeakLocals'
  <2>1. \A x \in Apps : pc[x] \in {"assign", "add"} => \A y \in Apps : reply[x] \notin Tracked(table'[y])
    BY <1>10 DEF IndInv, SpeakLocals
  <2>2. QED
    BY <1>1, <2>1 DEF IndInv, SpeakLocals
<1>18. HandlerLocals'
  <2>1. ASSUME stage'[h] = "call"
        PROVE  /\ \A x \in Apps : pc[x] \in {"assign", "add"} => reply[x] # s
               /\ ev[h].kind \in EndKinds => \A x \in Apps : s \notin Tracked(table'[x])
    <3>1. c # 0
      BY <1>12, <2>1
    <3>2. \A x \in Apps : pc[x] \in {"assign", "add"} => reply[x] # s
      BY <1>6, <3>1 DEF IndInv, SpeakLocals, c
    <3>3. ASSUME ev[h].kind \in EndKinds, NEW x \in Apps
          PROVE  s \notin Tracked(table'[x])
      <4>1. CASE x = b
        <5>1. table'[b] = u
          BY <1>0, <1>2, <3>3 DEF ClientsTypeOK
        <5>2. QED
          BY <1>9, <4>1, <5>1
      <4>2. CASE x # b
        BY <1>8, <1>10, <3>1, <4>2
      <4>3. QED
        BY <4>1, <4>2
    <3>4. QED
      BY <3>2, <3>3
  <2>2. QED
    BY <1>1, <1>4, <1>12, <2>1 DEF HandlerLocals
<1>19. CallbackNamesOwnSpeech' /\ EndIsLast'
  BY <1>1, <1>7, <1>12 DEF CallbackNamesOwnSpeech, EndIsLast
<1>20. QED
  BY <1>13, <1>14, <1>15, <1>16, <1>17, <1>18, <1>19 DEF IndInv

--------------------------------------------------------------------------------
(* The invariant, and the properties. *)

LEMMA IndInvInit == ClientsInit => IndInv
<1> SUFFICES ASSUME ClientsInit
             PROVE  IndInv
  OBVIOUS
<1>0. /\ active = FALSE /\ clients = {} /\ mutex = None
      /\ enabled = [a \in Apps |-> FALSE] /\ last = [a \in Apps |-> 0]
      /\ table = [a \in Apps |-> EmptyMap] /\ session = [a \in Apps |-> FALSE]
      /\ pc = [a \in Apps |-> "out"] /\ op = [a \in Apps |-> "none"]
      /\ arg = [a \in Apps |-> 0] /\ reply = [a \in Apps |-> 0]
      /\ stage = [h \in Handlers |-> "idle"] /\ ev = [h \in Handlers |-> NoEvent]
      /\ todo = [h \in Handlers |-> {}] /\ at = [h \in Handlers |-> None] /\ cid = [h \in Handlers |-> 0]
      /\ nextId = 1 /\ owner = [s \in ServiceIds |-> NoOwner] /\ heard = {}
  BY DEF ClientsInit
<1>1. ClientsTypeOK
  <2>1. pc \in [Apps -> AppStates] /\ op \in [Apps -> Calls]
    BY <1>0 DEF AppStates, Calls
  <2>2. ev \in [Handlers -> Events]
    <3>1. NoEvent \in Events
      BY DEF NoEvent, Events, StateKinds
    <3>2. QED
      BY <1>0, <3>1
  <2>3. table \in [Apps -> Tables]
    BY <1>0, EmptyTable
  <2>4. nextId \in 1..(MaxServiceId + 1)
    BY <1>0, BackendIdsAssumption
  <2>5. QED
    BY <1>0, <2>1, <2>2, <2>3, <2>4 DEF ClientsTypeOK
<1>2. EntriesOwned /\ HeardIsGone
  BY <1>0, EmptyTable DEF EntriesOwned, HeardIsGone
<1>3. GivenOut /\ MutexHeld
  BY <1>0, ThreadsAssumption DEF GivenOut, MutexHeld
<1>4. SpeakLocals /\ HandlerLocals
  BY <1>0 DEF SpeakLocals, HandlerLocals
<1>5. CallbackNamesOwnSpeech /\ EndIsLast /\ RequestNamesOwnSpeech /\ LastSpeechIsNewest /\ SilentAfterUnregister
  BY <1>0 DEF CallbackNamesOwnSpeech, EndIsLast, RequestNamesOwnSpeech, LastSpeechIsNewest, SilentAfterUnregister
<1>6. QED
  BY <1>1, <1>2, <1>3, <1>4, <1>5 DEF IndInv

\* A step of an application thread.
LEMMA AppStepKeeps ==
  ASSUME IndInv, NEW a \in Apps, AppStep(a)
  PROVE  IndInv'
<1>1. CASE \/ Create(a) \/ InitSkip(a) \/ SpeakFails(a) \/ Abort(a) \/ IsSpeaking(a) \/ Configure(a) \/ Delete(a)
           \/ \E o \in {"query", "session"} : Query(a, o)
           \/ \E c \in ClientIds :
                SpeakEnter(a, c) \/ Named(a, "named", c, GetServiceId(table[a], c)) \/ Named(a, "state", c, c)
  BY <1>1, CallsKeep
<1>2. CASE InitBegin(a) \/ (\E l \in Inside : InitStep(a, l)) \/ (\E notify \in BOOLEAN : InitEnd(a, notify))
  BY <1>2, InitializeKeeps
<1>3. CASE Register(a) \/ Unregister(a) \/ QueryReturns(a) \/ DestroySession(a) \/ SpeakReset(a) \/ DestructorEnds(a)
  BY <1>3, ClientMembersKeep
<1>4. CASE SpeakAccepted(a)
  BY <1>4, AcceptedKeeps
<1>5. CASE SpeakAssign(a)
  BY <1>5, AssignKeeps
<1>6. CASE SpeakAdd(a)
  BY <1>6, FileKeeps
<1>7. QED
  BY <1>1, <1>2, <1>3, <1>4, <1>5, <1>6 DEF AppStep

\* An event that arrives is one of Events.
LEMMA EventsArrive ==
  /\ \A k \in SpeechKinds, s \in ServiceIds : [kind |-> k, id |-> s] \in Events
  /\ \A k \in StateKinds : [kind |-> k, id |-> 0] \in Events
  BY DEF Events

LEMMA IndInvStep == IndInv /\ [ClientsNext]_baseVars => IndInv'
<1> SUFFICES ASSUME IndInv, [ClientsNext]_baseVars
             PROVE  IndInv'
  OBVIOUS
<1>1. ASSUME NEW a \in Apps, AppStep(a)
      PROVE  IndInv'
  BY <1>1, AppStepKeeps
<1>2. ASSUME NEW h \in Handlers, Dispatch(h)
      PROVE  IndInv'
  <2>1. CASE Enter(h) \/ CallBack(h) \/ Leave(h) \/ \E b \in Apps : OnTTSStateChange(h, b)
    BY <2>1, LoopKeeps
  <2>2. CASE \E b \in Apps : OnSpeechInfo(h, b) \/ OnSpeechEnd(h, b)
    BY <2>2, VisitKeeps
  <2>3. QED
    BY <1>2, <2>1, <2>2 DEF Dispatch
<1>3. ASSUME NEW h \in Handlers, NEW k \in SpeechKinds, NEW s \in ServiceIds, SpeechEvent(h, k, s)
      PROVE  IndInv'
  <2>1. \E e \in Events : Arrive(h, e)
    BY <1>3, EventsArrive DEF SpeechEvent
  <2>2. QED
    BY <2>1, LoopKeeps
<1>4. ASSUME NEW h \in Handlers, NEW k \in StateKinds, StateEvent(h, k)
      PROVE  IndInv'
  <2>1. \E e \in Events : Arrive(h, e)
    BY <1>4, EventsArrive DEF StateEvent
  <2>2. QED
    BY <2>1, LoopKeeps
<1>5. CASE UNCHANGED baseVars
  BY <1>5 DEF IndInv, ClientsTypeOK, EntriesOwned, GivenOut, HeardIsGone, MutexHeld, SpeakLocals, HandlerLocals,
              CallbackNamesOwnSpeech, EndIsLast, RequestNamesOwnSpeech, LastSpeechIsNewest, SilentAfterUnregister
<1>6. QED
  BY <1>1, <1>2, <1>3, <1>4, <1>5 DEF ClientsNext

\* The conjunction of everything the proofs need to know of a reachable state.
THEOREM ClientsIndInv == ClientsSpec => []IndInv
  BY IndInvInit, IndInvStep, PTL DEF ClientsSpec

\* Every variable keeps its type.
THEOREM ClientsTypeCorrect == ClientsSpec => []ClientsTypeOK
<1>1. IndInv => ClientsTypeOK
  BY DEF IndInv
<1>2. QED
  BY <1>1, ClientsIndInv, PTL

\* However many clients share the events and however many threads deliver
\* them, a session callback is about a speech of its own client and names the
\* id under which that client asked for it.
THEOREM CallbacksNameOwnSpeeches == ClientsSpec => []CallbackNamesOwnSpeech
<1>1. IndInv => CallbackNamesOwnSpeech
  BY DEF IndInv
<1>2. QED
  BY <1>1, ClientsIndInv, PTL

\* After the end of a speech no callback about it follows, in whatever order
\* the threads of a pool take the events.
THEOREM EndsAreLast == ClientsSpec => []EndIsLast
<1>1. IndInv => EndIsLast
  BY DEF IndInv
<1>2. QED
  BY <1>1, ClientsIndInv, PTL

\* pause(), resume() and, over COM-RPC, getSpeechState() never name another
\* client's speech.
THEOREM RequestsNameOwnSpeeches == ClientsSpec => []RequestNamesOwnSpeech
<1>1. IndInv => RequestNamesOwnSpeech
  BY DEF IndInv
<1>2. QED
  BY <1>1, ClientsIndInv, PTL

\* abort() and isSpeaking() are about the newest speech of the client, if any.
THEOREM LastSpeechesAreNewest == ClientsSpec => []LastSpeechIsNewest
<1>1. IndInv => LastSpeechIsNewest
  BY DEF IndInv
<1>2. QED
  BY <1>1, ClientsIndInv, PTL

\* A client that is no longer registered is neither called nor visited.
THEOREM UnregisteredAreSilent == ClientsSpec => []SilentAfterUnregister
<1>1. IndInv => SilentAfterUnregister
  BY DEF IndInv
<1>2. QED
  BY <1>1, ClientsIndInv, PTL

--------------------------------------------------------------------------------
(* The clients implement the lifecycle. *)

\* The thread in a callback is the one Telling finds.
TellsOne ==
  /\ \A h \in Handlers : stage[h] = "call" => Telling = ev[h].id
  /\ (\A h \in Handlers : stage[h] # "call") => Telling = 0

LEMMA TellingIs == IndInv => TellsOne
<1> SUFFICES ASSUME IndInv
             PROVE  TellsOne
  OBVIOUS
<1>1. ASSUME NEW h \in Handlers, stage[h] = "call"
      PROVE  Telling = ev[h].id
  <2>1. \A g \in Handlers : stage[g] = "call" => g = h
    BY <1>1, OneInTheLoop
  <2>2. (CHOOSE g \in Handlers : stage[g] = "call") = h
    BY <1>1, <2>1
  <2>3. QED
    BY <1>1, <2>2 DEF Telling
<1>2. QED
  BY <1>1 DEF TellsOne, Telling

LEMMA TellingIsNext == IndInv' => TellsOne'
  BY TellingIs, PTL

\* What a phase depends on.
LEMMA SamePhase ==
  ASSUME NEW s \in ServiceIds,
         owner'[s] = owner[s],
         \A a \in Apps : Files(a, s)' <=> Files(a, s),
         \A a \in Apps : s \in Tracked(table'[a]) <=> s \in Tracked(table[a]),
         \A h \in Handlers : TellsEnd(h, s)' <=> TellsEnd(h, s)
  PROVE  Phase(s)' = Phase(s)
  BY DEF Phase

\* A speech that is being filed, tracked or told of has an owner, and the three
\* exclude each other.
LEMMA PhasesExclude ==
  ASSUME IndInv, NEW s \in ServiceIds
  PROVE  /\ \A a \in Apps : Files(a, s) =>
              /\ owner[s] # NoOwner
              /\ \A b \in Apps : s \notin Tracked(table[b])
              /\ \A h \in Handlers : ~TellsEnd(h, s)
              /\ \A b \in Apps : Files(b, s) => b = a
         /\ \A a \in Apps : s \in Tracked(table[a]) => owner[s] # NoOwner /\ \A h \in Handlers : ~TellsEnd(h, s)
         /\ \A h \in Handlers : TellsEnd(h, s) => owner[s] # NoOwner
<1>1. ASSUME NEW a \in Apps, Files(a, s)
      PROVE  /\ owner[s] = <<a, arg[a]>> /\ \A b \in Apps : s \notin Tracked(table[b])
             /\ \A h \in Handlers : ~TellsEnd(h, s)
  <2>1. pc[a] \in {"assign", "add"} /\ reply[a] = s
    BY <1>1 DEF Files
  <2>2. owner[s] = <<a, arg[a]>> /\ \A b \in Apps : s \notin Tracked(table[b])
    BY <2>1 DEF IndInv, SpeakLocals
  <2>3. \A h \in Handlers : ~TellsEnd(h, s)
    BY <2>1 DEF IndInv, HandlerLocals, TellsEnd
  <2>4. QED
    BY <2>2, <2>3
<1>2. ASSUME NEW a \in Apps, s \in Tracked(table[a])
      PROVE  owner[s] # NoOwner /\ \A h \in Handlers : ~TellsEnd(h, s)
  <2>1. \E c \in ClientIds : owner[s] = <<a, c>>
    BY <1>2, TrackedIsOwned, IdsAreNat
  <2>2. \A h \in Handlers : ~TellsEnd(h, s)
    BY <1>2 DEF IndInv, HandlerLocals, TellsEnd
  <2>3. QED
    BY <2>1, <2>2, ThreadsAssumption DEF NoOwner
<1>3. ASSUME NEW h \in Handlers, TellsEnd(h, s)
      PROVE  owner[s] # NoOwner
  <2>1. owner[s] = <<at[h], cid[h]>> /\ at[h] \in Apps
    BY <1>3 DEF TellsEnd, IndInv, CallbackNamesOwnSpeech, HandlerLocals, ClientsTypeOK
  <2>2. QED
    BY <2>1, ThreadsAssumption DEF NoOwner
<1>4. QED
  <2>1. ASSUME NEW a \in Apps, Files(a, s)
        PROVE  owner[s] # NoOwner /\ \A b \in Apps : Files(b, s) => b = a
    BY <1>1, <2>1, ThreadsAssumption DEF NoOwner
  <2>2. QED
    BY <1>1, <1>2, <1>3, <2>1

\* The engine accepting a speech is the lifecycle's Accept.
LEMMA AcceptRefines ==
  ASSUME IndInv, NEW a \in Apps, SpeakAccepted(a)
  PROVE  \E n \in ServiceIds : Lifecycle!Accept(n)
<1>0. PICK n \in ServiceIds : n = nextId
  BY DEF SpeakAccepted
<1>1. /\ pc[a] = "wait"
      /\ owner' = [owner EXCEPT ![n] = <<a, arg[a]>>]
      /\ Begin(a, "speak", "assign", arg[a], n)
      /\ UNCHANGED <<clientVars, handlerVars>>
  BY <1>0 DEF SpeakAccepted
<1>2. /\ pc'[a] = "assign" /\ reply'[a] = n
      /\ \A b \in Apps : b # a => pc'[b] = pc[b] /\ reply'[b] = reply[b]
  BY <1>1 DEF IndInv, ClientsTypeOK, Begin
<1>3. owner[n] = NoOwner
  BY <1>0, IdsAreNat DEF IndInv, GivenOut
<1>4. owner'[n] # NoOwner /\ \A s \in ServiceIds : s # n => owner'[s] = owner[s]
  BY <1>1, ThreadsAssumption DEF IndInv, ClientsTypeOK, NoOwner
<1>5. Phase(n) = "unknown" /\ Phase(n)' = "accepted"
  BY <1>1, <1>2, <1>3, <1>4 DEF Phase, Files
<1>6. ASSUME NEW s \in ServiceIds, s # n
      PROVE  Phase(s)' = Phase(s)
  <2>1. \A b \in Apps : Files(b, s)' <=> Files(b, s)
    BY <1>1, <1>2, <1>6 DEF Files
  <2>2. \A h \in Handlers : TellsEnd(h, s)' <=> TellsEnd(h, s)
    BY <1>1 DEF TellsEnd
  <2>3. QED
    BY <1>1, <1>4, <1>6, <2>1, <2>2, SamePhase
<1>7. Telling' = Telling
  BY <1>1 DEF Telling
<1>8. QED
  BY <1>5, <1>6, <1>7 DEF Lifecycle!Accept

\* add() is Track, or Drop if it refuses the entry or files it under id 0.
LEMMA AddRefines ==
  ASSUME IndInv, IndInv', NEW a \in Apps, SpeakAdd(a)
  PROVE  \E r \in ServiceIds : Lifecycle!Track(r) \/ Lifecycle!Drop(r)
<1> DEFINE u == Add(table[a], arg[a], last[a])
<1>1. /\ pc[a] = "add" /\ table' = [table EXCEPT ![a] = u] /\ Begin(a, "none", "idle", 0, 0)
      /\ UNCHANGED <<handlerVars, engineVars>>
  BY DEF SpeakAdd, Return
<1>2. /\ pc'[a] = "idle"
      /\ \A b \in Apps : b # a => pc'[b] = pc[b] /\ reply'[b] = reply[b]
  BY <1>1 DEF IndInv, ClientsTypeOK, Begin
<1>0. reply[a] \in ServiceIds /\ last[a] \in {0, reply[a]}
  BY <1>1 DEF IndInv, SpeakLocals
<1>3. PICK r \in ServiceIds : r = reply[a] /\ Files(a, r) /\ last[a] \in {0, r}
  BY <1>0, <1>1 DEF Files
<1>4. /\ owner[r] # NoOwner /\ \A b \in Apps : Files(b, r) => b = a
      /\ \A b \in Apps : r \notin Tracked(table[b])
      /\ \A h \in Handlers : ~TellsEnd(h, r)
  BY <1>3, PhasesExclude
<1>5. Tracked(u) \in {Tracked(table[a]), Tracked(table[a]) \cup {last[a]}}
  <2>1. CASE arg[a] \in DOMAIN table[a]
    BY <2>1 DEF Add
  <2>2. CASE arg[a] \notin DOMAIN table[a]
    BY <2>2 DEF Add, Tracked
  <2>3. QED
    BY <2>1, <2>2
<1> HIDE DEF u
<1>6. table'[a] = u /\ \A b \in Apps : b # a => table'[b] = table[b]
  BY <1>1 DEF IndInv, ClientsTypeOK
<1>7. \A h \in Handlers, s \in ServiceIds : TellsEnd(h, s)' <=> TellsEnd(h, s)
  BY <1>1 DEF TellsEnd
<1>8. Phase(r) = "accepted"
  BY <1>3, <1>4 DEF Phase
<1>9. Phase(r)' \in {"tracked", "over"}
  <2>1. \A b \in Apps : ~Files(b, r)'
    BY <1>2, <1>4 DEF Files
  <2>2. \A h \in Handlers : ~TellsEnd(h, r)'
    BY <1>3, <1>4, <1>7
  <2>3. QED
    BY <1>1, <1>4, <2>1, <2>2 DEF Phase
<1>10. ASSUME NEW s \in ServiceIds, s # r
       PROVE  Phase(s)' = Phase(s)
  <2>1. \A b \in Apps : Files(b, s)' <=> Files(b, s)
    BY <1>2, <1>3, <1>10 DEF Files
  <2>2. \A b \in Apps : s \in Tracked(table'[b]) <=> s \in Tracked(table[b])
    BY <1>3, <1>5, <1>6, <1>10, IdsAreNat
  <2>3. QED
    BY <1>1, <1>7, <2>1, <2>2, SamePhase
<1>11. Telling' = Telling
  BY <1>1 DEF Telling
<1>12. QED
  BY <1>3, <1>8, <1>9, <1>10, <1>11 DEF Lifecycle!Track, Lifecycle!Drop

\* A handler that visits a client ends the speech, begins to call about it, or
\* does nothing to it, and never touches another.
LEMMA VisitRefines ==
  ASSUME IndInv, IndInv', NEW h \in Handlers, NEW b \in Apps, OnSpeechInfo(h, b) \/ OnSpeechEnd(h, b)
  PROVE  \/ \E i \in ServiceIds : Lifecycle!End(i) \/ Lifecycle!Begin(i)
         \/ UNCHANGED Lifecycle!lifecycleVars
<1>0. PICK i \in ServiceIds : i = ev[h].id
  <2>1. ev[h].kind \in SpeechKinds /\ ev[h] \in Events
    BY DEF OnSpeechInfo, OnSpeechEnd, SpeechKinds, IndInv, ClientsTypeOK
  <2>2. QED
    BY <2>1, SpeechEventId
<1> DEFINE c == GetClientId(table[b], i)
           u == RemoveServiceId(table[b], i)
<1>1. /\ stage[h] = "loop" /\ ev[h].kind \in SpeechKinds /\ MayCall(h, b)
      /\ UNCHANGED <<appVars, ev, engineVars>>
  BY DEF OnSpeechInfo, OnSpeechEnd, Turn, SpeechKinds
<1>2. \/ ev[h].kind \notin EndKinds /\ table' = table
      \/ ev[h].kind \in EndKinds /\ table' = [table EXCEPT ![b] = u]
  BY <1>0, BackendKindsAssumption DEF OnSpeechInfo, OnSpeechEnd
<1>3. ClientsTypeOK /\ table[b] \in Tables
  BY DEF IndInv, ClientsTypeOK
<1>4. i \in ServiceIds /\ ev[h].id = i /\ ev'[h].id = i
  BY <1>0, <1>1
<1>5. c # 0 => i \in Tracked(table[b])
  BY <1>3, LookUp
<1>6. /\ \A g \in Handlers : stage[g] # "call"
      /\ \A g \in Handlers : g # h => stage'[g] # "call"
      /\ stage'[h] \in {"loop", "call"} /\ (stage'[h] = "call" => c # 0)
  BY <1>0, <1>1, <1>3, OneInTheLoop DEF ClientsTypeOK, MayCall
<1>7. \A s \in ServiceIds : s # i => (s \in Tracked(u) <=> s \in Tracked(table[b]))
  <2>1. CASE Holders(table[b], i) = {}
    BY <2>1 DEF RemoveServiceId
  <2>2. CASE Holders(table[b], i) # {}
    <3>1. DOMAIN table[b] \subseteq Nat
      BY <1>3, TableType, IdsAreNat
    <3>2. table[b][c] = i
      BY <2>2, <3>1, GetClientIdIsLeast
    <3>3. u = [d \in DOMAIN table[b] \ {c} |-> table[b][d]]
      BY <2>2 DEF RemoveServiceId
    <3>4. QED
      BY <3>2, <3>3 DEF Tracked
  <2>3. QED
    BY <2>1, <2>2
<1>8. i \notin Tracked(u)
  <2>1. \A x, y \in Holders(table[b], i) : x = y
    BY <1>4, IdsAreNat DEF Holders, IndInv, EntriesOwned
  <2>2. DOMAIN table[b] \subseteq Nat
    BY <1>3, TableType, IdsAreNat
  <2>3. Holders(u, i) = {}
    BY <2>1, <2>2, RemoveErases
  <2>4. QED
    BY <2>3 DEF Holders, Tracked
<1>9. i \in Tracked(table[b]) => \A x \in Apps : x # b => i \notin Tracked(table[x])
  BY <1>4, TrackedIsOwned, IdsAreNat
<1>10. i \notin Tracked(table[b]) => u = table[b]
  BY DEF RemoveServiceId, Holders, Tracked
<1> HIDE DEF u, c
<1>11. \A x \in Apps : table'[x] = IF x = b /\ ev[h].kind \in EndKinds THEN u ELSE table[x]
  BY <1>2, <1>3 DEF ClientsTypeOK
<1>12. \A a \in Apps, s \in ServiceIds : Files(a, s)' <=> Files(a, s)
  BY <1>1 DEF Files
<1>13. \A g \in Handlers, s \in ServiceIds : ~TellsEnd(g, s) /\ (s # i => ~TellsEnd(g, s)')
  BY <1>1, <1>4, <1>6 DEF TellsEnd
<1>14. ASSUME NEW s \in ServiceIds, s # i
       PROVE  Phase(s)' = Phase(s)
  <2>1. \A x \in Apps : s \in Tracked(table'[x]) <=> s \in Tracked(table[x])
    BY <1>7, <1>11, <1>14
  <2>2. QED
    BY <1>1, <1>12, <1>13, <1>14, <2>1, SamePhase
<1>15. Telling = 0 /\ Telling' = IF stage'[h] = "call" THEN i ELSE 0
  <2>1. Telling = 0
    BY <1>6, TellingIs DEF TellsOne
  <2>2. Telling' = IF stage'[h] = "call" THEN i ELSE 0
    BY <1>1, <1>4, <1>6, TellingIsNext DEF TellsOne
  <2>3. QED
    BY <2>1, <2>2
<1>16. CASE i \in Tracked(table[b])
  <2>1. Phase(i) = "tracked"
    <3>1. owner[i] # NoOwner /\ \A a \in Apps : ~Files(a, i)
      BY <1>4, <1>16, PhasesExclude
    <3>2. QED
      BY <1>16, <3>1 DEF Phase
  <2>2. CASE ev[h].kind \in EndKinds
    <3>1. \A x \in Apps : i \notin Tracked(table'[x])
      BY <1>8, <1>9, <1>11, <1>16, <2>2
    <3>2. owner'[i] # NoOwner /\ \A a \in Apps : ~Files(a, i)'
      BY <1>1, <1>4, <1>12, <1>16, PhasesExclude
    <3>3. (\E g \in Handlers : TellsEnd(g, i)') <=> stage'[h] = "call"
      BY <1>1, <1>4, <1>6, <2>2 DEF TellsEnd
    <3>4. Phase(i)' = IF stage'[h] = "call" THEN "ended" ELSE "over"
      BY <3>1, <3>2, <3>3 DEF Phase
    <3>5. QED
      BY <1>4, <1>14, <1>15, <2>1, <3>4 DEF Lifecycle!End
  <2>3. CASE ev[h].kind \notin EndKinds
    <3>1. \A g \in Handlers : TellsEnd(g, i)' <=> TellsEnd(g, i)
      BY <1>1, <1>4, <1>6, <1>13, <2>3 DEF TellsEnd
    <3>2. Phase(i)' = Phase(i)
      BY <1>1, <1>4, <1>11, <1>12, <2>3, <3>1, SamePhase
    <3>3. \A s \in ServiceIds : Phase(s)' = Phase(s)
      BY <1>14, <3>2
    <3>4. QED
      BY <1>4, <1>15, <2>1, <3>3 DEF Lifecycle!Begin, Lifecycle!lifecycleVars
  <2>4. QED
    BY <2>2, <2>3
<1>17. CASE i \notin Tracked(table[b])
  <2>1. stage'[h] # "call"
    BY <1>5, <1>6, <1>17
  <2>2. \A g \in Handlers : TellsEnd(g, i)' <=> TellsEnd(g, i)
    BY <1>4, <1>6, <1>13, <2>1 DEF TellsEnd
  <2>3. Phase(i)' = Phase(i)
    BY <1>1, <1>4, <1>10, <1>11, <1>12, <1>17, <2>2, SamePhase
  <2>4. \A s \in ServiceIds : Phase(s)' = Phase(s)
    BY <1>14, <2>3
  <2>5. QED
    BY <1>15, <2>1, <2>4 DEF Lifecycle!lifecycleVars
<1>18. QED
  BY <1>16, <1>17

\* A session callback returns.
LEMMA CallRefines ==
  ASSUME IndInv, IndInv', NEW h \in Handlers, CallBack(h)
  PROVE  \E i \in ServiceIds : Lifecycle!Finish(i)
<1>1. /\ stage[h] = "call" /\ stage' = [stage EXCEPT ![h] = "loop"]
      /\ UNCHANGED <<clientVars, appVars, ev, engineVars>>
  BY DEF CallBack
<1>2. stage'[h] = "loop" /\ \A g \in Handlers : stage[g] # "call" \/ g = h
  BY <1>1, OneInTheLoop DEF IndInv, ClientsTypeOK
<1>3. \A g \in Handlers : stage'[g] # "call"
  BY <1>1, <1>2 DEF IndInv, ClientsTypeOK
<1>4. PICK i \in ServiceIds : i = ev[h].id
  <2>1. ev[h].kind \in SpeechKinds /\ ev[h] \in Events
    BY <1>1 DEF IndInv, HandlerLocals, ClientsTypeOK
  <2>2. QED
    BY <2>1, SpeechEventId
<1>5. Telling = i /\ Telling' = 0
  BY <1>1, <1>3, <1>4, TellingIs, TellingIsNext DEF TellsOne
<1>6. \A a \in Apps, s \in ServiceIds : Files(a, s)' <=> Files(a, s)
  BY <1>1 DEF Files
<1>7. \A g \in Handlers, s \in ServiceIds : ~TellsEnd(g, s)'
  BY <1>3 DEF TellsEnd
<1>8. ASSUME NEW s \in ServiceIds, s # i
      PROVE  Phase(s)' = Phase(s)
  <2>1. \A g \in Handlers : ~TellsEnd(g, s)
    BY <1>2, <1>4, <1>8 DEF TellsEnd
  <2>2. QED
    BY <1>1, <1>6, <1>7, <2>1, SamePhase
<1>9. Phase(i)' = IF Phase(i) = "ended" THEN "over" ELSE Phase(i)
  <2>1. ~(\E g \in Handlers : TellsEnd(g, i)') /\ owner'[i] = owner[i]
    BY <1>1, <1>7
  <2>2. \A a \in Apps : Tracked(table'[a]) = Tracked(table[a])
    BY <1>1
  <2>3. QED
    BY <1>6, <2>1, <2>2 DEF Phase
<1>10. QED
  BY <1>4, <1>5, <1>8, <1>9 DEF Lifecycle!Finish

\* Application threads touch the lifecycle only when a speech is accepted and
\* when it is filed.
LEMMA AppStutters ==
  ASSUME IndInv, NEW a \in Apps, AppStep(a), ~SpeakAccepted(a), ~SpeakAdd(a)
  PROVE  UNCHANGED Lifecycle!lifecycleVars
<1>1. UNCHANGED <<table, handlerVars, engineVars>>
  BY DEF AppStep, Create, InitSkip, InitBegin, InitStep, InitEnd, Register, Query, QueryReturns, DestroySession,
         SpeakEnter, Named, SpeakReset, SpeakFails, SpeakAssign, Abort, IsSpeaking, Configure, Delete, Unregister,
         DestructorEnds
<1>2. \/ pc[a] \notin {"assign", "add"} /\ pc'[a] \notin {"assign", "add"}
      \/ pc[a] \in {"assign", "add"} /\ pc'[a] \in {"assign", "add"} /\ reply'[a] = reply[a]
  <2> USE DEF IndInv, ClientsTypeOK, Begin, Goto, Return, Inside, Checked
  <2>1. CASE \/ Create(a) \/ InitBegin(a) \/ Register(a) \/ QueryReturns(a) \/ DestroySession(a)
             \/ SpeakReset(a) \/ SpeakFails(a) \/ Abort(a) \/ IsSpeaking(a) \/ Configure(a)
             \/ Delete(a) \/ Unregister(a) \/ DestructorEnds(a)
    BY <2>1 DEF Create, InitBegin, Register, QueryReturns, DestroySession, SpeakReset, SpeakFails, Abort,
                IsSpeaking, Configure, Delete, Unregister, DestructorEnds
  <2>2. CASE InitSkip(a) \/ \E notify \in BOOLEAN : InitEnd(a, notify)
    <3>1. GoOn(a) /\ pc[a] \notin {"assign", "add"}
      BY <2>2 DEF InitSkip, InitEnd
    <3>2. QED
      BY <3>1 DEF GoOn
  <2>3. CASE \E l \in Inside : InitStep(a, l)
    BY <2>3 DEF InitStep
  <2>4. CASE \/ \E o \in {"query", "session"} : Query(a, o)
             \/ \E c \in ClientIds :
                  SpeakEnter(a, c) \/ Named(a, "named", c, GetServiceId(table[a], c)) \/ Named(a, "state", c, c)
    BY <2>4 DEF Query, SpeakEnter, Named
  <2>5. CASE SpeakAssign(a)
    BY <2>5 DEF SpeakAssign
  <2>6. QED
    BY <2>1, <2>2, <2>3, <2>4, <2>5 DEF AppStep
<1>3. \A b \in Apps : b # a => pc'[b] = pc[b] /\ reply'[b] = reply[b]
  <2>1. \/ pc' = pc /\ reply' = reply
        \/ \E p : pc' = [pc EXCEPT ![a] = p] /\ (reply' = reply \/ \E r : reply' = [reply EXCEPT ![a] = r])
    BY DEF AppStep, Create, InitSkip, InitBegin, InitStep, InitEnd, Register, Query, QueryReturns, DestroySession,
           SpeakEnter, Named, SpeakReset, SpeakFails, SpeakAssign, Abort, IsSpeaking, Configure, Delete, Unregister,
           DestructorEnds, GoOn, Goto, Return, Begin
  <2>2. QED
    BY <2>1 DEF IndInv, ClientsTypeOK
<1>4. ASSUME NEW s \in ServiceIds
      PROVE  Phase(s)' = Phase(s)
  <2>1. \A b \in Apps : Files(b, s)' <=> Files(b, s)
    BY <1>2, <1>3 DEF Files
  <2>2. \A g \in Handlers : TellsEnd(g, s)' <=> TellsEnd(g, s)
    BY <1>1 DEF TellsEnd
  <2>3. QED
    BY <1>1, <2>1, <2>2, SamePhase
<1>5. Telling' = Telling
  BY <1>1 DEF Telling
<1>6. QED
  BY <1>4, <1>5 DEF Lifecycle!lifecycleVars

\* So do the steps of a handler thread that reach no session callback.
LEMMA LoopStutters ==
  ASSUME IndInv, IndInv', NEW h \in Handlers,
         (\E e \in Events : Arrive(h, e)) \/ Enter(h) \/ Leave(h) \/ \E b \in Apps : OnTTSStateChange(h, b)
  PROVE  UNCHANGED Lifecycle!lifecycleVars
<1>1. /\ UNCHANGED <<table, appVars, engineVars>>
      /\ stage[h] # "call" /\ stage'[h] # "call"
      /\ \A g \in Handlers : g # h => stage'[g] = stage[g] /\ ev'[g] = ev[g]
  BY DEF Arrive, Enter, Leave, OnTTSStateChange, Turn, IndInv, ClientsTypeOK
<1>2. ASSUME NEW s \in ServiceIds
      PROVE  Phase(s)' = Phase(s)
  <2>1. \A b \in Apps : Files(b, s)' <=> Files(b, s)
    BY <1>1 DEF Files
  <2>2. \A g \in Handlers : TellsEnd(g, s)' <=> TellsEnd(g, s)
    BY <1>1 DEF TellsEnd
  <2>3. QED
    BY <1>1, <2>1, <2>2, SamePhase
<1>3. Telling' = Telling
  <2>1. TellsOne /\ TellsOne'
    BY TellingIs, TellingIsNext
  <2>2. QED
    BY <1>1, <2>1 DEF TellsOne
<1>4. QED
  BY <1>2, <1>3 DEF Lifecycle!lifecycleVars

LEMMA StepRefines ==
  IndInv /\ IndInv' /\ [ClientsNext]_baseVars => [Lifecycle!Next]_Lifecycle!lifecycleVars
<1> SUFFICES ASSUME IndInv, IndInv', [ClientsNext]_baseVars
             PROVE  [Lifecycle!Next]_Lifecycle!lifecycleVars
  OBVIOUS
<1>1. ASSUME NEW a \in Apps, AppStep(a)
      PROVE  [Lifecycle!Next]_Lifecycle!lifecycleVars
  <2>1. CASE SpeakAccepted(a)
    BY <2>1, AcceptRefines DEF Lifecycle!Next
  <2>2. CASE SpeakAdd(a)
    BY <2>2, AddRefines DEF Lifecycle!Next
  <2>3. CASE ~SpeakAccepted(a) /\ ~SpeakAdd(a)
    BY <1>1, <2>3, AppStutters
  <2>4. QED
    BY <2>1, <2>2, <2>3
<1>2. ASSUME NEW h \in Handlers, Dispatch(h)
      PROVE  [Lifecycle!Next]_Lifecycle!lifecycleVars
  <2>1. CASE Enter(h) \/ Leave(h) \/ \E b \in Apps : OnTTSStateChange(h, b)
    BY <2>1, LoopStutters
  <2>2. CASE CallBack(h)
    BY <2>2, CallRefines DEF Lifecycle!Next
  <2>3. ASSUME NEW b \in Apps, OnSpeechInfo(h, b) \/ OnSpeechEnd(h, b)
        PROVE  [Lifecycle!Next]_Lifecycle!lifecycleVars
    BY <2>3, VisitRefines DEF Lifecycle!Next
  <2>4. QED
    BY <1>2, <2>1, <2>2, <2>3 DEF Dispatch
<1>3. ASSUME NEW h \in Handlers, \/ \E k \in SpeechKinds, s \in ServiceIds : SpeechEvent(h, k, s)
                                 \/ \E k \in StateKinds : StateEvent(h, k)
      PROVE  [Lifecycle!Next]_Lifecycle!lifecycleVars
  <2>1. \E e \in Events : Arrive(h, e)
    BY <1>3, EventsArrive DEF SpeechEvent, StateEvent
  <2>2. QED
    BY <2>1, LoopStutters
<1>4. CASE UNCHANGED baseVars
  <2>1. Telling' = Telling /\ \A s \in ServiceIds : Phase(s)' = Phase(s)
    BY <1>4 DEF Telling, Phase, Files, TellsEnd
  <2>2. QED
    BY <2>1 DEF Lifecycle!lifecycleVars
<1>5. QED
  BY <1>1, <1>2, <1>3, <1>4 DEF ClientsNext

\* The clients of both services implement SpeechLifecycle: however many there
\* are and however many threads deliver the events, each speech is tracked by
\* one client at most, ends once, and is told of by one callback at a time.
THEOREM ClientsImplementLifecycle == ClientsSpec => ImplementsLifecycle
<1>1. ClientsInit => Lifecycle!Init
  <2> SUFFICES ASSUME ClientsInit
               PROVE  Lifecycle!Init
    OBVIOUS
  <2>1. owner = [s \in ServiceIds |-> NoOwner] /\ stage = [h \in Handlers |-> "idle"]
    BY DEF ClientsInit
  <2>2. Telling = 0 /\ \A s \in ServiceIds : Phase(s) = "unknown"
    BY <2>1 DEF Telling, Phase
  <2>3. QED
    BY <2>2 DEF Lifecycle!Init
<1>2. QED
  BY <1>1, StepRefines, ClientsIndInv, PTL DEF ClientsSpec, ImplementsLifecycle, Lifecycle!Spec
================================================================================
