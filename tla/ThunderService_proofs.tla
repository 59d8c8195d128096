-------------------------- MODULE ThunderService_proofs --------------------------
(***************************************************************************)
(* ThunderService for any number of application threads and any bounds:    *)
(* the types, who holds m_mutex, and the account of the remote objects.    *)
(***************************************************************************)
EXTENDS ThunderService, TLAPS

USE DEF vars, members, plugin, history

\* The places a thread may be at, whichever it is.
Places == AppStates \cup WrkStates \cup CtlStates
USE DEF Places

LEMMA ThreadsDiffer ==
  /\ "wrk" \notin Apps /\ "ctl" \notin Apps /\ "none" \notin Threads
  /\ "wrk" \in Threads /\ "ctl" \in Threads /\ Apps \subseteq Threads
BY AppsAssumption DEF Threads

LEMMA IndInvInit == Init => IndInv
<1> SUFFICES ASSUME Init
             PROVE  IndInv
  OBVIOUS
<1>1. pc \in [Threads -> Places] /\ answer \in [Threads -> Replies]
  BY DEF Init, AppStates, Replies
<1>2. \A t \in Threads : pc[t] = "out"
  BY DEF Init
<1>3. TypeOK
  <2>1. active \in BOOLEAN /\ querySuccess \in BOOLEAN /\ initd \in BOOLEAN /\ flag \in BOOLEAN
    BY DEF Init
  <2>2. remote = 0 /\ lastRemote = 0 /\ registered = {} /\ clients = {} /\ subs = {}
    BY DEF Init
  <2>3. tasks \in Seq({"install", "activate"}) /\ wire \in Seq({"Activated", "Deactivated"})
    BY DEF Init
  <2>4. (\A a \in Apps : pc[a] \in AppStates) /\ pc["wrk"] \in WrkStates /\ pc["ctl"] \in CtlStates
    BY <1>2, ThreadsDiffer DEF AppStates, WrkStates, CtlStates
  <2>5. told \in [Apps -> {"nothing", "connected", "closed"}] /\ mutex = "none"
    BY DEF Init
  <2>6. tries \in 0..(MaxPolls + InstallAttempts) /\ changes \in 0..MaxChanges /\ failures \in 0..MaxFailures
    BY BoundsAssumption DEF Init, InstallAttempts
  <2>7. up \in BOOLEAN /\ watching \in BOOLEAN /\ crashed \in BOOLEAN
    BY DEF Init
  <2>8. QED
    BY <1>1, <2>1, <2>2, <2>3, <2>4, <2>5, <2>6, <2>7 DEF TypeOK
<1>4. LockHeld
  BY <1>2, ThreadsDiffer DEF Init, LockHeld, Locked
<1>5. RemotesCounted
  BY <1>2, ThreadsDiffer DEF Init, RemotesCounted, Dropping
<1>6. TriesBounded
  BY <1>2, ThreadsDiffer DEF Init, TriesBounded
<1>7. QED
  BY <1>1, <1>3, <1>4, <1>5, <1>6 DEF IndInv

\* What isActive() stores is of the right type, and it stores nothing else.
LEMMA IsActiveTypes ==
  ASSUME NEW t \in Threads, NEW v \in BOOLEAN, TypeOK, IsActive(t, v)
  PROVE  active' \in BOOLEAN /\ querySuccess' \in BOOLEAN /\ answer' \in [Threads -> Replies]
<1>1. CASE answer[t] # "none"
  <2>1. querySuccess' \in BOOLEAN
    BY <1>1 DEF IsActive
  <2>2. active' \in BOOLEAN
    BY <1>1 DEF IsActive
  <2>3. answer' \in [Threads -> Replies]
    BY <1>1 DEF IsActive, TypeOK, Replies
  <2>4. QED
    BY <2>1, <2>2, <2>3
<1>2. CASE answer[t] = "none"
  BY <1>2 DEF IsActive, TypeOK
<1>3. QED
  BY <1>1, <1>2

\* The parts of TypeOK, and of IndInv: where the threads are, and the rest.
PcTypes ==
  /\ pc \in [Threads -> Places]
  /\ \A a \in Apps : pc[a] \in AppStates
  /\ pc["wrk"] \in WrkStates /\ pc["ctl"] \in CtlStates

MemberTypes ==
  /\ active \in BOOLEAN /\ querySuccess \in BOOLEAN /\ initd \in BOOLEAN /\ flag \in BOOLEAN
  /\ registered \subseteq {"state", "speech"} /\ clients \subseteq Apps
  /\ mutex \in Threads \cup {"none"} /\ answer \in [Threads -> Replies]
  /\ told \in [Apps -> {"nothing", "connected", "closed"}]
  /\ tasks \in Seq({"install", "activate"}) /\ tries \in 0..(MaxPolls + InstallAttempts)

PluginTypes ==
  /\ remote \in Remotes \cup {0} /\ lastRemote \in Remotes \cup {0}
  /\ up \in BOOLEAN /\ watching \in BOOLEAN /\ crashed \in BOOLEAN
  /\ subs \subseteq {"state", "speech"} \X Remotes
  /\ wire \in Seq({"Activated", "Deactivated"})
  /\ changes \in 0..MaxChanges /\ failures \in 0..MaxFailures

LEMMA IndInvParts ==
  /\ IndInv <=> PcTypes /\ MemberTypes /\ PluginTypes /\ LockHeld /\ RemotesCounted /\ TriesBounded
  /\ IndInv' <=> PcTypes' /\ MemberTypes' /\ PluginTypes' /\ LockHeld' /\ RemotesCounted' /\ TriesBounded'
BY DEF IndInv, TypeOK, PcTypes, MemberTypes, PluginTypes

\* A thread goes on at l and the others stay.
LEMMA OthersStay ==
  ASSUME NEW t \in Threads, NEW l, PcTypes, Goto(t, l)
  PROVE  pc'[t] = l /\ \A u \in Threads : u # t => pc'[u] = pc[u]
BY DEF PcTypes, Goto

\* What a move of an application thread or the worker keeps if m_mutex
\* changes hands where it enters or leaves initialize().
LEMMA MoveKeeps ==
  ASSUME IndInv, NEW t \in Apps \cup {"wrk"}, NEW l, Goto(t, l),
         t \in Apps => l \in AppStates /\ tries' = tries,
         t = "wrk" => l \in WrkStates \ {"install", "poll"},
         UNCHANGED <<remote, lastRemote, wire, changes>>,
         l \in Locked /\ pc[t] \notin Locked => mutex = "none",
         mutex' = IF l \in Locked THEN t ELSE IF pc[t] \in Locked THEN "none" ELSE mutex
  PROVE  PcTypes' /\ LockHeld' /\ RemotesCounted' /\ TriesBounded'
<1>1. t \in Threads /\ t # "ctl" /\ PcTypes
  BY IndInvParts, ThreadsDiffer
<1>2. pc'[t] = l /\ \A u \in Threads : u # t => pc'[u] = pc[u]
  BY <1>1, OthersStay
<1>3. PcTypes'
  BY <1>1, <1>2, ThreadsDiffer DEF PcTypes, Goto, AppStates, WrkStates
<1>4. LockHeld'
  <2>1. \A u \in Threads : mutex = u <=> pc[u] \in Locked
    BY DEF IndInv, LockHeld
  <2>2. SUFFICES ASSUME NEW u \in Threads
                 PROVE  mutex' = u <=> pc'[u] \in Locked
    BY DEF LockHeld
  <2>3. CASE u = t
    BY <1>1, <1>2, <2>1, <2>3, ThreadsDiffer
  <2>4. CASE u # t
    BY <1>1, <1>2, <2>1, <2>4, ThreadsDiffer
  <2>5. QED
    BY <2>3, <2>4
<1>5. RemotesCounted'
  <2>1. pc'["ctl"] = pc["ctl"]
    BY <1>1, <1>2, ThreadsDiffer
  <2>2. QED
    BY <2>1 DEF IndInv, RemotesCounted, Dropping
<1>6. TriesBounded'
  BY <1>1, <1>2, ThreadsDiffer DEF IndInv, TriesBounded
<1>7. QED
  BY <1>3, <1>4, <1>5, <1>6

--------------------------------------------------------------------------------
(* TextToSpeechService::initialize() and subscribe(), on any thread.        *)

\* The object made here is counted where the dropped one was.
LEMMA MakeFits ==
  ASSUME NEW t \in Threads, IndInv, Make(t)
  PROVE  RemotesCounted' /\ remote' \in Remotes \cup {0} /\ lastRemote' \in Remotes \cup {0}
<1>1. pc'["ctl"] \in {"uninit", "unsubscribe"} <=> pc["ctl"] \in {"uninit", "unsubscribe"}
  BY ThreadsDiffer DEF Make, Goto, IndInv, TypeOK, CtlStates
<1>2. Dropping \in Nat /\ Dropping' = Dropping
  BY <1>1 DEF Make, Dropping, IndInv, TypeOK
<1>3. changes \in 0..MaxChanges /\ lastRemote \in 0..(MaxChanges + 1) /\ changes' = changes
  BY BoundsAssumption DEF Make, IndInv, TypeOK, Remotes
<1>4. CASE active /\ remote = 0
  <2>1. lastRemote' = lastRemote + 1 /\ remote' = lastRemote + 1
    BY <1>4 DEF Make
  <2>2. lastRemote + 1 + Dropping <= changes + 1
    BY <1>4 DEF IndInv, RemotesCounted
  <2>3. lastRemote + 1 \in Remotes
    BY <1>2, <1>3, <2>2, BoundsAssumption DEF Remotes
  <2>4. remote' # 0
    BY <1>3, <2>1
  <2>5. QED
    BY <1>2, <1>3, <2>1, <2>2, <2>3, <2>4 DEF RemotesCounted
<1>5. CASE ~(active /\ remote = 0)
  BY <1>2, <1>3, <1>5 DEF Make, IndInv, TypeOK, RemotesCounted
<1>6. QED
  BY <1>4, <1>5

LEMMA AskKeeps == ASSUME NEW t \in Threads, IndInv, Ask(t) PROVE IndInv'
<1> USE IndInvParts
<1>1. UNCHANGED <<members, clients, mutex, tasks, pc, tries, told, plugin, history>>
  BY DEF Ask
<1>2. PcTypes' /\ LockHeld' /\ RemotesCounted' /\ TriesBounded'
  BY <1>1 DEF PcTypes, LockHeld, RemotesCounted, Dropping, TriesBounded
<1>3. answer' \in [Threads -> Replies]
  BY DEF Ask, MemberTypes, Replies
<1>4. failures' \in 0..MaxFailures
  BY BoundsAssumption DEF Ask, CallFails, PluginTypes
<1>5. MemberTypes' /\ PluginTypes'
  BY <1>1, <1>3, <1>4 DEF MemberTypes, PluginTypes
<1>6. QED
  BY <1>2, <1>5

\* subscribe() keeps thread t inside or outside of initialize().
LEMMA SubscribeKeeps ==
  ASSUME NEW t \in Apps \cup {"wrk"}, IndInv, SubscribeCheck(t) \/ SubscribeCall(t) \/ SubscribePush(t)
  PROVE  IndInv'
<1> USE IndInvParts, ThreadsDiffer
<1> USE DEF SubscribeAt, CallAt, PushAt, NextOf, AfterSub
<1>1. /\ t \in Threads /\ PcTypes /\ (mutex = t <=> pc[t] \in Locked)
      /\ t \in Apps => pc[t] \in AppStates
      /\ t = "wrk" => pc[t] \in WrkStates
  BY DEF LockHeld, PcTypes
<1>2. PICK l \in {"initDone", "initCall", "initPush", "invoke", "subCall", "subPush"} :
        /\ Goto(t, l)
        /\ pc[t] \in Locked <=> l \in Locked
        /\ pc[t] \in {"initCheck", "initCall", "initPush", "sub", "subCall", "subPush"}
  <2>1. CASE SubscribeCheck(t)
    BY <2>1 DEF SubscribeCheck, Locked
  <2>2. CASE SubscribeCall(t)
    BY <2>2 DEF SubscribeCall, Locked
  <2>3. CASE SubscribePush(t)
    BY <2>3 DEF SubscribePush, Locked
  <2>4. QED
    BY <2>1, <2>2, <2>3
<1>3. /\ t \in Apps => l \in AppStates
      /\ t = "wrk" => l \in WrkStates \ {"install", "poll"}
  BY <1>1, <1>2 DEF AppStates, WrkStates, Locked
<1>4. UNCHANGED <<remote, lastRemote, wire, changes, mutex, tries, active, querySuccess, initd, flag, clients, tasks,
                  answer, told, up, watching>>
  BY DEF SubscribeCheck, SubscribeCall, SubscribePush
<1>5. PcTypes' /\ LockHeld' /\ RemotesCounted' /\ TriesBounded'
  BY <1>1, <1>2, <1>3, <1>4, MoveKeeps
<1>6. registered' \subseteq {"state", "speech"}
  BY DEF SubscribeCheck, SubscribeCall, SubscribePush, MemberTypes
<1>7. crashed' \in BOOLEAN
  BY DEF SubscribeCheck, SubscribeCall, SubscribePush, Deref, PluginTypes
<1>8. failures' \in 0..MaxFailures
  BY BoundsAssumption DEF SubscribeCheck, SubscribeCall, SubscribePush, CallFails, PluginTypes
<1>9. subs' \subseteq {"state", "speech"} \X Remotes
  BY DEF SubscribeCheck, SubscribeCall, SubscribePush, PluginTypes
<1>10. MemberTypes' /\ PluginTypes'
  BY <1>4, <1>6, <1>7, <1>8, <1>9 DEF MemberTypes, PluginTypes
<1>11. QED
  BY <1>5, <1>10

LEMMA InitStepKeeps ==
  ASSUME NEW t \in Apps \cup {"wrk"}, IndInv, InitStep(t)
  PROVE  IndInv'
<1> USE IndInvParts, ThreadsDiffer
<1>1. /\ t \in Threads /\ PcTypes /\ (mutex = t <=> pc[t] \in Locked)
      /\ t \in Apps => pc[t] \in AppStates
      /\ t = "wrk" => pc[t] \in WrkStates
  BY DEF LockHeld, PcTypes
<1>2. AfterInit(t) \notin Locked /\ (t \in Apps => AfterInit(t) \in AppStates)
      /\ (t = "wrk" => AfterInit(t) \in WrkStates \ {"install", "poll"})
  BY DEF AfterInit, Locked, AppStates, WrkStates
<1>3. Locked \subseteq AppStates /\ Locked \subseteq WrkStates \ {"install", "poll"}
  BY DEF Locked, AppStates, WrkStates
<1>4. CASE InitEnter(t)
  <2>1. PICK l \in {AfterInit(t), "initActive"} :
          /\ Goto(t, l) /\ mutex = "none" /\ pc[t] = "init"
          /\ mutex' = IF l \in Locked THEN t ELSE mutex
    BY <1>2, <1>4 DEF InitEnter, Locked
  <2>2. PcTypes' /\ LockHeld' /\ RemotesCounted' /\ TriesBounded'
    BY <1>1, <1>2, <1>3, <1>4, <2>1, MoveKeeps DEF InitEnter, Locked
  <2>3. MemberTypes' /\ PluginTypes'
    BY <1>1, <1>4 DEF InitEnter, MemberTypes, PluginTypes
  <2>4. QED
    BY <2>2, <2>3
<1>5. CASE InitActive(t) \/ InitForce(t) \/ InitSub(t)
  <2>1. PICK l \in Locked, v \in BOOLEAN : Goto(t, l) /\ IsActive(t, v) /\ pc[t] \in Locked
    BY <1>5 DEF InitActive, InitForce, InitSub, Locked
  <2>2. UNCHANGED <<remote, initd, flag, registered, clients, mutex, tasks, tries, told, plugin, failures, history>>
    BY <1>5 DEF InitActive, InitForce, InitSub
  <2>3. PcTypes' /\ LockHeld' /\ RemotesCounted' /\ TriesBounded'
    BY <1>1, <1>3, <2>1, <2>2, MoveKeeps
  <2>4. active' \in BOOLEAN /\ querySuccess' \in BOOLEAN /\ answer' \in [Threads -> Replies]
    BY <1>1, <2>1, IsActiveTypes DEF IndInv
  <2>5. MemberTypes' /\ PluginTypes'
    BY <2>2, <2>4 DEF MemberTypes, PluginTypes
  <2>6. QED
    BY <2>3, <2>5
<1>6. CASE Make(t)
  <2>1. Goto(t, "initSub") /\ "initSub" \in Locked /\ pc[t] \in Locked
    BY <1>6 DEF Make, Locked
  <2>2. pc'[t] = "initSub" /\ \A u \in Threads : u # t => pc'[u] = pc[u]
    BY <1>1, <2>1, OthersStay
  <2>3. PcTypes'
    BY <1>1, <1>3, <2>1, <2>2 DEF PcTypes, Goto
  <2>4. LockHeld'
    BY <1>6, <2>1, <2>2 DEF Make, LockHeld
  <2>5. TriesBounded'
    BY <1>6, <2>2 DEF Make, TriesBounded
  <2>6. RemotesCounted' /\ remote' \in Remotes \cup {0} /\ lastRemote' \in Remotes \cup {0}
    BY <1>1, <1>6, MakeFits
  <2>7. MemberTypes' /\ PluginTypes'
    BY <1>6, <2>6 DEF Make, MemberTypes, PluginTypes
  <2>8. QED
    BY <2>3, <2>4, <2>5, <2>6, <2>7
<1>7. CASE InitDone(t)
  <2>1. Goto(t, AfterInit(t)) /\ pc[t] \in Locked /\ mutex' = "none"
    BY <1>7 DEF InitDone, Locked
  <2>2. PcTypes' /\ LockHeld' /\ RemotesCounted' /\ TriesBounded'
    BY <1>1, <1>2, <1>7, <2>1, MoveKeeps DEF InitDone
  <2>3. MemberTypes' /\ PluginTypes'
    BY <1>7 DEF InitDone, MemberTypes, PluginTypes
  <2>4. QED
    BY <2>2, <2>3
<1>8. CASE Ask(t)
  BY <1>1, <1>8, AskKeeps
<1>9. CASE SubscribeCheck(t) \/ SubscribeCall(t) \/ SubscribePush(t)
  BY <1>1, <1>9, SubscribeKeeps
<1>10. QED
  BY <1>4, <1>5, <1>6, <1>7, <1>8, <1>9 DEF InitStep

--------------------------------------------------------------------------------
(* The application threads.                                                *)

\* A step of an application thread outside of initialize().
LEMMA AppStepKeeps ==
  ASSUME NEW a \in Apps, IndInv, (AppGoesOn(a) /\ ~InitStep(a)) \/ AppCalls(a)
  PROVE  IndInv'
<1> USE IndInvParts, ThreadsDiffer
<1>1. a \in Threads /\ PcTypes /\ (mutex = a <=> pc[a] \in Locked)
  BY DEF LockHeld, PcTypes
<1>2. CASE CtorActive(a) \/ SpeakActive(a) \/ RegCheck(a)
  <2>1. PICK l \in {"idle", "regCheck", "regSet", "invoke"}, v \in BOOLEAN :
          Goto(a, l) /\ IsActive(a, v) /\ pc[a] \notin Locked
    BY <1>2 DEF CtorActive, SpeakActive, RegCheck, Locked
  <2>2. UNCHANGED <<remote, initd, flag, registered, clients, mutex, tasks, tries, plugin, failures, history>>
    BY <1>2 DEF CtorActive, SpeakActive, RegCheck
  <2>3. PcTypes' /\ LockHeld' /\ RemotesCounted' /\ TriesBounded'
    BY <1>1, <2>1, <2>2, MoveKeeps DEF Locked, AppStates
  <2>4. active' \in BOOLEAN /\ querySuccess' \in BOOLEAN /\ answer' \in [Threads -> Replies]
    BY <1>1, <2>1, IsActiveTypes DEF IndInv
  <2>5. told' \in [Apps -> {"nothing", "connected", "closed"}]
    BY <1>2 DEF CtorActive, SpeakActive, RegCheck, MemberTypes
  <2>6. MemberTypes' /\ PluginTypes'
    BY <2>2, <2>4, <2>5 DEF MemberTypes, PluginTypes
  <2>7. QED
    BY <2>3, <2>6
<1>3. CASE ~(CtorActive(a) \/ SpeakActive(a) \/ RegCheck(a))
  <2> DEFINE Simple == \/ Create(a) \/ Speak(a) \/ Delete(a) \/ Register(a) \/ Unregister(a)
                       \/ RegSet(a) \/ InvokeCheck(a) \/ InvokeCall(a)
  <2>1. Simple
    BY <1>3 DEF AppGoesOn, AppCalls
  <2>2. PICK l \in AppStates \ Locked : Goto(a, l) /\ pc[a] \notin Locked
    BY <2>1 DEF Create, Speak, Delete, Register, Unregister, RegSet, InvokeCheck, InvokeCall, Locked, AppStates
  <2>3. UNCHANGED <<active, querySuccess, remote, initd, registered, mutex, tasks, answer, tries, plugin, failures,
                    lastRemote>>
    BY <2>1 DEF Create, Speak, Delete, Register, Unregister, RegSet, InvokeCheck, InvokeCall
  <2>4. PcTypes' /\ LockHeld' /\ RemotesCounted' /\ TriesBounded'
    BY <1>1, <2>2, <2>3, MoveKeeps
  <2>5. flag' \in BOOLEAN /\ clients' \subseteq Apps /\ crashed' \in BOOLEAN
    BY <2>1 DEF Create, Speak, Delete, Register, Unregister, RegSet, InvokeCheck, InvokeCall, Deref,
               MemberTypes, PluginTypes
  <2>6. told' \in [Apps -> {"nothing", "connected", "closed"}]
    BY <2>1 DEF Create, Speak, Delete, Register, Unregister, RegSet, InvokeCheck, InvokeCall, MemberTypes
  <2>7. MemberTypes' /\ PluginTypes'
    BY <2>3, <2>5, <2>6 DEF MemberTypes, PluginTypes
  <2>8. QED
    BY <2>4, <2>7
<1>4. QED
  BY <1>2, <1>3

--------------------------------------------------------------------------------
(* The event thread.                                                       *)

\* A step of the event thread keeps the places and the owner of m_mutex.
LEMMA EventMove ==
  ASSUME IndInv, NEW l \in CtlStates, Goto("ctl", l), UNCHANGED <<mutex, tries>>
  PROVE  PcTypes' /\ LockHeld' /\ TriesBounded' /\ pc'["ctl"] = l
<1> USE IndInvParts, ThreadsDiffer
<1>1. pc'["ctl"] = l /\ \A u \in Threads : u # "ctl" => pc'[u] = pc[u]
  BY OthersStay
<1>2. pc["ctl"] \notin Locked /\ l \notin Locked
  BY DEF PcTypes, CtlStates, Locked
<1>3. PcTypes'
  BY <1>1 DEF PcTypes, Goto
<1>4. LockHeld'
  BY <1>1, <1>2 DEF LockHeld
<1>5. TriesBounded'
  BY <1>1 DEF TriesBounded
<1>6. QED
  BY <1>1, <1>3, <1>4, <1>5

\* Taking a report off the wire.
LEMMA ReportTaken ==
  ASSUME PluginTypes, wire # <<>>, wire' = Tail(wire)
  PROVE  /\ wire' \in Seq({"Activated", "Deactivated"})
         /\ Len(wire) \in Nat \ {0} /\ Len(wire') = Len(wire) - 1
BY DEF PluginTypes

LEMMA EventThreadKeeps == ASSUME IndInv, EventThread PROVE IndInv'
<1> USE IndInvParts, ThreadsDiffer
<1>1. /\ PcTypes /\ MemberTypes /\ PluginTypes
      /\ lastRemote \in Nat /\ changes \in Nat /\ Len(wire) \in Nat
  BY BoundsAssumption DEF PluginTypes, Remotes
<1>2. CASE OnActivation
  <2>1. Len(wire') = Len(wire) - 1 /\ wire' \in Seq({"Activated", "Deactivated"})
    BY <1>2, ReportTaken DEF OnActivation
  <2>2. tasks' \in Seq({"install", "activate"})
    BY <1>2 DEF OnActivation, MemberTypes
  <2>3. PcTypes' /\ LockHeld' /\ TriesBounded'
    BY <1>2 DEF OnActivation, PcTypes, LockHeld, TriesBounded
  <2>4. RemotesCounted'
    <3>1. pc["ctl"] = "out" /\ UNCHANGED <<pc, lastRemote, remote, changes>>
      BY <1>2 DEF OnActivation
    <3>2. Dropping = Len(wire) /\ Dropping' = Len(wire) - 1
      BY <1>1, <2>1, <3>1 DEF Dropping
    <3>3. QED
      BY <1>1, <3>1, <3>2, BoundsAssumption DEF RemotesCounted, PluginTypes, Remotes
  <2>5. MemberTypes' /\ PluginTypes'
    BY <1>2, <2>1, <2>2 DEF OnActivation, MemberTypes, PluginTypes
  <2>6. QED
    BY <2>3, <2>4, <2>5
<1>3. CASE OnDeactivation
  <2>1. Len(wire') = Len(wire) - 1 /\ wire' \in Seq({"Activated", "Deactivated"})
    BY <1>3, ReportTaken DEF OnDeactivation
  <2>2. PcTypes' /\ LockHeld' /\ TriesBounded' /\ pc'["ctl"] = "uninit"
    BY <1>3, EventMove DEF OnDeactivation, CtlStates
  <2>3. RemotesCounted'
    BY <1>1, <1>3, <2>1, <2>2 DEF OnDeactivation, RemotesCounted, Dropping
  <2>4. MemberTypes' /\ PluginTypes'
    BY <1>3, <2>1 DEF OnDeactivation, MemberTypes, PluginTypes
  <2>5. QED
    BY <2>2, <2>3, <2>4
<1>4. CASE Unsubscribe
  <2>1. PcTypes' /\ LockHeld' /\ TriesBounded' /\ RemotesCounted'
    BY <1>4 DEF Unsubscribe, PcTypes, LockHeld, TriesBounded, RemotesCounted, Dropping
  <2>2. registered' \subseteq {"state", "speech"} /\ subs' \subseteq {"state", "speech"} \X Remotes
    BY <1>4 DEF Unsubscribe, MemberTypes, PluginTypes
  <2>3. crashed' \in BOOLEAN
    BY <1>4 DEF Unsubscribe, Deref
  <2>4. MemberTypes' /\ PluginTypes'
    BY <1>4, <2>2, <2>3 DEF Unsubscribe, MemberTypes, PluginTypes
  <2>5. QED
    BY <2>1, <2>4
<1>5. CASE DropRemote
  <2>1. PcTypes' /\ LockHeld' /\ TriesBounded' /\ pc'["ctl"] = "uninitialized"
    BY <1>5, EventMove DEF DropRemote, CtlStates
  <2>2. RemotesCounted'
    BY <1>1, <1>5, <2>1 DEF DropRemote, RemotesCounted, Dropping
  <2>3. MemberTypes' /\ PluginTypes'
    BY <1>5 DEF DropRemote, MemberTypes, PluginTypes
  <2>4. QED
    BY <2>1, <2>2, <2>3
<1>6. CASE Uninit \/ Uninitialized \/ ResetFlag \/ NotifyClosed
  <2>1. PICK l \in {"unsubscribe", "resetFlag", "notify", "out"} :
          /\ Goto("ctl", l)
          /\ pc["ctl"] \in {"uninit", "unsubscribe"} <=> l \in {"uninit", "unsubscribe"}
    BY <1>6 DEF Uninit, Uninitialized, ResetFlag, NotifyClosed
  <2>2. UNCHANGED <<querySuccess, remote, registered, clients, mutex, tasks, answer, tries, plugin, failures, history>>
    BY <1>6 DEF Uninit, Uninitialized, ResetFlag, NotifyClosed
  <2>3. PcTypes' /\ LockHeld' /\ TriesBounded' /\ pc'["ctl"] = l
    BY <2>1, <2>2, EventMove DEF CtlStates
  <2>4. RemotesCounted'
    BY <1>1, <2>1, <2>2, <2>3 DEF RemotesCounted, Dropping
  <2>5. active' \in BOOLEAN /\ initd' \in BOOLEAN /\ flag' \in BOOLEAN
        /\ told' \in [Apps -> {"nothing", "connected", "closed"}]
    BY <1>6 DEF Uninit, Uninitialized, ResetFlag, NotifyClosed, MemberTypes
  <2>6. MemberTypes' /\ PluginTypes'
    BY <2>2, <2>5 DEF MemberTypes, PluginTypes
  <2>7. QED
    BY <2>3, <2>4, <2>6
<1>7. QED
  BY <1>2, <1>3, <1>4, <1>5, <1>6 DEF EventThread

--------------------------------------------------------------------------------
(* The worker, and the plugin.                                             *)

\* A step of the worker's own, outside of initialize(), keeps the places, the
\* owner of m_mutex and the account of the remote objects.
LEMMA WorkerMove ==
  ASSUME IndInv, NEW l \in WrkStates, Goto("wrk", l), pc["wrk"] \notin Locked, l \notin Locked,
         UNCHANGED <<mutex, remote, lastRemote, wire, changes>>
  PROVE  PcTypes' /\ LockHeld' /\ RemotesCounted' /\ pc'["wrk"] = l
<1> USE IndInvParts, ThreadsDiffer
<1>1. pc'["wrk"] = l /\ \A u \in Threads : u # "wrk" => pc'[u] = pc[u]
  BY OthersStay
<1>2. PcTypes'
  BY <1>1 DEF PcTypes, Goto
<1>3. LockHeld'
  BY <1>1 DEF LockHeld
<1>4. RemotesCounted'
  BY <1>1 DEF RemotesCounted, Dropping
<1>5. QED
  BY <1>1, <1>2, <1>3, <1>4

LEMMA WorkerKeeps == ASSUME IndInv, Worker PROVE IndInv'
<1> USE IndInvParts, ThreadsDiffer
<1>1. tries \in Nat /\ MaxPolls \in Nat \ {0} /\ InstallAttempts = 3
  BY BoundsAssumption DEF MemberTypes, InstallAttempts
<1>2. CASE TakeTask
  <2>1. PICK l \in {"install", "poll"} : Goto("wrk", l) /\ pc["wrk"] = "out"
    BY <1>2 DEF TakeTask
  <2>2. PcTypes' /\ LockHeld' /\ RemotesCounted' /\ pc'["wrk"] = l
    BY <1>2, <2>1, WorkerMove DEF TakeTask, WrkStates, Locked
  <2>3. TriesBounded' /\ tries' \in 0..(MaxPolls + InstallAttempts)
    BY <1>1, <1>2 DEF TakeTask, TriesBounded
  <2>4. tasks' \in Seq({"install", "activate"})
    BY <1>2 DEF TakeTask, MemberTypes
  <2>5. MemberTypes' /\ PluginTypes'
    BY <1>2, <2>3, <2>4 DEF TakeTask, MemberTypes, PluginTypes
  <2>6. QED
    BY <2>2, <2>3, <2>5
<1>3. CASE InstallSucceeds \/ NotifyConnected
  <2>1. Goto("wrk", "out") /\ pc["wrk"] \notin Locked
    BY <1>3 DEF InstallSucceeds, NotifyConnected, Locked
  <2>2. UNCHANGED <<members, clients, mutex, tasks, answer, tries, up, subs, wire, changes, failures, history>>
    BY <1>3 DEF InstallSucceeds, NotifyConnected
  <2>3. PcTypes' /\ LockHeld' /\ RemotesCounted' /\ pc'["wrk"] = "out"
    BY <2>1, <2>2, WorkerMove DEF WrkStates, Locked
  <2>4. TriesBounded'
    BY <2>3 DEF TriesBounded
  <2>5. watching' \in BOOLEAN /\ told' \in [Apps -> {"nothing", "connected", "closed"}]
    BY <1>3 DEF InstallSucceeds, NotifyConnected, MemberTypes, PluginTypes
  <2>6. MemberTypes' /\ PluginTypes'
    BY <2>2, <2>5 DEF MemberTypes, PluginTypes
  <2>7. QED
    BY <2>3, <2>4, <2>6
<1>4. CASE InstallFails
  <2>1. PICK l \in {"install", "out"} :
          Goto("wrk", l) /\ (tries' = InstallAttempts => l = "out")
    BY <1>4 DEF InstallFails, Goto, PcTypes
  <2>2. pc["wrk"] = "install" /\ tries' = tries + 1 /\ tries < InstallAttempts
    BY <1>4 DEF InstallFails, TriesBounded
  <2>3. PcTypes' /\ LockHeld' /\ RemotesCounted' /\ pc'["wrk"] = l
    BY <1>4, <2>1, <2>2, WorkerMove DEF InstallFails, WrkStates, Locked
  <2>4. TriesBounded' /\ tries' \in 0..(MaxPolls + InstallAttempts)
    BY <1>1, <2>1, <2>2, <2>3 DEF TriesBounded
  <2>5. failures' \in 0..MaxFailures
    BY <1>4, BoundsAssumption DEF InstallFails, CallFails, PluginTypes
  <2>6. MemberTypes' /\ PluginTypes'
    BY <1>4, <2>4, <2>5 DEF InstallFails, MemberTypes, PluginTypes
  <2>7. QED
    BY <2>3, <2>4, <2>6
<1>5. CASE Poll \/ Confirm
  <2>1. PICK l \in {"poll", "confirm", "init", "out"}, v \in BOOLEAN :
          /\ Goto("wrk", l) /\ IsActive("wrk", v) /\ pc["wrk"] \notin Locked
          /\ l = "poll" => pc["wrk"] = "poll" /\ tries' = tries + 1 /\ tries' # MaxPolls
    <3>1. CASE Confirm
      BY <1>5, <3>1 DEF Confirm, Locked
    <3>2. CASE Poll
      BY <1>5, <3>2 DEF Poll, Goto, PcTypes, Locked
    <3>3. QED
      BY <1>5, <3>1, <3>2
  <2>2. UNCHANGED <<remote, initd, flag, registered, clients, mutex, tasks, told, plugin, failures, history>>
    BY <1>5 DEF Poll, Confirm
  <2>3. PcTypes' /\ LockHeld' /\ RemotesCounted' /\ pc'["wrk"] = l
    BY <2>1, <2>2, WorkerMove DEF WrkStates, Locked
  <2>4. tries' = tries \/ (pc["wrk"] = "poll" /\ tries' = tries + 1)
    BY <1>5 DEF Poll, Confirm
  <2>5. TriesBounded' /\ tries' \in 0..(MaxPolls + InstallAttempts)
    BY <1>1, <2>1, <2>3, <2>4 DEF TriesBounded, MemberTypes
  <2>6. active' \in BOOLEAN /\ querySuccess' \in BOOLEAN /\ answer' \in [Threads -> Replies]
    BY <2>1, IsActiveTypes DEF IndInv
  <2>7. MemberTypes' /\ PluginTypes'
    BY <2>2, <2>5, <2>6 DEF MemberTypes, PluginTypes
  <2>8. QED
    BY <2>3, <2>5, <2>7
<1>6. CASE InitStep("wrk")
  BY <1>6, InitStepKeeps
<1>7. QED
  BY <1>2, <1>3, <1>4, <1>5, <1>6 DEF Worker

LEMMA PluginKeeps == ASSUME IndInv, PluginChanges PROVE IndInv'
<1> USE IndInvParts, ThreadsDiffer
<1>1. PcTypes' /\ LockHeld' /\ TriesBounded'
  BY DEF PluginChanges, PcTypes, LockHeld, TriesBounded
<1>2. /\ wire' \in Seq({"Activated", "Deactivated"})
      /\ Len(wire) \in Nat /\ Len(wire') \in Nat /\ Len(wire') <= Len(wire) + 1
  BY DEF PluginChanges, PluginTypes
<1>3. changes \in Nat /\ lastRemote \in Nat /\ changes' = changes + 1 /\ changes' \in 0..MaxChanges
  BY BoundsAssumption DEF PluginChanges, PluginTypes, Remotes
<1>4. RemotesCounted'
  <2>1. UNCHANGED <<pc, remote, lastRemote>>
    BY DEF PluginChanges
  <2>2. PICK d \in {0, 1} : Dropping = Len(wire) + d /\ Dropping' = Len(wire') + d
    BY <2>1 DEF Dropping
  <2>3. PICK r \in {0, 1} : /\ lastRemote + r + Dropping <= changes + 1
                            /\ RemotesCounted' <=> lastRemote' + r + Dropping' <= changes' + 1
    BY <2>1 DEF RemotesCounted
  <2>4. QED
    BY <1>2, <1>3, <2>1, <2>2, <2>3
<1>5. up' \in BOOLEAN /\ subs' \subseteq {"state", "speech"} \X Remotes
  BY DEF PluginChanges, PluginTypes
<1>6. MemberTypes' /\ PluginTypes'
  BY <1>2, <1>3, <1>5 DEF PluginChanges, MemberTypes, PluginTypes
<1>7. QED
  BY <1>1, <1>4, <1>6

--------------------------------------------------------------------------------
LEMMA IndInvStep == IndInv /\ [Next]_vars => IndInv'
<1> SUFFICES ASSUME IndInv, [Next]_vars
             PROVE  IndInv'
  OBVIOUS
<1>1. ASSUME NEW a \in Apps, AppGoesOn(a) \/ AppCalls(a)
      PROVE  IndInv'
  BY <1>1, AppStepKeeps, InitStepKeeps
<1>2. CASE EventThread
  BY <1>2, EventThreadKeeps
<1>3. CASE Worker
  BY <1>3, WorkerKeeps
<1>4. CASE PluginChanges
  BY <1>4, PluginKeeps
<1>5. CASE UNCHANGED vars
  <2>1. PcTypes' /\ MemberTypes' /\ PluginTypes' /\ LockHeld' /\ RemotesCounted' /\ TriesBounded'
    BY <1>5, IndInvParts DEF PcTypes, MemberTypes, PluginTypes, LockHeld, RemotesCounted, Dropping, TriesBounded
  <2>2. QED
    BY <2>1, IndInvParts
<1>6. QED
  BY <1>1, <1>2, <1>3, <1>4, <1>5 DEF Next, Crashed

\* Everything in IndInv holds in every reachable state.
THEOREM ServiceIndInv == Spec => []IndInv
BY IndInvInit, IndInvStep, PTL DEF Spec

\* The service's members, its threads' places and the plugin's numbers are of
\* their types: among them, no more remote objects than the plugin's changes
\* allow, and no loop of the worker past its limit.
THEOREM TypeCorrect == Spec => []TypeOK
<1>1. IndInv => TypeOK
  BY DEF IndInv
<1>2. QED
  BY <1>1, ServiceIndInv, PTL

\* Service::initialize() makes a remote object only to begin with or after
\* uninitialize() has dropped one, in whatever order the threads come.
THEOREM RemotesAreCounted == Spec => []RemotesCounted
<1>1. IndInv => RemotesCounted
  BY DEF IndInv
<1>2. QED
  BY <1>1, ServiceIndInv, PTL

\* m_mutex keeps TextToSpeechService::initialize() to one thread at a time.
THEOREM InitializeIsExclusive ==
  Spec => [](\A t, u \in Threads : pc[t] \in Locked /\ pc[u] \in Locked => t = u)
<1>1. IndInv => \A t, u \in Threads : pc[t] \in Locked /\ pc[u] \in Locked => t = u
  BY DEF IndInv, LockHeld
<1>2. QED
  BY <1>1, ServiceIndInv, PTL
================================================================================
