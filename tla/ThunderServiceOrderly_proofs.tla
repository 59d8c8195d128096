---------------------- MODULE ThunderServiceOrderly_proofs ----------------------
(***************************************************************************)
(* What ThunderService promises when the plugin changes only while the     *)
(* process is at rest (Orderly), for any number of application threads and *)
(* any number of changes.  OrderInv needs nothing else; SettleInv also     *)
(* needs that at most one call for the status times out.                   *)
(***************************************************************************)
EXTENDS ThunderService_proofs

USE DEF vars, members, plugin, history

\* The calls that fail leave every loop and every second try a success.
FewFailures == MaxFailures <= 1 /\ MaxFailures < MaxPolls /\ "subscribe" \notin Failing

--------------------------------------------------------------------------------
(* The first invariant. *)

\* The service still has to take note that the plugin is gone,
Leaving == wire = <<"Deactivated">> \/ pc["ctl"] # "out"

\* that it is back,
Coming == wire = <<"Activated">> \/ tasks = <<"activate">> \/ pc["wrk"] \notin {"out", "install"}

\* or to install its handler.
Installing == tasks = <<"install">> \/ pc["wrk"] = "install"

\* A change of the plugin, its report, the work on it: one at a time.
OneAtATime ==
  /\ wire \in {<<>>, <<"Activated">>, <<"Deactivated">>}
  /\ tasks \in {<<>>, <<"install">>, <<"activate">>}
  /\ wire # <<>> => tasks = <<>> /\ pc["ctl"] = "out" /\ pc["wrk"] = "out"
  /\ tasks # <<>> => pc["ctl"] = "out" /\ pc["wrk"] = "out"
  /\ pc["ctl"] # "out" => pc["wrk"] = "out"

WorkFitsPlugin == (Leaving => ~up) /\ (Coming => up)

\* A subscription the plugin accepted is noted while the plugin is there.
PushesInTime == ~up => \A t \in Threads : pc[t] \notin DOMAIN PushAt
Cleared == pc["ctl"] # "out" => registered = {}

\* Who is about to subscribe to the state events is the first to do so.
StateSubscribers ==
  \A r \in Remotes : <<"state", r>> \in subs =>
    /\ up /\ remote # 0
    /\ mutex = "none" => initd
    /\ mutex # "none" => pc[mutex] \in {"initPush", "initDone"}

OrderInv == OneAtATime /\ WorkFitsPlugin /\ PushesInTime /\ Cleared /\ StateSubscribers

\* A step of an application thread or the worker, seen from the others.
LEMMA ThreadMoves ==
  ASSUME IndInv, NEW t \in Apps \cup {"wrk"}, NEW l, Goto(t, l)
  PROVE  /\ t \in Threads /\ t # "ctl" /\ t # "none" /\ pc'[t] = l
         /\ \A u \in Threads : u # t => pc'[u] = pc[u]
         /\ pc'["ctl"] = pc["ctl"] /\ (t \in Apps => pc'["wrk"] = pc["wrk"])
<1>1. t \in Threads /\ t # "ctl" /\ t # "none" /\ PcTypes
  BY IndInvParts, ThreadsDiffer
<1>2. QED
  BY <1>1, OthersStay, ThreadsDiffer

\* m_mutex tells who is inside initialize().
LEMMA Holder ==
  ASSUME IndInv, NEW t \in Threads
  PROVE  /\ mutex = t <=> pc[t] \in Locked
         /\ mutex \in Threads \cup {"none"}
         /\ t = "wrk" => pc[t] \in WrkStates
         /\ t \in Apps => pc[t] \in AppStates
BY ThreadsDiffer DEF IndInv, LockHeld, TypeOK

\* What such a step keeps of OrderInv.
LEMMA ScheduleKept ==
  ASSUME IndInv, OrderInv, NEW t \in Apps \cup {"wrk"}, NEW l, Goto(t, l),
         UNCHANGED <<wire, tasks, up>>,
         registered' = registered \/ up,
         l \in DOMAIN PushAt => up,
         t = "wrk" => pc[t] # "out" /\ (l \notin {"out", "install"} => pc[t] # "install")
  PROVE  OneAtATime' /\ WorkFitsPlugin' /\ PushesInTime' /\ Cleared'
<1>1. /\ t \in Threads /\ pc'[t] = l /\ \A u \in Threads : u # t => pc'[u] = pc[u]
      /\ pc'["ctl"] = pc["ctl"] /\ (t \in Apps => pc'["wrk"] = pc["wrk"])
  BY ThreadMoves
<1>2. /\ pc'["wrk"] # "out" => pc["wrk"] # "out"
      /\ pc'["wrk"] \notin {"out", "install"} => pc["wrk"] \notin {"out", "install"}
  BY <1>1
<1>3. OneAtATime'
  BY <1>1, <1>2 DEF OrderInv, OneAtATime
<1>4. WorkFitsPlugin'
  BY <1>1, <1>2 DEF OrderInv, WorkFitsPlugin, Leaving, Coming
<1>5. PushesInTime'
  <2>1. SUFFICES ASSUME ~up, NEW u \in Threads
                 PROVE  pc'[u] \notin DOMAIN PushAt
    BY DEF PushesInTime
  <2>2. CASE u = t
    BY <1>1, <2>1, <2>2
  <2>3. CASE u # t
    BY <1>1, <2>1, <2>3 DEF OrderInv, PushesInTime
  <2>4. QED
    BY <2>2, <2>3
<1>6. Cleared'
  <2>1. CASE up
    BY <1>1, <2>1 DEF OrderInv, WorkFitsPlugin, Leaving, Cleared
  <2>2. CASE ~up
    BY <1>1, <2>2 DEF OrderInv, Cleared
  <2>3. QED
    BY <2>1, <2>2
<1>7. QED
  BY <1>3, <1>4, <1>5, <1>6

\* Until its own is accepted, the thread inside initialize() finds no
\* subscription to the state events.
LEMMA NoStateSubscriber ==
  ASSUME IndInv, OrderInv, NEW t \in Threads, pc[t] \in Locked \ {"initPush", "initDone"}
  PROVE  \A r \in Remotes : <<"state", r>> \notin subs
<1>1. mutex = t /\ mutex # "none"
  BY Holder, ThreadsDiffer
<1>2. QED
  BY <1>1 DEF OrderInv, StateSubscribers

\* A thread outside of initialize() moves on: nothing changes for the others.
LEMMA SubscribersOutside ==
  ASSUME IndInv, OrderInv, NEW t \in Apps \cup {"wrk"}, NEW l, Goto(t, l), pc[t] \notin Locked,
         UNCHANGED <<up, remote, initd, mutex>>,
         \A r \in Remotes : <<"state", r>> \in subs' => <<"state", r>> \in subs
  PROVE  StateSubscribers'
<1>1. /\ t \in Threads /\ mutex # t /\ \A u \in Threads : u # t => pc'[u] = pc[u]
      /\ mutex # "none" => mutex \in Threads
  BY ThreadMoves, Holder
<1>2. QED
  BY <1>1 DEF OrderInv, StateSubscribers

--------------------------------------------------------------------------------
(* Every step keeps OrderInv.                                              *)

LEMMA InitStepKeepsOrder ==
  ASSUME IndInv, OrderInv, NEW t \in Apps \cup {"wrk"}, InitStep(t)
  PROVE  OrderInv'
<1> USE ThreadsDiffer
<1>1. t \in Threads /\ (mutex = t <=> pc[t] \in Locked) /\ remote \in Remotes \cup {0} /\ t # "none"
  BY Holder, IndInvParts DEF PluginTypes
<1>2. CASE InitEnter(t)
  <2>1. PICK l \in {"notify", "register", "initActive"} :
          Goto(t, l) /\ pc[t] = "init" /\ mutex = "none" /\ (l = "initActive" => ~Initialized /\ mutex' = t)
                     /\ (l # "initActive" => mutex' = "none")
    BY <1>2 DEF InitEnter, AfterInit
  <2>2. UNCHANGED <<members, wire, tasks, up, subs>>
    BY <1>2 DEF InitEnter
  <2>3. OneAtATime' /\ WorkFitsPlugin' /\ PushesInTime' /\ Cleared'
    BY <2>1, <2>2, ScheduleKept DEF PushAt
  <2>4. StateSubscribers'
    <3>1. CASE l = "initActive"
      <4>1. \A r \in Remotes : <<"state", r>> \notin subs
        BY <2>1, <3>1 DEF OrderInv, StateSubscribers, Initialized
      <4>2. QED
        BY <2>2, <4>1 DEF StateSubscribers
    <3>2. CASE l # "initActive"
      BY <2>1, <2>2, <3>2, SubscribersOutside DEF Locked
    <3>3. QED
      BY <3>1, <3>2
  <2>5. QED
    BY <2>3, <2>4 DEF OrderInv
<1>3. CASE InitActive(t) \/ InitForce(t) \/ Make(t) \/ InitSub(t)
  <2>1. PICK l \in {"make", "initForce", "initSub", "initCheck", "initDone"} :
          Goto(t, l) /\ pc[t] \in {"initActive", "initForce", "make", "initSub"}
    BY <1>3 DEF InitActive, InitForce, Make, InitSub
  <2>2. UNCHANGED <<registered, wire, tasks, up, subs>>
    BY <1>3 DEF InitActive, InitForce, Make, InitSub
  <2>3. OneAtATime' /\ WorkFitsPlugin' /\ PushesInTime' /\ Cleared'
    BY <2>1, <2>2, ScheduleKept DEF PushAt
  <2>4. \A r \in Remotes : <<"state", r>> \notin subs
    BY <1>1, <2>1, NoStateSubscriber DEF Locked
  <2>5. StateSubscribers'
    BY <2>2, <2>4 DEF StateSubscribers
  <2>6. QED
    BY <2>3, <2>5 DEF OrderInv
<1>4. CASE InitDone(t)
  <2>1. PICK l \in {"notify", "register"} : Goto(t, l) /\ pc[t] = "initDone"
    BY <1>4 DEF InitDone, AfterInit
  <2>2. UNCHANGED <<registered, wire, tasks, up, subs, remote>> /\ initd' /\ mutex' = "none"
    BY <1>4 DEF InitDone
  <2>3. OneAtATime' /\ WorkFitsPlugin' /\ PushesInTime' /\ Cleared'
    BY <2>1, <2>2, ScheduleKept DEF PushAt
  <2>4. StateSubscribers'
    BY <2>2 DEF OrderInv, StateSubscribers
  <2>5. QED
    BY <2>3, <2>4 DEF OrderInv
<1>5. CASE Ask(t)
  <2>1. UNCHANGED <<members, mutex, tasks, pc, wire, up, subs>>
    BY <1>5 DEF Ask
  <2>2. QED
    BY <2>1 DEF OrderInv, OneAtATime, WorkFitsPlugin, Leaving, Coming, PushesInTime, Cleared, StateSubscribers
<1>6. CASE SubscribeCheck(t) \/ SubscribePush(t)
  <2>1. PICK l \in {"initDone", "invoke", "initCall", "subCall"} :
          /\ Goto(t, l) /\ pc[t] \in {"initCheck", "sub", "initPush", "subPush"}
          /\ registered' = registered \/ pc[t] \in DOMAIN PushAt
          /\ pc[t] = "initPush" => l = "initDone"
          /\ pc[t] \notin Locked <=> l \notin Locked
    BY <1>6 DEF SubscribeCheck, SubscribePush, SubscribeAt, PushAt, NextOf, AfterSub, Locked
  <2>2. UNCHANGED <<wire, tasks, up, subs, remote, initd, mutex>>
    BY <1>6 DEF SubscribeCheck, SubscribePush
  <2>3. registered' = registered \/ up
    BY <1>1, <2>1 DEF OrderInv, PushesInTime
  <2>4. OneAtATime' /\ WorkFitsPlugin' /\ PushesInTime' /\ Cleared'
    BY <2>1, <2>2, <2>3, ScheduleKept DEF PushAt
  <2>5. StateSubscribers'
    <3>1. CASE pc[t] \notin Locked
      BY <2>1, <2>2, <3>1, SubscribersOutside
    <3>2. CASE pc[t] = "initCheck"
      BY <1>1, <2>2, <3>2, NoStateSubscriber DEF Locked, StateSubscribers
    <3>3. CASE pc[t] = "initPush"
      <4>1. mutex = t /\ pc'[t] = "initDone"
        BY <1>1, <2>1, <3>3, ThreadMoves DEF Locked
      <4>2. QED
        BY <1>1, <2>2, <4>1 DEF OrderInv, StateSubscribers
    <3>4. QED
      BY <2>1, <3>1, <3>2, <3>3 DEF Locked
  <2>6. QED
    BY <2>4, <2>5 DEF OrderInv
<1>7. CASE SubscribeCall(t)
  <2>1. PICK l \in {"initPush", "subPush", "initDone", "invoke"} :
          /\ Goto(t, l) /\ pc[t] \in {"initCall", "subCall"}
          /\ \/ /\ l = (IF pc[t] = "initCall" THEN "initPush" ELSE "subPush") /\ remote # 0 /\ up
                /\ subs' = subs \cup {<<IF pc[t] = "initCall" THEN "state" ELSE "speech", remote>>}
             \/ l \in {"initDone", "invoke"} /\ subs' = subs
    BY <1>7 DEF SubscribeCall, CallAt, NextOf, AfterSub
  <2>2. UNCHANGED <<registered, wire, tasks, up, remote, initd, mutex>>
    BY <1>7 DEF SubscribeCall
  <2>3. OneAtATime' /\ WorkFitsPlugin' /\ PushesInTime' /\ Cleared'
    BY <2>1, <2>2, ScheduleKept DEF PushAt
  <2>4. StateSubscribers'
    <3>1. CASE pc[t] = "subCall"
      <4>1. \A r \in Remotes : <<"state", r>> \in subs' => <<"state", r>> \in subs
        BY <2>1, <3>1
      <4>2. QED
        BY <2>1, <2>2, <3>1, <4>1, SubscribersOutside DEF Locked
    <3>2. CASE pc[t] = "initCall" /\ subs' = subs
      BY <1>1, <3>2, NoStateSubscriber DEF Locked, StateSubscribers
    <3>3. CASE pc[t] = "initCall" /\ subs' # subs
      <4>1. mutex' = t /\ pc'[t] = "initPush" /\ up' /\ remote' # 0
        BY <1>1, <2>1, <2>2, <3>3, ThreadMoves DEF Locked
      <4>2. QED
        BY <1>1, <4>1 DEF StateSubscribers
    <3>4. QED
      BY <2>1, <3>1, <3>2, <3>3
  <2>5. QED
    BY <2>3, <2>4 DEF OrderInv
<1>8. QED
  BY <1>2, <1>3, <1>4, <1>5, <1>6, <1>7 DEF InitStep

LEMMA AppStepKeepsOrder ==
  ASSUME IndInv, OrderInv, NEW a \in Apps, (AppGoesOn(a) /\ ~InitStep(a)) \/ AppCalls(a)
  PROVE  OrderInv'
<1>1. /\ UNCHANGED <<remote, initd, registered, mutex, tasks, wire, up, subs>>
      /\ \E l \in AppStates \ DOMAIN PushAt : Goto(a, l) /\ pc[a] \notin Locked
  <2>1. CASE CtorActive(a) \/ SpeakActive(a) \/ RegCheck(a)
    BY <2>1 DEF CtorActive, SpeakActive, RegCheck, Locked, AppStates, PushAt
  <2>2. CASE Create(a) \/ Speak(a) \/ Delete(a) \/ Register(a) \/ Unregister(a)
    BY <2>2 DEF Create, Speak, Delete, Register, Unregister, Locked, AppStates, PushAt
  <2>3. CASE RegSet(a) \/ InvokeCheck(a) \/ InvokeCall(a)
    BY <2>3 DEF RegSet, InvokeCheck, InvokeCall, Locked, AppStates, PushAt
  <2>4. QED
    BY <2>1, <2>2, <2>3 DEF AppGoesOn, AppCalls
<1>2. PICK l \in AppStates \ DOMAIN PushAt : Goto(a, l) /\ pc[a] \notin Locked
  BY <1>1
<1>3. OneAtATime' /\ WorkFitsPlugin' /\ PushesInTime' /\ Cleared'
  BY <1>1, <1>2, ThreadsDiffer, ScheduleKept
<1>4. StateSubscribers'
  BY <1>1, <1>2, SubscribersOutside
<1>5. QED
  BY <1>3, <1>4 DEF OrderInv

LEMMA EventThreadKeepsOrder == ASSUME IndInv, OrderInv, EventThread PROVE OrderInv'
<1> USE ThreadsDiffer
<1>1. PcTypes /\ OneAtATime /\ WorkFitsPlugin
  BY IndInvParts DEF OrderInv
<1>2. CASE OnActivation
  <2>1. wire = <<"Activated">> /\ tasks = <<>> /\ pc["ctl"] = "out" /\ pc["wrk"] = "out"
    BY <1>1, <1>2 DEF OnActivation, OneAtATime
  <2>2. wire' = <<>> /\ tasks' = <<"activate">>
    BY <1>2, <2>1 DEF OnActivation
  <2>3. UNCHANGED <<members, mutex, pc, up, subs>>
    BY <1>2 DEF OnActivation
  <2>4. up
    BY <1>1, <2>1 DEF WorkFitsPlugin, Coming
  <2>5. OneAtATime' /\ WorkFitsPlugin'
    BY <2>1, <2>2, <2>3, <2>4 DEF OneAtATime, WorkFitsPlugin, Leaving, Coming
  <2>6. PushesInTime' /\ Cleared' /\ StateSubscribers'
    BY <2>3 DEF OrderInv, PushesInTime, Cleared, StateSubscribers
  <2>7. QED
    BY <2>5, <2>6 DEF OrderInv
<1>3. CASE ~OnActivation
  <2>1. ~up /\ tasks = <<>> /\ pc["wrk"] = "out" /\ (pc["ctl"] # "out" => wire = <<>>)
    <3>1. CASE OnDeactivation
      BY <1>1, <3>1 DEF OnDeactivation, OneAtATime, WorkFitsPlugin, Leaving
    <3>2. CASE ~OnDeactivation
      <4>1. pc["ctl"] # "out"
        BY <1>3, <3>2 DEF EventThread, Uninit, Unsubscribe, DropRemote, Uninitialized, ResetFlag, NotifyClosed
      <4>2. QED
        BY <1>1, <4>1 DEF OneAtATime, WorkFitsPlugin, Leaving
    <3>3. QED
      BY <3>1, <3>2
  <2>2. PICK l \in {"uninit", "unsubscribe", "uninitialized", "resetFlag", "notify", "out"} :
          Goto("ctl", l) /\ UNCHANGED <<tasks, up, subs, mutex>> /\ wire' = <<>>
          /\ (registered' = {} \/ (registered' = registered /\ pc["ctl"] # "out"))
    <3>1. CASE OnDeactivation
      <4>1. wire = <<"Deactivated">>
        BY <1>1, <3>1 DEF OnDeactivation, OneAtATime
      <4>2. QED
        BY <3>1, <4>1 DEF OnDeactivation
    <3>2. CASE Unsubscribe
      BY <3>2 DEF Unsubscribe, OrderInv, Cleared
    <3>3. CASE Uninit \/ DropRemote \/ Uninitialized \/ ResetFlag \/ NotifyClosed
      BY <2>1, <3>3 DEF Uninit, DropRemote, Uninitialized, ResetFlag, NotifyClosed
    <3>4. QED
      BY <1>3, <3>1, <3>2, <3>3 DEF EventThread
  <2>3. pc'["ctl"] = l /\ \A u \in Threads : u # "ctl" => pc'[u] = pc[u]
    BY <1>1, <2>2, OthersStay
  <2>4. OneAtATime' /\ WorkFitsPlugin'
    BY <2>1, <2>2, <2>3 DEF OneAtATime, WorkFitsPlugin, Leaving, Coming
  <2>5. PushesInTime'
    BY <2>2, <2>3 DEF OrderInv, PushesInTime, PushAt
  <2>6. Cleared'
    BY <2>2 DEF OrderInv, Cleared
  <2>7. StateSubscribers'
    BY <2>1, <2>2 DEF OrderInv, StateSubscribers
  <2>8. QED
    BY <2>4, <2>5, <2>6, <2>7 DEF OrderInv
<1>4. QED
  BY <1>2, <1>3

LEMMA WorkerKeepsOrder == ASSUME IndInv, OrderInv, Worker PROVE OrderInv'
<1> USE ThreadsDiffer
<1>1. CASE TakeTask
  <2>1. /\ wire = <<>> /\ pc["ctl"] = "out" /\ pc["wrk"] = "out"
        /\ tasks \in {<<"install">>, <<"activate">>}
    BY <1>1 DEF TakeTask, OrderInv, OneAtATime
  <2>2. tasks' = <<>> /\ UNCHANGED <<members, mutex, wire, up, subs>>
    BY <1>1, <2>1 DEF TakeTask
  <2>3. PICK l \in {"install", "poll"} : Goto("wrk", l) /\ (l = "install" \/ tasks = <<"activate">>)
    BY <1>1, <2>1 DEF TakeTask
  <2>4. pc'["wrk"] = l /\ \A u \in Threads : u # "wrk" => pc'[u] = pc[u]
    BY <2>3, ThreadMoves
  <2>5. OneAtATime' /\ WorkFitsPlugin'
    BY <2>1, <2>2, <2>3, <2>4 DEF OrderInv, OneAtATime, WorkFitsPlugin, Leaving, Coming
  <2>6. PushesInTime'
    BY <2>2, <2>3, <2>4 DEF OrderInv, PushesInTime, PushAt
  <2>7. Cleared'
    BY <2>2, <2>4 DEF OrderInv, Cleared
  <2>8. StateSubscribers'
    BY <2>1, <2>2, <2>3, SubscribersOutside DEF Locked
  <2>9. QED
    BY <2>5, <2>6, <2>7, <2>8 DEF OrderInv
<1>2. CASE InstallSucceeds \/ InstallFails \/ Poll \/ Confirm \/ NotifyConnected
  <2>1. PICK l \in {"out", "install", "poll", "confirm", "init"} :
          /\ Goto("wrk", l) /\ pc["wrk"] \in {"install", "poll", "confirm", "notify"}
          /\ l \notin {"out", "install"} => pc["wrk"] # "install"
    <3>1. CASE InstallSucceeds \/ NotifyConnected
      BY <3>1 DEF InstallSucceeds, NotifyConnected
    <3>2. CASE InstallFails
      BY <3>2, IndInvParts DEF InstallFails, Goto, PcTypes
    <3>3. CASE Poll
      BY <3>3, IndInvParts DEF Poll, Goto, PcTypes
    <3>4. CASE Confirm
      BY <3>4 DEF Confirm
    <3>5. QED
      BY <1>2, <3>1, <3>2, <3>3, <3>4
  <2>2. UNCHANGED <<remote, initd, registered, mutex, tasks, wire, up, subs>>
    BY <1>2 DEF InstallSucceeds, InstallFails, Poll, Confirm, NotifyConnected
  <2>3. OneAtATime' /\ WorkFitsPlugin' /\ PushesInTime' /\ Cleared'
    BY <2>1, <2>2, ScheduleKept DEF PushAt
  <2>4. StateSubscribers'
    BY <2>1, <2>2, SubscribersOutside DEF Locked
  <2>5. QED
    BY <2>3, <2>4 DEF OrderInv
<1>3. CASE InitStep("wrk")
  BY <1>3, InitStepKeepsOrder
<1>4. QED
  BY <1>1, <1>2, <1>3 DEF Worker

\* What a process at rest is like.
LEMMA RestIsQuiet ==
  ASSUME IndInv, AtRest
  PROVE  /\ wire = <<>> /\ tasks = <<>> /\ pc["ctl"] = "out" /\ pc["wrk"] = "out" /\ mutex = "none"
         /\ \A a \in Apps : pc[a] \in {"out", "idle"}
<1> USE ThreadsDiffer
<1>1. wire = <<>> /\ tasks = <<>> /\ \A t \in Threads : pc[t] \in {"out", "idle"}
  BY DEF AtRest
<1>2. pc["ctl"] = "out" /\ pc["wrk"] = "out"
  BY <1>1, IndInvParts DEF PcTypes, CtlStates, WrkStates
<1>3. mutex = "none"
  BY <1>1, IndInvParts DEF LockHeld, MemberTypes, Locked
<1>4. QED
  BY <1>1, <1>2, <1>3

LEMMA PluginKeepsOrder == ASSUME IndInv, OrderInv, Orderly, PluginChanges PROVE OrderInv'
<1> USE ThreadsDiffer
<1>1. /\ wire = <<>> /\ tasks = <<>> /\ pc["ctl"] = "out" /\ pc["wrk"] = "out" /\ mutex = "none"
      /\ \A a \in Apps : pc[a] \in {"out", "idle"}
  BY RestIsQuiet DEF PluginChanges
<1>2. /\ UNCHANGED <<members, mutex, tasks, pc>> /\ (up' <=> ~up)
      /\ \/ wire' = <<>>
         \/ up /\ wire' = <<"Deactivated">>
         \/ ~up /\ wire' = <<"Activated">>
  <2>1. UNCHANGED <<members, mutex, tasks, pc>> /\ (up' <=> ~up)
    BY DEF PluginChanges
  <2>2. CASE watching
    <3>1. Append(<<>>, "Deactivated") = <<"Deactivated">> /\ Append(<<>>, "Activated") = <<"Activated">>
      OBVIOUS
    <3>2. CASE up
      <4>1. wire' = Append(<<>>, "Deactivated")
        BY <1>1, <2>2, <3>2 DEF PluginChanges
      <4>2. QED
        BY <2>1, <3>1, <3>2, <4>1
    <3>3. CASE ~up
      <4>1. wire' = Append(<<>>, "Activated")
        BY <1>1, <2>2, <3>3 DEF PluginChanges
      <4>2. QED
        BY <2>1, <3>1, <3>3, <4>1
    <3>4. QED
      BY <3>2, <3>3
  <2>3. CASE ~watching
    BY <1>1, <2>1, <2>3 DEF PluginChanges
  <2>4. QED
    BY <2>1, <2>2, <2>3
<1>3. OneAtATime'
  BY <1>1, <1>2 DEF OneAtATime
<1>4. WorkFitsPlugin'
  BY <1>1, <1>2 DEF WorkFitsPlugin, Leaving, Coming
<1>5. PushesInTime'
  <2>1. \A t \in Threads : pc[t] \notin DOMAIN PushAt
    BY <1>1 DEF Threads, PushAt
  <2>2. QED
    BY <1>2, <2>1 DEF PushesInTime
<1>6. Cleared'
  BY <1>1, <1>2 DEF Cleared
<1>7. StateSubscribers'
  <2>1. \A r \in Remotes : <<"state", r>> \notin subs'
    BY DEF PluginChanges, OrderInv, StateSubscribers
  <2>2. QED
    BY <2>1 DEF StateSubscribers
<1>8. QED
  BY <1>3, <1>4, <1>5, <1>6, <1>7 DEF OrderInv

LEMMA OrderInvInit == Init => OrderInv
<1> SUFFICES ASSUME Init
             PROVE  OrderInv
  OBVIOUS
<1>1. \A t \in Threads : pc[t] = "out"
  BY DEF Init
<1>2. OneAtATime /\ WorkFitsPlugin /\ Cleared
  BY <1>1, ThreadsDiffer DEF Init, OneAtATime, WorkFitsPlugin, Leaving, Coming, Cleared
<1>3. PushesInTime /\ StateSubscribers
  BY <1>1 DEF Init, PushesInTime, PushAt, StateSubscribers
<1>4. QED
  BY <1>2, <1>3 DEF OrderInv

LEMMA OrderInvStep ==
  ASSUME Orderly, IndInv, OrderInv, [Next]_vars
  PROVE  OrderInv'
<1>1. ASSUME NEW a \in Apps, AppGoesOn(a) \/ AppCalls(a)
      PROVE  OrderInv'
  BY <1>1, AppStepKeepsOrder, InitStepKeepsOrder
<1>2. CASE EventThread
  BY <1>2, EventThreadKeepsOrder
<1>3. CASE Worker
  BY <1>3, WorkerKeepsOrder
<1>4. CASE PluginChanges
  BY <1>4, PluginKeepsOrder
<1>5. CASE UNCHANGED vars
  <2>1. OneAtATime' /\ WorkFitsPlugin' /\ PushesInTime' /\ Cleared' /\ StateSubscribers'
    BY <1>5 DEF OrderInv, OneAtATime, WorkFitsPlugin, Leaving, Coming, PushesInTime, Cleared, StateSubscribers
  <2>2. QED
    BY <2>1 DEF OrderInv
<1>6. QED
  BY <1>1, <1>2, <1>3, <1>4, <1>5 DEF Next, Crashed

LEMMA OrderInvHolds ==
  ASSUME Orderly
  PROVE  Spec => []OrderInv
<1>1. IndInv /\ OrderInv /\ [Next]_vars => OrderInv'
  BY OrderInvStep
<1>2. QED
  BY <1>1, OrderInvInit, ServiceIndInv, PTL DEF Spec

\* No remote object is subscribed to the state events twice, whichever of the
\* constructors and the worker initializes the service and however often,
\* and whatever calls time out.
THEOREM StatesAreSubscribedOnce ==
  ASSUME Orderly
  PROVE  Spec => SubscribedOnce
<1> DEFINE Once == \A t \in Threads : pc[t] = "initCall" /\ pc'[t] = "initPush" => <<"state", remote>> \notin subs
<1>1. IndInv /\ OrderInv /\ [Next]_vars => [Once]_vars
  <2> SUFFICES ASSUME IndInv, OrderInv, NEW t \in Threads, pc[t] = "initCall"
               PROVE  <<"state", remote>> \notin subs
    OBVIOUS
  <2>1. \A r \in Remotes : <<"state", r>> \notin subs
    BY NoStateSubscriber DEF Locked
  <2>2. <<"state", remote>> \in subs => remote \in Remotes
    BY IndInvParts DEF PluginTypes
  <2>3. QED
    BY <2>1, <2>2
<1>2. QED
  BY <1>1, OrderInvHolds, ServiceIndInv, PTL DEF Spec, SubscribedOnce

--------------------------------------------------------------------------------
(* The second invariant. *)

\* The worker is on its way into initialize(), with an active plugin.
WillInit == wire = <<"Activated">> \/ tasks = <<"activate">> \/ pc["wrk"] \in {"poll", "confirm", "init"}

\* Nobody has been told by the controller whether the plugin is active.
Fresh ==
  /\ ~querySuccess /\ ~active /\ remote = 0 /\ clients = {}
  /\ \A a \in Apps : pc[a] \in {"out", "init", "initActive"}
  /\ pc["wrk"] \in {"out", "install", "poll"}

\* Changes are reported, once the handler is installed, which happens.
Watched == watching \/ Installing
TriesAreFailures ==
  pc["wrk"] \in {"install", "poll"} => tries + (IF answer["wrk"] = "failed" THEN 1 ELSE 0) <= failures

\* What the controller has answered is still so, and only a first try fails.
AnswersHold ==
  \A t \in Threads :
    /\ answer[t] # "none" => pc[t] \in Asking
    /\ answer[t] = "active" => up
    /\ answer[t] = "inactive" => ~up
    /\ answer[t] = "failed" => /\ failures = 1
                               /\ IF t = "wrk" THEN pc[t] = "poll" ELSE pc[t] \in {"initActive", "initForce"}

\* Without an answer stored, somebody will ask again before it matters.
Queried ==
  ~querySuccess =>
    \/ Fresh
    \/ /\ failures = 1
       /\ (mutex # "none" /\ pc[mutex] \in {"initForce", "make", "initSub"}) \/ pc["wrk"] = "poll"

\* An answer from before the plugin came back is replaced by the worker.
Outdated == querySuccess /\ ~active
Refreshed == up /\ Outdated => wire = <<"Activated">> \/ tasks = <<"activate">> \/ pc["wrk"] = "poll"

\* With the plugin there: what initialize() has reached, in each of its states.
Subscribed == <<"state", remote>> \in subs
Linking(l) ==
  /\ l \in {"initActive", "initForce", "make"} => remote = 0
  /\ l = "initForce" => WillInit \/ (failures = 1 /\ answer[mutex] # "failed")
  /\ l = "make" => active \/ WillInit
  /\ l \in {"initCheck", "initCall", "initPush"} => remote # 0
  /\ l \in {"initSub", "initDone"} /\ remote = 0 => WillInit
  /\ l = "initSub" /\ remote # 0 => ~Outdated
  /\ l \in {"initPush", "initDone"} /\ remote # 0 => Subscribed
LinkedWhenUp ==
  up => IF mutex # "none" THEN Linking(pc[mutex])
        ELSE IF remote = 0 THEN WillInit \/ Fresh ELSE initd /\ Subscribed

\* Without it: what is left of the connection goes when the report is handled,
\* and nobody makes another.
UnlinkedWhenDown ==
  ~up => /\ active => remote # 0 /\ (wire = <<"Deactivated">> \/ pc["ctl"] = "uninit")
         /\ remote # 0 => /\ initd /\ mutex = "none"
                          /\ wire = <<"Deactivated">> \/ pc["ctl"] \in {"uninit", "unsubscribe"}

\* m_clients, and what the clients were told.
Serving == {"ctorActive", "idle", "speakActive", "regCheck", "regSet", "sub", "subCall", "subPush",
            "invoke", "invokeCall", "unregister"}
ClientsServed == \A a \in Apps : (a \in clients <=> pc[a] \in Serving) /\ (told[a] = "connected" => a \in clients)
ClientsTold ==
  \A a \in Apps :
    /\ up /\ a \in clients /\ told[a] # "connected" => pc[a] = "ctorActive" \/ Coming
    /\ ~up /\ told[a] = "connected" => Leaving

SettleInv ==
  /\ Watched /\ TriesAreFailures /\ AnswersHold /\ Queried /\ Refreshed
  /\ LinkedWhenUp /\ UnlinkedWhenDown /\ ClientsServed /\ ClientsTold

Settling == FewFailures /\ IndInv /\ OrderInv /\ SettleInv

\* At most one call has failed.
LEMMA FailuresFew ==
  ASSUME Settling
  PROVE  /\ failures \in {0, 1}
         /\ \A call : CallFails(call) => call # "subscribe" /\ failures = 0 /\ failures' = 1
<1>1. failures \in 0..MaxFailures /\ MaxFailures \in {0, 1}
  BY BoundsAssumption, IndInvParts DEF Settling, FewFailures, PluginTypes
<1>2. failures \in {0, 1} /\ (failures < MaxFailures => failures = 0)
  BY <1>1
<1>3. QED
  BY <1>2 DEF CallFails, Settling, FewFailures

\* A thread that is not asking has no answer.
LEMMA NoAnswer ==
  ASSUME Settling, NEW t \in Threads, pc[t] \notin Asking
  PROVE  answer[t] = "none"
BY DEF Settling, SettleInv, AnswersHold

\* A step that leaves one thread without an answer and the others alone.
LEMMA AnswersKept ==
  ASSUME AnswersHold, NEW t \in Threads, answer'[t] = "none",
         \A u \in Threads : u # t => pc'[u] = pc[u] /\ answer'[u] = answer[u],
         up' = up, failures = 1 => failures' = 1
  PROVE  AnswersHold'
<1>1. SUFFICES ASSUME NEW u \in Threads, answer'[u] # "none"
               PROVE  /\ pc'[u] \in Asking
                      /\ answer'[u] = "active" => up'
                      /\ answer'[u] = "inactive" => ~up'
                      /\ answer'[u] = "failed" =>
                           /\ failures' = 1
                           /\ IF u = "wrk" THEN pc'[u] = "poll" ELSE pc'[u] \in {"initActive", "initForce"}
  BY DEF AnswersHold
<1>2. pc'[u] = pc[u] /\ answer'[u] = answer[u]
  BY <1>1
<1>3. QED
  BY <1>1, <1>2 DEF AnswersHold

\* What isActive() returns, and what it has stored.
LEMMA IsActiveStores ==
  ASSUME Settling, NEW t \in Threads, NEW v \in BOOLEAN, IsActive(t, v)
  PROVE  /\ answer'[t] = "none" /\ \A u \in Threads : u # t => answer'[u] = answer[u]
         /\ \/ answer[t] = "active" /\ up /\ querySuccess' /\ active' /\ v
            \/ answer[t] = "inactive" /\ ~up /\ querySuccess' /\ ~active' /\ ~v
            \/ /\ answer[t] = "failed" /\ failures = 1 /\ ~querySuccess' /\ ~active' /\ ~v
               /\ IF t = "wrk" THEN pc[t] = "poll" ELSE pc[t] \in {"initActive", "initForce"}
            \/ /\ pc[t] \notin Forced /\ querySuccess /\ querySuccess' /\ (active' <=> active) /\ (v <=> active)
<1>1. answer \in [Threads -> Replies] /\ AnswersHold
  BY IndInvParts DEF MemberTypes, Settling, SettleInv
<1>2. CASE answer[t] = "none"
  <2>1. answer' = answer /\ pc[t] \notin Forced /\ querySuccess /\ querySuccess' = querySuccess
    BY <1>2 DEF IsActive
  <2>2. active' = active /\ v = active
    BY <1>2 DEF IsActive
  <2>3. QED
    BY <1>2, <2>1, <2>2
<1>3. CASE answer[t] # "none"
  <2>1. answer' = [answer EXCEPT ![t] = "none"]
    BY <1>3 DEF IsActive
  <2>2. querySuccess' <=> answer[t] # "failed"
    BY <1>3 DEF IsActive
  <2>3. (active' <=> answer[t] = "active") /\ (v <=> answer[t] = "active")
    BY <1>3 DEF IsActive
  <2>4. answer[t] \in {"active", "inactive", "failed"}
    BY <1>1, <1>3 DEF Replies
  <2>5. answer'[t] = "none" /\ \A u \in Threads : u # t => answer'[u] = answer[u]
    BY <1>1, <2>1
  <2>6. QED
    BY <1>1, <2>2, <2>3, <2>4, <2>5 DEF AnswersHold
<1>4. QED
  BY <1>2, <1>3

\* What is under way looks the same after the step of another thread.
LEMMA SameWork ==
  ASSUME UNCHANGED <<wire, tasks>>, pc'["wrk"] = pc["wrk"]
  PROVE  (WillInit' <=> WillInit) /\ (Coming' <=> Coming) /\ (Installing' <=> Installing)
BY DEF WillInit, Coming, Installing

LEMMA SameReport ==
  ASSUME UNCHANGED wire, pc'["ctl"] = pc["ctl"]
  PROVE  Leaving' <=> Leaving
BY DEF Leaving

\* The controller answers: only a first try fails.
LEMMA AskKeepsSettled ==
  ASSUME Settling, NEW t \in Threads, Ask(t)
  PROVE  SettleInv'
<1> USE ThreadsDiffer
<1>1. /\ answer \in [Threads -> Replies] /\ PcTypes /\ SettleInv /\ FewFailures
      /\ failures \in {0, 1}
  BY IndInvParts, FailuresFew DEF MemberTypes, Settling
<1>2. UNCHANGED <<members, clients, mutex, tasks, pc, tries, told, plugin, history>> /\ answer[t] = "none"
  BY DEF Ask
<1>3. /\ \A u \in Threads : u # t => answer'[u] = answer[u]
      /\ \/ answer'[t] = (IF up THEN "active" ELSE "inactive") /\ failures' = failures
         \/ answer'[t] = "failed" /\ failures = 0 /\ failures' = 1
  <2>1. CASE answer' = [answer EXCEPT ![t] = IF up THEN "active" ELSE "inactive"] /\ UNCHANGED failures
    BY <1>1, <2>1
  <2>2. CASE CallFails("status") /\ answer' = [answer EXCEPT ![t] = "failed"]
    BY <1>1, <2>2, FailuresFew
  <2>3. QED
    BY <2>1, <2>2 DEF Ask
<1>4. /\ (WillInit' <=> WillInit) /\ (Coming' <=> Coming) /\ (Installing' <=> Installing)
      /\ (Leaving' <=> Leaving) /\ (Fresh' <=> Fresh)
  BY <1>2, SameWork, SameReport DEF Fresh
<1>5. failures = 0 => \A u \in Threads : answer[u] # "failed"
  BY <1>1 DEF SettleInv, AnswersHold
<1>6. answer'[t] = "failed" => IF t = "wrk" THEN pc[t] = "poll" ELSE pc[t] \in {"initActive", "initForce"}
  <2>1. SUFFICES ASSUME failures = 0
                 PROVE  IF t = "wrk" THEN pc[t] = "poll" ELSE pc[t] \in {"initActive", "initForce"}
    BY <1>1, <1>3
  <2>2. CASE pc[t] \in Forced
    <3>1. pc[t] = "poll" => t = "wrk"
      BY <1>1 DEF PcTypes, AppStates, CtlStates, Threads
    <3>2. t = "wrk" => pc[t] # "initForce"
      <4>1. SUFFICES ASSUME t = "wrk", pc["wrk"] = "initForce"
                     PROVE  FALSE
        OBVIOUS
      <4>2. mutex = "wrk" /\ mutex # "none"
        BY <4>1, Holder DEF Settling, Locked
      <4>3. up /\ wire # <<"Activated">> /\ tasks # <<"activate">>
        BY <4>1 DEF Settling, OrderInv, OneAtATime, WorkFitsPlugin, Coming
      <4>4. WillInit
        BY <1>1, <2>1, <4>1, <4>2, <4>3 DEF SettleInv, LinkedWhenUp, Linking
      <4>5. QED
        BY <4>1, <4>3, <4>4 DEF WillInit
    <3>3. QED
      BY <2>2, <3>1, <3>2 DEF Forced
  <2>3. CASE pc[t] \notin Forced
    <3>1. Fresh
      BY <1>1, <2>1, <2>3 DEF Ask, SettleInv, Queried
    <3>2. QED
      BY <2>3, <3>1, <1>1 DEF Fresh, Ask, Asking, Threads, PcTypes, CtlStates
  <2>4. QED
    BY <2>2, <2>3
<1>7. AnswersHold'
  <2>1. SUFFICES ASSUME NEW u \in Threads
                 PROVE  /\ answer'[u] # "none" => pc[u] \in Asking
                        /\ answer'[u] = "active" => up
                        /\ answer'[u] = "inactive" => ~up
                        /\ answer'[u] = "failed" =>
                             /\ failures' = 1
                             /\ IF u = "wrk" THEN pc[u] = "poll" ELSE pc[u] \in {"initActive", "initForce"}
    BY <1>2 DEF AnswersHold
  <2>2. CASE u = t
    BY <1>3, <1>6, <2>2 DEF Ask
  <2>3. CASE u # t
    BY <1>1, <1>3, <1>5, <2>3 DEF SettleInv, AnswersHold
  <2>4. QED
    BY <2>2, <2>3
<1>8. TriesAreFailures'
  <2>1. tries \in Nat
    BY IndInvParts DEF Settling, MemberTypes
  <2>2. CASE t = "wrk"
    BY <1>1, <1>2, <1>3, <2>1, <2>2 DEF SettleInv, TriesAreFailures
  <2>3. CASE t # "wrk"
    BY <1>1, <1>2, <1>3, <2>1, <2>3 DEF SettleInv, TriesAreFailures
  <2>4. QED
    BY <2>2, <2>3
<1>9. Watched' /\ Queried' /\ Refreshed'
  BY <1>1, <1>2, <1>3, <1>4 DEF SettleInv, Watched, Queried, Refreshed, Outdated
<1>10. LinkedWhenUp'
  <2>1. ASSUME up, mutex # "none"
        PROVE  Linking(pc[mutex])'
    <3>1. Linking(pc[mutex]) /\ mutex \in Threads
      BY <1>1, <2>1, Holder DEF Settling, SettleInv, LinkedWhenUp
    <3>2. pc[mutex] = "initForce" => WillInit' \/ (failures' = 1 /\ answer'[mutex'] # "failed")
      BY <1>2, <1>3, <1>4, <3>1 DEF Linking
    <3>3. (Outdated' <=> Outdated) /\ (Subscribed' <=> Subscribed)
      BY <1>2 DEF Outdated, Subscribed
    <3>4. QED
      BY <1>2, <1>4, <3>1, <3>2, <3>3 DEF Linking
  <2>2. QED
    BY <1>1, <1>2, <1>4, <2>1 DEF SettleInv, LinkedWhenUp, Subscribed
<1>11. UnlinkedWhenDown' /\ ClientsServed' /\ ClientsTold'
  BY <1>1, <1>2, <1>4 DEF SettleInv, UnlinkedWhenDown, ClientsServed, ClientsTold
<1>12. QED
  BY <1>7, <1>8, <1>9, <1>10, <1>11 DEF SettleInv

--------------------------------------------------------------------------------
(* Inside TextToSpeechService::initialize(), holding m_mutex. *)

\* What the thread inside may count on.
LEMMA InsideLinked ==
  ASSUME Settling, NEW t \in Threads, pc[t] \in Locked
  PROVE  /\ mutex = t /\ mutex # "none"
         /\ up => Linking(pc[t])
         /\ ~up => remote = 0 /\ ~active
         /\ ~querySuccess /\ pc[t] # "initActive" =>
              failures = 1 /\ (pc[t] \in {"initForce", "make", "initSub"} \/ (pc["wrk"] = "poll" /\ t # "wrk"))
<1> USE ThreadsDiffer
<1>1. mutex = t /\ mutex # "none" /\ IndInv /\ SettleInv
  BY Holder DEF Settling
<1>2. up => Linking(pc[t])
  BY <1>1 DEF SettleInv, LinkedWhenUp
<1>3. ~up => remote = 0 /\ ~active
  BY <1>1 DEF SettleInv, UnlinkedWhenDown
<1>4. Fresh => pc[t] = "initActive"
  BY <1>1, IndInvParts DEF Fresh, Threads, PcTypes, CtlStates, Locked
<1>5. pc["wrk"] = "poll" => t # "wrk"
  BY DEF Locked
<1>6. QED
  BY <1>1, <1>2, <1>3, <1>4, <1>5 DEF SettleInv, Queried

\* A step from one place inside to the next is none of the worker's tasks.
LEMMA InsideWork ==
  ASSUME Settling, NEW t \in Apps \cup {"wrk"}, NEW l \in Locked, Goto(t, l), pc[t] \in Locked,
         UNCHANGED <<wire, tasks>>
  PROVE  /\ (WillInit' <=> WillInit) /\ (Coming' <=> Coming) /\ (Installing' <=> Installing)
         /\ pc'["wrk"] \in {"install", "poll"} => pc'["wrk"] = pc["wrk"] /\ t # "wrk"
         /\ pc["wrk"] = "poll" => pc'["wrk"] = "poll"
<1>1. pc'[t] = l /\ (t # "wrk" => pc'["wrk"] = pc["wrk"])
  BY ThreadMoves DEF Settling
<1>2. CASE t = "wrk"
  <2>1. pc["wrk"] \in Locked /\ pc'["wrk"] \in Locked
    BY <1>1, <1>2
  <2>2. QED
    BY <2>1 DEF WillInit, Coming, Installing, Locked
<1>3. CASE t # "wrk"
  BY <1>1, <1>3, SameWork
<1>4. QED
  BY <1>2, <1>3

\* What such a step has to establish.
LEMMA InsideKept ==
  ASSUME Settling, NEW t \in Apps \cup {"wrk"}, NEW l \in Locked, Goto(t, l), pc[t] \in Locked,
         answer'[t] = "none", \A u \in Threads : u # t => answer'[u] = answer[u],
         UNCHANGED <<initd, clients, mutex, tasks, tries, told, up, watching, wire, failures>>,
         up => Linking(l)',
         ~up => remote' = 0 /\ ~active',
         ~querySuccess' =>
           failures = 1 /\ (l \in {"initForce", "make", "initSub"} \/ (pc["wrk"] = "poll" /\ t # "wrk")),
         up /\ Outdated' => Outdated
  PROVE  SettleInv'
<1> USE ThreadsDiffer
<1>1. /\ t \in Threads /\ t # "ctl" /\ t # "none" /\ pc'[t] = l /\ \A u \in Threads : u # t => pc'[u] = pc[u]
      /\ pc'["ctl"] = pc["ctl"] /\ (t \in Apps => pc'["wrk"] = pc["wrk"])
  BY ThreadMoves DEF Settling
<1>2. mutex = t /\ SettleInv
  BY <1>1, InsideLinked DEF Settling
<1>3. /\ (WillInit' <=> WillInit) /\ (Coming' <=> Coming) /\ (Installing' <=> Installing)
      /\ (pc'["wrk"] \in {"install", "poll"} => pc'["wrk"] = pc["wrk"] /\ t # "wrk")
      /\ (pc["wrk"] = "poll" => pc'["wrk"] = "poll")
  BY InsideWork
<1>4. Leaving' <=> Leaving
  BY <1>1, SameReport
<1>5. Watched' /\ TriesAreFailures'
  BY <1>1, <1>2, <1>3 DEF SettleInv, Watched, TriesAreFailures
<1>6. AnswersHold'
  BY <1>1, <1>2, AnswersKept DEF SettleInv
<1>7. Queried'
  BY <1>1, <1>2, <1>3 DEF Queried
<1>8. Refreshed'
  BY <1>2, <1>3 DEF SettleInv, Refreshed
<1>9. LinkedWhenUp' /\ UnlinkedWhenDown'
  BY <1>1, <1>2 DEF LinkedWhenUp, UnlinkedWhenDown
<1>10. ClientsServed'
  <2>1. \A a \in Apps : pc'[a] \in Serving <=> pc[a] \in Serving
    <3>1. pc[t] \notin Serving /\ pc'[t] \notin Serving
      BY <1>1 DEF Locked, Serving
    <3>2. QED
      BY <1>1, <3>1
  <2>2. QED
    BY <1>2, <2>1 DEF SettleInv, ClientsServed
<1>11. ClientsTold'
  <2>1. \A a \in Apps : pc[a] = "ctorActive" => pc'[a] = "ctorActive"
    BY <1>1 DEF Locked
  <2>2. QED
    BY <1>2, <1>3, <1>4, <2>1 DEF SettleInv, ClientsTold
<1>12. QED
  BY <1>5, <1>6, <1>7, <1>8, <1>9, <1>10, <1>11 DEF SettleInv

LEMMA InitActiveKeepsSettled ==
  ASSUME Settling, NEW t \in Apps \cup {"wrk"}, InitActive(t)
  PROVE  SettleInv'
<1> USE ThreadsDiffer
<1>1. PICK v \in BOOLEAN : IsActive(t, v) /\ Goto(t, IF v THEN "make" ELSE "initForce")
  BY DEF InitActive
<1>2. /\ pc[t] = "initActive" /\ pc[t] \in Locked /\ t \in Threads
      /\ UNCHANGED <<remote, initd, clients, mutex, tasks, tries, told, up, watching, wire, failures>>
  BY DEF InitActive, Locked
<1>3. mutex = t /\ (up => remote = 0) /\ (~up => remote = 0 /\ ~active)
  BY <1>2, InsideLinked DEF Linking
<1>4. /\ answer'[t] = "none" /\ \A u \in Threads : u # t => answer'[u] = answer[u]
      /\ \/ up /\ querySuccess' /\ active' /\ v
         \/ ~up /\ querySuccess' /\ ~active' /\ ~v
         \/ failures = 1 /\ ~querySuccess' /\ ~active' /\ ~v
         \/ querySuccess /\ querySuccess' /\ (active' <=> active) /\ (v <=> active)
  BY <1>1, <1>2, IsActiveStores
<1>5. up /\ Outdated => WillInit
  BY DEF Settling, SettleInv, Refreshed, WillInit
<1>6. CASE v
  <2>1. Goto(t, "make") /\ active' /\ querySuccess'
    BY <1>1, <1>4, <1>6
  <2>2. up => Linking("make")'
    BY <1>2, <1>3, <2>1 DEF Linking
  <2>3. ~up => remote' = 0 /\ ~active'
    BY <1>2, <1>3, <1>4, <1>6
  <2>4. QED
    BY <1>2, <1>4, <2>1, <2>2, <2>3, InsideKept DEF Locked, Outdated
<1>7. CASE ~v
  <2>1. Goto(t, "initForce") /\ ~active' /\ (up /\ Outdated' => Outdated)
    BY <1>1, <1>4, <1>7 DEF Outdated
  <2>2. up => WillInit' \/ failures' = 1
    <3>1. up /\ failures # 1 => Outdated
      BY <1>4, <1>7 DEF Outdated
    <3>2. WillInit' <=> WillInit
      BY <1>2, <2>1, InsideWork DEF Locked
    <3>3. QED
      BY <1>2, <1>5, <3>1, <3>2
  <2>3. up => Linking("initForce")'
    BY <1>2, <1>3, <1>4, <2>2 DEF Linking
  <2>4. ~querySuccess' => failures = 1
    BY <1>4
  <2>5. QED
    BY <1>2, <1>3, <1>4, <2>1, <2>3, <2>4, InsideKept DEF Locked
<1>8. QED
  BY <1>6, <1>7

LEMMA InitForceKeepsSettled ==
  ASSUME Settling, NEW t \in Apps \cup {"wrk"}, InitForce(t)
  PROVE  SettleInv'
<1> USE ThreadsDiffer
<1>1. PICK v \in BOOLEAN : IsActive(t, v)
  BY DEF InitForce
<1>2. /\ pc[t] = "initForce" /\ pc[t] \in Locked /\ t \in Threads /\ Goto(t, "make")
      /\ UNCHANGED <<remote, initd, clients, mutex, tasks, tries, told, up, watching, wire, failures>>
  BY DEF InitForce, Locked
<1>3. /\ mutex = t /\ (up => remote = 0) /\ (~up => remote = 0 /\ ~active)
      /\ up => WillInit \/ (failures = 1 /\ answer[t] # "failed")
  BY <1>2, InsideLinked DEF Linking
<1>4. /\ answer'[t] = "none" /\ \A u \in Threads : u # t => answer'[u] = answer[u]
      /\ \/ up /\ querySuccess' /\ active'
         \/ ~up /\ querySuccess' /\ ~active'
         \/ answer[t] = "failed" /\ failures = 1 /\ ~querySuccess' /\ ~active'
  BY <1>1, <1>2, IsActiveStores DEF Forced
<1>5. up => active' \/ WillInit'
  <2>1. WillInit' <=> WillInit
    BY <1>2, InsideWork DEF Locked
  <2>2. QED
    BY <1>3, <1>4, <2>1
<1>6. up => Linking("make")'
  BY <1>2, <1>3, <1>5 DEF Linking
<1>7. QED
  BY <1>2, <1>3, <1>4, <1>6, InsideKept DEF Locked, Outdated

LEMMA MakeKeepsSettled ==
  ASSUME Settling, NEW t \in Apps \cup {"wrk"}, Make(t)
  PROVE  SettleInv'
<1> USE ThreadsDiffer
<1>1. /\ pc[t] = "make" /\ pc[t] \in Locked /\ t \in Threads /\ Goto(t, "initSub")
      /\ UNCHANGED <<active, querySuccess, initd, clients, mutex, tasks, answer, tries, told, up, watching, wire,
                     failures>>
  BY DEF Make, Locked
<1>2. /\ mutex = t /\ (up => remote = 0 /\ (active \/ WillInit)) /\ (~up => remote = 0 /\ ~active)
      /\ ~querySuccess => failures = 1
  BY <1>1, InsideLinked DEF Linking
<1>3. answer[t] = "none"
  BY <1>1, NoAnswer DEF Asking, Forced
<1>4. WillInit' <=> WillInit
  BY <1>1, InsideWork DEF Locked
<1>5. IF active THEN remote' # 0 ELSE remote' = 0
  <2>1. lastRemote \in Nat
    BY IndInvParts, BoundsAssumption DEF Settling, PluginTypes, Remotes
  <2>2. CASE active
    BY <1>2, <2>1, <2>2 DEF Make
  <2>3. CASE ~active
    BY <1>2, <2>3 DEF Make
  <2>4. QED
    BY <2>2, <2>3
<1>6. up => Linking("initSub")'
  BY <1>1, <1>2, <1>4, <1>5 DEF Linking, Outdated
<1>7. ~up => remote' = 0 /\ ~active'
  BY <1>1, <1>2, <1>5
<1>8. QED
  BY <1>1, <1>2, <1>3, <1>6, <1>7, InsideKept DEF Locked, Outdated

LEMMA InitSubKeepsSettled ==
  ASSUME Settling, NEW t \in Apps \cup {"wrk"}, InitSub(t)
  PROVE  SettleInv'
<1> USE ThreadsDiffer
<1>1. PICK v \in BOOLEAN : IsActive(t, v) /\ Goto(t, IF v /\ remote # 0 THEN "initCheck" ELSE "initDone")
  BY DEF InitSub
<1>2. /\ pc[t] = "initSub" /\ pc[t] \in Locked /\ t \in Threads
      /\ UNCHANGED <<remote, initd, clients, mutex, tasks, tries, told, up, watching, wire, failures>>
  BY DEF InitSub, Locked
<1>3. /\ mutex = t /\ (~up => remote = 0 /\ ~active)
      /\ up => IF remote = 0 THEN WillInit ELSE ~Outdated
  BY <1>2, InsideLinked DEF Linking
<1>4. /\ answer'[t] = "none" /\ \A u \in Threads : u # t => answer'[u] = answer[u]
      /\ querySuccess'
      /\ \/ up /\ active' /\ v
         \/ ~up /\ ~active' /\ ~v
         \/ querySuccess /\ (active' <=> active) /\ (v <=> active)
  BY <1>1, <1>2, IsActiveStores
<1>5. (~up => remote' = 0 /\ ~active') /\ (up /\ Outdated' => Outdated)
  BY <1>2, <1>3, <1>4 DEF Outdated
<1>6. CASE up /\ remote # 0
  <2>1. Goto(t, "initCheck")
    BY <1>1, <1>3, <1>4, <1>6 DEF Outdated
  <2>2. Linking("initCheck")'
    BY <1>2, <1>6 DEF Linking
  <2>3. QED
    BY <1>2, <1>4, <1>5, <1>6, <2>1, <2>2, InsideKept DEF Locked
<1>7. CASE ~(up /\ remote # 0)
  <2>1. Goto(t, "initDone")
    BY <1>1, <1>3, <1>7
  <2>2. WillInit' <=> WillInit
    BY <1>2, <2>1, InsideWork DEF Locked
  <2>3. up => Linking("initDone")'
    BY <1>2, <1>3, <1>7, <2>2 DEF Linking
  <2>4. QED
    BY <1>2, <1>4, <1>5, <2>1, <2>3, InsideKept DEF Locked
<1>8. QED
  BY <1>6, <1>7

\* The subscription to the state events.
LEMMA SubscribingKeepsSettled ==
  ASSUME Settling, NEW t \in Apps \cup {"wrk"}, pc[t] \in {"initCheck", "initCall", "initPush"},
         SubscribeCheck(t) \/ SubscribeCall(t) \/ SubscribePush(t)
  PROVE  SettleInv'
<1> USE ThreadsDiffer
<1>1. pc[t] \in Locked /\ t \in Threads
  BY DEF Locked
<1>2. /\ mutex = t /\ (~up => remote = 0 /\ ~active)
      /\ up => Linking(pc[t])
      /\ ~querySuccess => failures = 1 /\ pc["wrk"] = "poll" /\ t # "wrk"
  BY <1>1, InsideLinked
<1>3. answer[t] = "none"
  BY <1>1, NoAnswer DEF Asking, Forced
<1>4. /\ UNCHANGED <<active, querySuccess, remote, initd, clients, mutex, tasks, answer, tries, told, up, watching,
                     wire>>
      /\ SubscribeCall(t) \/ UNCHANGED failures
  BY DEF SubscribeCheck, SubscribeCall, SubscribePush
<1>5. UNCHANGED failures
  BY <1>4, FailuresFew DEF SubscribeCall
<1>6. PICK l \in {"initCall", "initPush", "initDone"} :
        /\ Goto(t, l)
        /\ up => /\ pc[t] = "initCheck" => l = "initCall"
                 /\ pc[t] = "initCall" => l = "initPush" /\ subs' = subs \cup {<<"state", remote>>}
                 /\ pc[t] = "initPush" => l = "initDone" /\ subs' = subs
  <2>1. up => remote # 0
    BY <1>2 DEF Linking
  <2>2. CASE SubscribeCheck(t)
    BY <2>1, <2>2 DEF SubscribeCheck, SubscribeAt, NextOf, AfterSub
  <2>3. CASE SubscribeCall(t)
    BY <2>1, <2>3, FailuresFew DEF SubscribeCall, CallAt, NextOf, AfterSub
  <2>4. CASE SubscribePush(t)
    BY <2>4 DEF SubscribePush, PushAt, NextOf, AfterSub
  <2>5. QED
    BY <2>2, <2>3, <2>4
<1>7. up => Linking(l)'
  <2>1. SUFFICES ASSUME up
                 PROVE  Linking(l)'
    OBVIOUS
  <2>2. remote' # 0 /\ (pc[t] = "initPush" => Subscribed)
    BY <1>2, <1>4, <2>1 DEF Linking
  <2>3. l \in {"initPush", "initDone"} => Subscribed'
    BY <1>4, <1>6, <2>1, <2>2 DEF Subscribed
  <2>4. QED
    BY <1>6, <2>2, <2>3 DEF Linking
<1>8. QED
  BY <1>1, <1>2, <1>3, <1>4, <1>5, <1>6, <1>7, InsideKept DEF Locked, Outdated

--------------------------------------------------------------------------------
(* The application threads outside of it. *)

\* What such a step keeps if isActive() has told it no more than is known.
LEMMA OutsideKept ==
  ASSUME Settling, NEW a \in Apps, NEW l, Goto(a, l), pc[a] \notin Locked,
         answer'[a] = "none", \A u \in Threads : u # a => answer'[u] = answer[u],
         UNCHANGED <<remote, initd, mutex, tasks, tries, up, watching, wire, failures>>, subs \subseteq subs',
         up => (active => active') /\ (Outdated' => Outdated),
         ~up => (active' => active),
         querySuccess => querySuccess', Fresh => Fresh'
  PROVE  /\ Watched' /\ TriesAreFailures' /\ AnswersHold' /\ Queried' /\ Refreshed'
         /\ LinkedWhenUp' /\ UnlinkedWhenDown'
<1> USE ThreadsDiffer
<1>1. /\ a \in Threads /\ a # "wrk" /\ a # "none" /\ \A u \in Threads : u # a => pc'[u] = pc[u]
      /\ pc'["ctl"] = pc["ctl"] /\ pc'["wrk"] = pc["wrk"] /\ answer'["wrk"] = answer["wrk"]
  BY ThreadMoves DEF Settling
<1>2. mutex # a /\ (mutex # "none" => mutex \in Threads /\ pc'[mutex] = pc[mutex] /\ answer'[mutex] = answer[mutex])
      /\ SettleInv
  BY <1>1, Holder DEF Settling
<1>3. (WillInit' <=> WillInit) /\ (Installing' <=> Installing)
  BY <1>1, SameWork
<1>4. Watched' /\ TriesAreFailures'
  BY <1>1, <1>2, <1>3 DEF SettleInv, Watched, TriesAreFailures
<1>5. AnswersHold'
  BY <1>1, <1>2, AnswersKept DEF SettleInv
<1>6. Queried'
  BY <1>1, <1>2 DEF SettleInv, Queried
<1>7. Refreshed'
  BY <1>1, <1>2 DEF SettleInv, Refreshed
<1>8. LinkedWhenUp'
  <2>1. ASSUME up, mutex # "none"
        PROVE  Linking(pc[mutex])'
    <3>1. Linking(pc[mutex]) /\ mutex' = mutex /\ pc'[mutex] = pc[mutex] /\ answer'[mutex] = answer[mutex]
      BY <1>2, <2>1 DEF SettleInv, LinkedWhenUp
    <3>2. Subscribed => Subscribed'
      BY DEF Subscribed
    <3>3. QED
      BY <1>3, <2>1, <3>1, <3>2 DEF Linking
  <2>2. ASSUME up, mutex = "none"
        PROVE  IF remote' = 0 THEN WillInit' \/ Fresh' ELSE initd' /\ Subscribed'
    BY <1>2, <1>3, <2>2 DEF SettleInv, LinkedWhenUp, Subscribed
  <2>3. QED
    BY <2>1, <2>2 DEF LinkedWhenUp
<1>9. UnlinkedWhenDown'
  BY <1>1, <1>2 DEF SettleInv, UnlinkedWhenDown
<1>10. QED
  BY <1>4, <1>5, <1>6, <1>7, <1>8, <1>9

\* The clients, when no callback is called and none comes or goes.
LEMMA ClientsKept ==
  ASSUME Settling, NEW a \in Apps, NEW l, Goto(a, l), UNCHANGED <<clients, told, tasks, wire, up>>,
         pc[a] # "ctorActive", pc[a] \in Serving <=> l \in Serving
  PROVE  ClientsServed' /\ ClientsTold'
<1> USE ThreadsDiffer
<1>1. pc'[a] = l /\ (\A u \in Threads : u # a => pc'[u] = pc[u]) /\ SettleInv
      /\ pc'["ctl"] = pc["ctl"] /\ pc'["wrk"] = pc["wrk"]
  BY ThreadMoves DEF Settling
<1>2. (Coming' <=> Coming) /\ (Leaving' <=> Leaving)
  BY <1>1, SameWork, SameReport
<1>3. \A b \in Apps : (pc'[b] \in Serving <=> pc[b] \in Serving) /\ (pc[b] = "ctorActive" => pc'[b] = "ctorActive")
  BY <1>1
<1>4. ClientsServed'
  BY <1>1, <1>3 DEF SettleInv, ClientsServed
<1>5. ClientsTold'
  BY <1>1, <1>2, <1>3 DEF SettleInv, ClientsTold
<1>6. QED
  BY <1>4, <1>5

\* The steps that leave the cached state and the clients alone.
LEMMA QuietStepKeepsSettled ==
  ASSUME Settling, NEW a \in Apps,
         \/ Create(a) \/ Speak(a) \/ Delete(a) \/ RegSet(a) \/ InvokeCheck(a) \/ InvokeCall(a)
         \/ pc[a] \in {"sub", "subCall", "subPush"} /\ (SubscribeCheck(a) \/ SubscribeCall(a) \/ SubscribePush(a))
  PROVE  SettleInv'
<1> USE ThreadsDiffer
<1> DEFINE Subscribes == /\ pc[a] \in {"sub", "subCall", "subPush"}
                         /\ SubscribeCheck(a) \/ SubscribeCall(a) \/ SubscribePush(a)
<1>1. PICK l : /\ Goto(a, l) /\ pc[a] \notin Locked /\ pc[a] \notin Asking
               /\ pc[a] \in Serving <=> l \in Serving
               /\ pc[a] \in {"out", "init", "initActive"} => l = "init"
  <2>1. CASE Create(a)
    BY <2>1 DEF Create, Locked, Asking, Forced, Serving
  <2>2. CASE Speak(a) \/ Delete(a) \/ RegSet(a) \/ InvokeCheck(a) \/ InvokeCall(a)
    BY <2>2 DEF Speak, Delete, RegSet, InvokeCheck, InvokeCall, Locked, Asking, Forced, Serving
  <2>3. CASE Subscribes
    BY <2>3 DEF SubscribeCheck, SubscribeCall, SubscribePush, SubscribeAt, CallAt, PushAt, NextOf, AfterSub, Locked,
               Asking, Forced, Serving
  <2>4. QED
    BY <2>1, <2>2, <2>3
<1>2. /\ UNCHANGED <<active, querySuccess, remote, initd, mutex, tasks, answer, tries, up, watching, wire, clients,
                     told>>
      /\ subs \subseteq subs'
  <2>1. CASE Create(a) \/ Speak(a) \/ Delete(a) \/ RegSet(a) \/ InvokeCheck(a) \/ InvokeCall(a)
    BY <2>1 DEF Create, Speak, Delete, RegSet, InvokeCheck, InvokeCall
  <2>2. CASE Subscribes
    BY <2>2 DEF SubscribeCheck, SubscribeCall, SubscribePush
  <2>3. QED
    BY <2>1, <2>2
<1>3. UNCHANGED failures
  <2>1. CASE Create(a) \/ Speak(a) \/ Delete(a) \/ RegSet(a) \/ InvokeCheck(a) \/ InvokeCall(a)
    BY <2>1 DEF Create, Speak, Delete, RegSet, InvokeCheck, InvokeCall
  <2>2. CASE Subscribes
    BY <2>2, FailuresFew DEF SubscribeCheck, SubscribeCall, SubscribePush
  <2>3. QED
    BY <2>1, <2>2
<1>4. answer'[a] = "none"
  BY <1>1, <1>2, NoAnswer
<1>5. Fresh => Fresh'
  <2>1. pc'[a] = l /\ (\A u \in Threads : u # a => pc'[u] = pc[u]) /\ pc'["wrk"] = pc["wrk"]
    BY <1>1, ThreadMoves DEF Settling
  <2>2. QED
    BY <1>1, <1>2, <2>1 DEF Fresh
<1>6. /\ Watched' /\ TriesAreFailures' /\ AnswersHold' /\ Queried' /\ Refreshed'
      /\ LinkedWhenUp' /\ UnlinkedWhenDown'
  BY <1>1, <1>2, <1>3, <1>4, <1>5, OutsideKept DEF Outdated
<1>7. ClientsServed' /\ ClientsTold'
  BY <1>1, <1>2, ClientsKept DEF Asking
<1>8. QED
  BY <1>6, <1>7 DEF SettleInv

\* A client comes or goes, in its constructor or destructor.
LEMMA RegistryKeepsSettled ==
  ASSUME Settling, NEW a \in Apps, Register(a) \/ Unregister(a)
  PROVE  SettleInv'
<1> USE ThreadsDiffer
<1>1. SettleInv /\ a \in Threads /\ told \in [Apps -> {"nothing", "connected", "closed"}]
  BY IndInvParts DEF Settling, MemberTypes
<1>2. /\ UNCHANGED <<members, mutex, tasks, answer, tries, plugin, failures>>
      /\ pc[a] \in {"register", "unregister"}
      /\ \E l \in {"ctorActive", "out"} : Goto(a, l)
  BY DEF Register, Unregister
<1>3. /\ (\A u \in Threads : u # a => pc'[u] = pc[u])
      /\ pc'["ctl"] = pc["ctl"] /\ pc'["wrk"] = pc["wrk"]
      /\ Register(a) => pc'[a] = "ctorActive"
      /\ Unregister(a) => pc'[a] = "out"
  BY <1>2, ThreadMoves DEF Settling, Register, Unregister
<1>4. (Coming' <=> Coming) /\ (Leaving' <=> Leaving)
  BY <1>2, <1>3, SameWork, SameReport
<1>5. answer'[a] = "none"
  BY <1>1, <1>2, NoAnswer DEF Asking, Forced
<1>6. ~Fresh
  BY <1>2 DEF Fresh
<1>7. /\ Watched' /\ TriesAreFailures' /\ AnswersHold' /\ Queried' /\ Refreshed'
      /\ LinkedWhenUp' /\ UnlinkedWhenDown'
  BY <1>2, <1>5, <1>6, OutsideKept DEF Outdated, Locked
<1>8. CASE Register(a)
  <2>1. clients' = clients \cup {a} /\ told' = told
    BY <1>8 DEF Register
  <2>2. ClientsServed'
    BY <1>1, <1>3, <1>8, <2>1 DEF SettleInv, ClientsServed, Serving
  <2>3. ClientsTold'
    BY <1>1, <1>2, <1>3, <1>4, <1>8, <2>1 DEF SettleInv, ClientsTold
  <2>4. QED
    BY <1>7, <2>2, <2>3 DEF SettleInv
<1>9. CASE Unregister(a)
  <2>1. /\ clients' = clients \ {a} /\ told'[a] = "nothing"
        /\ \A b \in Apps : b # a => told'[b] = told[b]
    BY <1>1, <1>9 DEF Unregister
  <2>2. ClientsServed'
    BY <1>1, <1>3, <1>9, <2>1 DEF SettleInv, ClientsServed, Serving
  <2>3. ClientsTold'
    BY <1>1, <1>2, <1>3, <1>4, <1>9, <2>1 DEF SettleInv, ClientsTold
  <2>4. QED
    BY <1>7, <2>2, <2>3 DEF SettleInv
<1>10. QED
  BY <1>8, <1>9

\* A client asks isActive(): in its constructor, it is told.
LEMMA QuestionKeepsSettled ==
  ASSUME Settling, NEW a \in Apps, CtorActive(a) \/ SpeakActive(a) \/ RegCheck(a)
  PROVE  SettleInv'
<1> USE ThreadsDiffer
<1>1. SettleInv /\ a \in Threads /\ a # "wrk" /\ told \in [Apps -> {"nothing", "connected", "closed"}]
  BY IndInvParts DEF Settling, MemberTypes
<1>2. PICK l \in {"idle", "regCheck", "regSet", "invoke"}, v \in BOOLEAN :
        /\ Goto(a, l) /\ IsActive(a, v) /\ pc[a] \in {"ctorActive", "speakActive", "regCheck"}
        /\ \/ pc[a] # "ctorActive" /\ told' = told
           \/ pc[a] = "ctorActive" /\ told' = [told EXCEPT ![a] = IF v THEN "connected" ELSE @]
  BY DEF CtorActive, SpeakActive, RegCheck
<1>3. UNCHANGED <<remote, initd, mutex, clients, tasks, tries, plugin, failures>>
  BY DEF CtorActive, SpeakActive, RegCheck
<1>4. /\ answer'[a] = "none" /\ \A u \in Threads : u # a => answer'[u] = answer[u]
      /\ querySuccess'
      /\ \/ up /\ active' /\ v
         \/ ~up /\ ~active' /\ ~v
         \/ querySuccess /\ (active' <=> active) /\ (v <=> active)
  BY <1>1, <1>2, IsActiveStores
<1>5. ~Fresh
  BY <1>2 DEF Fresh
<1>6. /\ Watched' /\ TriesAreFailures' /\ AnswersHold' /\ Queried' /\ Refreshed'
      /\ LinkedWhenUp' /\ UnlinkedWhenDown'
  BY <1>2, <1>3, <1>4, <1>5, OutsideKept DEF Outdated, Locked
<1>7. CASE pc[a] # "ctorActive"
  <2>1. ClientsServed' /\ ClientsTold'
    BY <1>2, <1>3, <1>7, ClientsKept DEF Serving
  <2>2. QED
    BY <1>6, <2>1 DEF SettleInv
<1>8. CASE pc[a] = "ctorActive"
  <2>1. /\ pc'[a] = l /\ (\A u \in Threads : u # a => pc'[u] = pc[u])
        /\ pc'["ctl"] = pc["ctl"] /\ pc'["wrk"] = pc["wrk"]
    BY <1>2, ThreadMoves DEF Settling
  <2>2. (Coming' <=> Coming) /\ (Leaving' <=> Leaving)
    BY <1>3, <2>1, SameWork, SameReport
  <2>3. told'[a] = (IF v THEN "connected" ELSE told[a]) /\ \A b \in Apps : b # a => told'[b] = told[b]
    BY <1>1, <1>2, <1>8
  <2>4. a \in clients
    BY <1>1, <1>8 DEF SettleInv, ClientsServed, Serving
  <2>5. ClientsServed'
    BY <1>1, <1>2, <1>3, <1>8, <2>1, <2>3, <2>4 DEF SettleInv, ClientsServed, Serving
  <2>6. up /\ ~v => Coming
    BY <1>1, <1>4 DEF SettleInv, Refreshed, Outdated, Coming
  <2>7. ~up /\ v => Leaving
    BY <1>1, <1>4 DEF SettleInv, UnlinkedWhenDown, Leaving
  <2>8. ClientsTold'
    BY <1>1, <1>3, <2>1, <2>2, <2>3, <2>6, <2>7 DEF SettleInv, ClientsTold
  <2>9. QED
    BY <1>6, <2>5, <2>8 DEF SettleInv
<1>9. QED
  BY <1>7, <1>8

--------------------------------------------------------------------------------
(* Into initialize() and out of it. *)

LEMMA EnterKeepsSettled ==
  ASSUME Settling, NEW t \in Apps \cup {"wrk"}, InitEnter(t)
  PROVE  SettleInv'
<1> USE ThreadsDiffer
<1>1. /\ SettleInv /\ t \in Threads /\ t # "ctl" /\ t # "none" /\ pc[t] = "init" /\ mutex = "none"
      /\ UNCHANGED <<members, clients, tasks, answer, tries, told, plugin, failures>>
  BY DEF Settling, InitEnter
<1>2. PICK l \in {"initActive", "register", "notify"} :
        /\ Goto(t, l)
        /\ \/ l = "initActive" /\ mutex' = t /\ ~Initialized
           \/ l = AfterInit(t) /\ mutex' = mutex /\ Initialized
  BY DEF InitEnter, AfterInit
<1>3. /\ pc'[t] = l /\ (\A u \in Threads : u # t => pc'[u] = pc[u])
      /\ pc'["ctl"] = pc["ctl"] /\ (t # "wrk" => pc'["wrk"] = pc["wrk"])
  BY <1>1, <1>2, ThreadMoves DEF Settling, AfterInit
<1>4. /\ (Coming' <=> Coming) /\ (Installing' <=> Installing) /\ (Leaving' <=> Leaving)
      /\ t # "wrk" => (WillInit' <=> WillInit)
      /\ (pc["wrk"] \in {"poll", "install"} \/ pc'["wrk"] \in {"poll", "install"}) => pc'["wrk"] = pc["wrk"]
  <2>1. CASE t = "wrk"
    BY <1>1, <1>2, <1>3, <2>1 DEF Coming, Installing, Leaving
  <2>2. CASE t # "wrk"
    BY <1>1, <1>3, <2>2, SameWork, SameReport
  <2>3. QED
    BY <2>1, <2>2
<1>5. Watched' /\ TriesAreFailures'
  BY <1>1, <1>4 DEF SettleInv, Watched, TriesAreFailures
<1>6. AnswersHold'
  <2>1. answer'[t] = "none"
    BY <1>1, NoAnswer DEF Asking, Forced
  <2>2. QED
    BY <1>1, <1>3, <2>1, AnswersKept DEF SettleInv
<1>7. Fresh => t # "wrk" /\ Fresh'
  BY <1>1, <1>2, <1>3 DEF Fresh, Initialized
<1>8. Queried' /\ Refreshed'
  BY <1>1, <1>4, <1>7 DEF SettleInv, Queried, Refreshed, Outdated
<1>9. LinkedWhenUp'
  <2>1. SUFFICES ASSUME up
                 PROVE  IF mutex' # "none" THEN Linking(pc[mutex])'
                        ELSE IF remote = 0 THEN WillInit' \/ Fresh' ELSE initd /\ Subscribed'
    BY <1>1 DEF LinkedWhenUp
  <2>2. IF remote = 0 THEN WillInit \/ Fresh ELSE initd /\ Subscribed
    BY <1>1, <2>1 DEF SettleInv, LinkedWhenUp
  <2>3. CASE l = "initActive" /\ mutex' = t /\ ~Initialized
    BY <1>1, <1>3, <2>2, <2>3 DEF Initialized, Linking
  <2>4. CASE mutex' = mutex /\ Initialized
    BY <1>1, <2>2, <2>4 DEF Initialized, Subscribed
  <2>5. QED
    BY <1>2, <2>3, <2>4
<1>10. UnlinkedWhenDown'
  <2>1. CASE mutex' = t /\ ~Initialized
    BY <1>1, <1>3, <2>1 DEF SettleInv, UnlinkedWhenDown, Initialized
  <2>2. CASE mutex' = mutex
    BY <1>1, <1>3, <2>2 DEF SettleInv, UnlinkedWhenDown
  <2>3. QED
    BY <1>2, <2>1, <2>2
<1>11. ClientsServed'
  <2>1. \A a \in Apps : pc'[a] \in Serving <=> pc[a] \in Serving
    <3>1. pc[t] \notin Serving /\ pc'[t] \notin Serving
      BY <1>1, <1>3 DEF Serving
    <3>2. QED
      BY <1>3, <3>1
  <2>2. QED
    BY <1>1, <2>1 DEF SettleInv, ClientsServed
<1>12. ClientsTold'
  <2>1. \A a \in Apps : pc[a] = "ctorActive" => pc'[a] = "ctorActive"
    BY <1>1, <1>3
  <2>2. QED
    BY <1>1, <1>4, <2>1 DEF SettleInv, ClientsTold
<1>13. QED
  BY <1>5, <1>6, <1>8, <1>9, <1>10, <1>11, <1>12 DEF SettleInv

LEMMA LeaveKeepsSettled ==
  ASSUME Settling, NEW t \in Apps \cup {"wrk"}, InitDone(t)
  PROVE  SettleInv'
<1> USE ThreadsDiffer
<1>1. /\ SettleInv /\ t \in Threads /\ t # "ctl" /\ t # "none" /\ pc[t] = "initDone" /\ pc[t] \in Locked
      /\ UNCHANGED <<active, querySuccess, remote, clients, tasks, answer, tries, told, plugin, failures>>
      /\ initd' /\ mutex' = "none" /\ Goto(t, AfterInit(t))
  BY DEF Settling, InitDone, Locked
<1>2. /\ mutex = t /\ (~up => remote = 0 /\ ~active)
      /\ up => IF remote = 0 THEN WillInit ELSE Subscribed
      /\ ~querySuccess => failures = 1 /\ pc["wrk"] = "poll" /\ t # "wrk"
  BY <1>1, InsideLinked DEF Linking
<1>3. /\ pc'[t] = AfterInit(t) /\ (\A u \in Threads : u # t => pc'[u] = pc[u])
      /\ pc'["ctl"] = pc["ctl"] /\ (t # "wrk" => pc'["wrk"] = pc["wrk"])
      /\ AfterInit(t) = IF t = "wrk" THEN "notify" ELSE "register"
  BY <1>1, ThreadMoves DEF Settling, AfterInit
<1>4. /\ (Coming' <=> Coming) /\ (Installing' <=> Installing) /\ (Leaving' <=> Leaving) /\ (WillInit' <=> WillInit)
      /\ (pc["wrk"] \in {"poll", "install"} \/ pc'["wrk"] \in {"poll", "install"}) => pc'["wrk"] = pc["wrk"]
  <2>1. CASE t = "wrk"
    BY <1>1, <1>3, <2>1 DEF Coming, Installing, Leaving, WillInit
  <2>2. CASE t # "wrk"
    BY <1>1, <1>3, <2>2, SameWork, SameReport
  <2>3. QED
    BY <2>1, <2>2
<1>5. Watched' /\ TriesAreFailures'
  BY <1>1, <1>4 DEF SettleInv, Watched, TriesAreFailures
<1>6. AnswersHold'
  <2>1. answer'[t] = "none"
    BY <1>1, NoAnswer DEF Asking, Forced
  <2>2. QED
    BY <1>1, <1>3, <2>1, AnswersKept DEF SettleInv
<1>7. Queried' /\ Refreshed'
  BY <1>1, <1>2, <1>4 DEF SettleInv, Queried, Refreshed, Outdated
<1>8. LinkedWhenUp' /\ UnlinkedWhenDown'
  BY <1>1, <1>2, <1>4 DEF LinkedWhenUp, UnlinkedWhenDown, Subscribed
<1>9. ClientsServed'
  <2>1. \A a \in Apps : pc'[a] \in Serving <=> pc[a] \in Serving
    <3>1. pc[t] \notin Serving /\ pc'[t] \notin Serving
      BY <1>1, <1>3 DEF Serving
    <3>2. QED
      BY <1>3, <3>1
  <2>2. QED
    BY <1>1, <2>1 DEF SettleInv, ClientsServed
<1>10. ClientsTold'
  <2>1. \A a \in Apps : pc[a] = "ctorActive" => pc'[a] = "ctorActive"
    BY <1>1, <1>3
  <2>2. QED
    BY <1>1, <1>4, <2>1 DEF SettleInv, ClientsTold
<1>11. QED
  BY <1>5, <1>6, <1>7, <1>8, <1>9, <1>10 DEF SettleInv

--------------------------------------------------------------------------------
(* The worker's tasks. *)

\* What a step of a task keeps while initialize() is still to be called.
LEMMA TaskKept ==
  ASSUME Settling, NEW l, Goto("wrk", l), pc["wrk"] \notin Locked, pc["wrk"] # "init",
         answer'["wrk"] = "none", \A u \in Threads : u # "wrk" => answer'[u] = answer[u],
         UNCHANGED <<remote, initd, mutex, clients, up, subs, wire>>, failures = 1 => failures' = 1,
         WillInit => WillInit',
         up => (active => active' \/ WillInit') /\ (Outdated' => Outdated),
         ~up => (active' => active),
         Fresh => Fresh' \/ WillInit'
  PROVE  AnswersHold' /\ LinkedWhenUp' /\ UnlinkedWhenDown'
<1> USE ThreadsDiffer
<1>1. pc'["wrk"] = l /\ pc'["ctl"] = pc["ctl"] /\ \A u \in Threads : u # "wrk" => pc'[u] = pc[u]
  BY ThreadMoves DEF Settling
<1>2. /\ mutex # "wrk" /\ SettleInv
      /\ mutex # "none" => mutex \in Threads /\ pc'[mutex] = pc[mutex] /\ answer'[mutex] = answer[mutex]
  BY <1>1, Holder DEF Settling
<1>3. AnswersHold'
  BY <1>1, <1>2, AnswersKept DEF SettleInv
<1>4. LinkedWhenUp'
  <2>1. ASSUME up, mutex # "none"
        PROVE  Linking(pc[mutex])'
    <3>1. Linking(pc[mutex]) /\ mutex' = mutex /\ pc'[mutex] = pc[mutex] /\ answer'[mutex] = answer[mutex]
      BY <1>2, <2>1 DEF SettleInv, LinkedWhenUp
    <3>2. Subscribed' <=> Subscribed
      BY DEF Subscribed
    <3>3. QED
      BY <2>1, <3>1, <3>2 DEF Linking
  <2>2. ASSUME up, mutex = "none"
        PROVE  IF remote' = 0 THEN WillInit' \/ Fresh' ELSE initd' /\ Subscribed'
    BY <1>2, <2>2 DEF SettleInv, LinkedWhenUp, Subscribed
  <2>3. QED
    BY <2>1, <2>2 DEF LinkedWhenUp
<1>5. UnlinkedWhenDown'
  BY <1>1, <1>2 DEF SettleInv, UnlinkedWhenDown
<1>6. QED
  BY <1>3, <1>4, <1>5

\* The clients, when the worker does not tell them anything.
LEMMA ClientsKeptByTask ==
  ASSUME Settling, NEW l, Goto("wrk", l), UNCHANGED <<clients, told, up, wire>>, Coming => Coming'
  PROVE  ClientsServed' /\ ClientsTold'
<1> USE ThreadsDiffer
<1>1. SettleInv /\ pc'["ctl"] = pc["ctl"] /\ \A a \in Apps : pc'[a] = pc[a]
  BY ThreadMoves DEF Settling
<1>2. Leaving' <=> Leaving
  BY <1>1, SameReport
<1>3. QED
  BY <1>1, <1>2 DEF SettleInv, ClientsServed, ClientsTold

LEMMA TakeTaskKeepsSettled == ASSUME Settling, TakeTask PROVE SettleInv'
<1> USE ThreadsDiffer
<1>1. /\ SettleInv /\ wire = <<>> /\ pc["wrk"] = "out" /\ "wrk" \in Threads
      /\ tasks \in {<<"install">>, <<"activate">>}
  BY DEF Settling, TakeTask, OrderInv, OneAtATime
<1>2. /\ tasks' = <<>> /\ tries' = 0
      /\ UNCHANGED <<members, clients, mutex, answer, told, plugin, failures>>
  BY <1>1 DEF TakeTask
<1>3. PICK l \in {"install", "poll"} :
        Goto("wrk", l) /\ (l = "install" <=> tasks = <<"install">>) /\ (l = "poll" <=> tasks = <<"activate">>)
  BY <1>1 DEF TakeTask
<1>4. pc'["wrk"] = l /\ \A u \in Threads : u # "wrk" => pc'[u] = pc[u]
  BY <1>3, ThreadMoves DEF Settling
<1>5. (WillInit' <=> WillInit) /\ (Coming' <=> Coming) /\ (Installing' <=> Installing)
  BY <1>1, <1>2, <1>3, <1>4 DEF WillInit, Coming, Installing
<1>6. Fresh' <=> Fresh
  BY <1>1, <1>2, <1>3, <1>4 DEF Fresh
<1>7. answer["wrk"] = "none"
  BY <1>1, NoAnswer DEF Asking, Forced
<1>8. AnswersHold' /\ LinkedWhenUp' /\ UnlinkedWhenDown'
  BY <1>1, <1>2, <1>3, <1>5, <1>6, <1>7, TaskKept DEF Locked, Outdated
<1>9. Watched' /\ TriesAreFailures'
  BY <1>1, <1>2, <1>5, <1>7, FailuresFew DEF SettleInv, Watched, TriesAreFailures
<1>10. Queried'
  <2>1. mutex # "none" => mutex \in Threads /\ (mutex = "wrk" <=> pc["wrk"] \in Locked)
    BY Holder DEF Settling
  <2>2. QED
    BY <1>1, <1>2, <1>4, <1>6, <2>1 DEF SettleInv, Queried, Locked
<1>11. Refreshed'
  BY <1>1, <1>2, <1>3, <1>4 DEF SettleInv, Refreshed, Outdated
<1>12. ClientsServed' /\ ClientsTold'
  BY <1>2, <1>3, <1>5, ClientsKeptByTask
<1>13. QED
  BY <1>8, <1>9, <1>10, <1>11, <1>12 DEF SettleInv

LEMMA InstallKeepsSettled == ASSUME Settling, InstallSucceeds \/ InstallFails PROVE SettleInv'
<1> USE ThreadsDiffer
<1>1. /\ SettleInv /\ pc["wrk"] = "install" /\ "wrk" \in Threads /\ tries \in Nat
      /\ pc \in [Threads -> Places] /\ failures \in {0, 1}
  BY IndInvParts, FailuresFew DEF Settling, InstallSucceeds, InstallFails, PcTypes, MemberTypes
<1>2. UNCHANGED <<members, clients, mutex, tasks, answer, told, up, subs, wire>> /\ answer["wrk"] = "none"
  BY <1>1, NoAnswer DEF InstallSucceeds, InstallFails, Asking, Forced
<1>3. /\ failures = 1 => failures' = 1
      /\ \/ Goto("wrk", "out") /\ watching'
         \/ Goto("wrk", "install") /\ watching' = watching /\ tries' = 1 /\ failures' = 1
  <2>1. CASE InstallSucceeds
    BY <2>1 DEF InstallSucceeds
  <2>2. CASE InstallFails
    <3>1. failures = 0 /\ failures' = 1 /\ watching' = watching
      BY <2>2, FailuresFew DEF InstallFails
    <3>2. tries = 0
      BY <1>1, <1>2, <3>1 DEF SettleInv, TriesAreFailures
    <3>3. tries' = 1 /\ pc' = pc
      BY <2>2, <3>2 DEF InstallFails, InstallAttempts
    <3>4. Goto("wrk", "install")
      BY <1>1, <3>3 DEF Goto
    <3>5. QED
      BY <3>1, <3>3, <3>4
  <2>3. QED
    BY <2>1, <2>2
<1>4. PICK l \in {"out", "install"} : Goto("wrk", l) /\ (l = "out" => watching') /\
                                      (l = "install" => watching' = watching /\ tries' = 1 /\ failures' = 1)
  BY <1>3
<1>5. pc'["wrk"] = l /\ \A u \in Threads : u # "wrk" => pc'[u] = pc[u]
  BY <1>4, ThreadMoves DEF Settling
<1>6. wire = <<>> /\ tasks = <<>>
  BY <1>1 DEF Settling, OrderInv, OneAtATime
<1>7. ~WillInit /\ ~Coming
  BY <1>1, <1>6 DEF WillInit, Coming
<1>8. Fresh' <=> Fresh
  BY <1>1, <1>2, <1>5 DEF Fresh
<1>9. AnswersHold' /\ LinkedWhenUp' /\ UnlinkedWhenDown'
  BY <1>1, <1>2, <1>3, <1>4, <1>7, <1>8, TaskKept DEF Locked, Outdated
<1>10. Watched' /\ TriesAreFailures'
  <2>1. Watched'
    BY <1>1, <1>4, <1>5 DEF SettleInv, Watched, Installing
  <2>2. TriesAreFailures'
    BY <1>2, <1>4, <1>5 DEF TriesAreFailures
  <2>3. QED
    BY <2>1, <2>2
<1>11. Queried'
  <2>1. mutex # "none" => mutex \in Threads /\ mutex # "wrk"
    BY <1>1, Holder DEF Settling, Locked
  <2>2. QED
    BY <1>1, <1>2, <1>3, <1>5, <1>8, <2>1 DEF SettleInv, Queried
<1>12. Refreshed'
  BY <1>1, <1>2, <1>6 DEF SettleInv, Refreshed, Outdated
<1>13. ClientsServed' /\ ClientsTold'
  BY <1>2, <1>4, <1>7, ClientsKeptByTask
<1>14. QED
  BY <1>9, <1>10, <1>11, <1>12, <1>13 DEF SettleInv

\* The activation task ends up in initialize(): the poll goes on until it has
\* an answer, and the cached state it reads then is that answer or newer.
LEMMA ActivationKeepsSettled == ASSUME Settling, Poll \/ Confirm PROVE SettleInv'
<1> USE ThreadsDiffer
<1>1. /\ SettleInv /\ pc["wrk"] \in {"poll", "confirm"} /\ "wrk" \in Threads /\ tries \in Nat
      /\ pc \in [Threads -> Places]
  BY IndInvParts DEF Settling, Poll, Confirm, PcTypes, MemberTypes
<1>2. UNCHANGED <<remote, initd, mutex, clients, tasks, told, plugin, failures>>
  BY DEF Poll, Confirm
<1>3. up /\ wire = <<>> /\ tasks = <<>>
  BY <1>1 DEF Settling, OrderInv, OneAtATime, WorkFitsPlugin, Coming
<1>4. PICK v \in BOOLEAN :
        /\ IsActive("wrk", v)
        /\ pc["wrk"] = "confirm" => Goto("wrk", IF v THEN "init" ELSE "out")
        /\ pc["wrk"] = "poll" => /\ tries' = tries + 1
                                 /\ IF v \/ tries' = MaxPolls THEN Goto("wrk", "confirm") ELSE UNCHANGED pc
  BY DEF Poll, Confirm
<1>5. /\ answer'["wrk"] = "none" /\ \A u \in Threads : u # "wrk" => answer'[u] = answer[u]
      /\ \/ querySuccess' /\ active' /\ v
         \/ answer["wrk"] = "failed" /\ failures = 1 /\ ~querySuccess' /\ ~active' /\ ~v /\ pc["wrk"] = "poll"
         \/ pc["wrk"] = "confirm" /\ querySuccess /\ querySuccess' /\ (active' <=> active) /\ (v <=> active)
  BY <1>1, <1>3, <1>4, IsActiveStores DEF Forced
<1>6. pc["wrk"] = "confirm" /\ querySuccess => active
  BY <1>1, <1>3 DEF SettleInv, Refreshed, Outdated
<1>7. \/ querySuccess' /\ active' /\ (\/ pc["wrk"] = "confirm" /\ Goto("wrk", "init")
                                      \/ pc["wrk"] = "poll" /\ Goto("wrk", "confirm"))
      \/ ~querySuccess' /\ failures = 1 /\ pc["wrk"] = "poll" /\ Goto("wrk", "poll") /\ tries' <= failures
  <2>1. CASE v
    BY <1>1, <1>4, <1>5, <1>6, <2>1
  <2>2. CASE ~v
    <3>1. answer["wrk"] = "failed" /\ failures = 1 /\ ~querySuccess' /\ pc["wrk"] = "poll"
      BY <1>5, <1>6, <2>2
    <3>2. tries' = tries + 1 /\ tries' <= failures
      BY <1>1, <1>4, <3>1 DEF SettleInv, TriesAreFailures
    <3>3. MaxPolls > 1
      BY <3>1, BoundsAssumption, IndInvParts DEF Settling, FewFailures, PluginTypes
    <3>4. pc' = pc
      BY <1>1, <1>4, <2>2, <3>1, <3>2, <3>3
    <3>5. Goto("wrk", "poll")
      BY <1>1, <3>1, <3>4 DEF Goto
    <3>6. QED
      BY <3>1, <3>2, <3>5
  <2>3. QED
    BY <2>1, <2>2
<1>8. PICK l \in {"poll", "confirm", "init"} :
        Goto("wrk", l) /\ (l = "poll" => tries' <= failures /\ pc["wrk"] = "poll")
  BY <1>7
<1>9. pc'["wrk"] = l /\ \A u \in Threads : u # "wrk" => pc'[u] = pc[u]
  BY <1>8, ThreadMoves DEF Settling
<1>10. WillInit /\ WillInit' /\ Coming' /\ (Installing' <=> Installing)
  BY <1>1, <1>2, <1>8, <1>9 DEF WillInit, Coming, Installing
<1>11. AnswersHold' /\ LinkedWhenUp' /\ UnlinkedWhenDown'
  BY <1>1, <1>2, <1>3, <1>5, <1>7, <1>8, <1>10, TaskKept DEF Locked, Outdated
<1>12. Watched' /\ TriesAreFailures'
  <2>1. Watched'
    BY <1>1, <1>2, <1>10 DEF SettleInv, Watched
  <2>2. l = "poll" => tries' \in Nat
    BY <1>1, <1>4, <1>8
  <2>3. TriesAreFailures'
    BY <1>2, <1>5, <1>8, <1>9, <2>2 DEF TriesAreFailures
  <2>4. QED
    BY <2>1, <2>3
<1>13. Queried'
  <2>1. ~querySuccess' => pc'["wrk"] = "poll" /\ failures' = 1
    BY <1>2, <1>7, ThreadMoves DEF Settling
  <2>2. QED
    BY <2>1 DEF Queried
<1>14. Refreshed'
  BY <1>7 DEF Refreshed, Outdated
<1>15. ClientsServed' /\ ClientsTold'
  BY <1>2, <1>8, <1>10, ClientsKeptByTask
<1>16. QED
  BY <1>11, <1>12, <1>13, <1>14, <1>15 DEF SettleInv

LEMMA NotifyConnectedKeepsSettled == ASSUME Settling, NotifyConnected PROVE SettleInv'
<1> USE ThreadsDiffer
<1>1. /\ SettleInv /\ pc["wrk"] = "notify" /\ "wrk" \in Threads /\ mutex = "none"
      /\ UNCHANGED <<members, clients, mutex, tasks, answer, tries, plugin, failures>> /\ Goto("wrk", "out")
  BY DEF Settling, NotifyConnected
<1>2. up /\ wire = <<>> /\ tasks = <<>>
  BY <1>1 DEF Settling, OrderInv, OneAtATime, WorkFitsPlugin, Coming
<1>3. pc'["wrk"] = "out" /\ \A u \in Threads : u # "wrk" => pc'[u] = pc[u]
  BY <1>1, ThreadMoves DEF Settling
<1>4. ~WillInit /\ ~Fresh /\ (Installing' <=> Installing)
  BY <1>1, <1>2, <1>3 DEF WillInit, Fresh, Installing
<1>5. answer["wrk"] = "none"
  BY <1>1, NoAnswer DEF Asking, Forced
<1>6. AnswersHold' /\ LinkedWhenUp' /\ UnlinkedWhenDown'
  BY <1>1, <1>4, <1>5, TaskKept DEF Locked, Outdated
<1>7. Watched' /\ TriesAreFailures'
  BY <1>1, <1>3, <1>4 DEF SettleInv, Watched, TriesAreFailures
<1>8. Queried' /\ Refreshed'
  BY <1>1, <1>2, <1>4 DEF SettleInv, Queried, Refreshed, Outdated
<1>9. \A a \in Apps : pc'[a] = pc[a] /\ told'[a] = IF a \in clients THEN "connected" ELSE told[a]
  BY <1>3 DEF NotifyConnected
<1>10. ClientsServed' /\ ClientsTold'
  BY <1>1, <1>2, <1>9 DEF SettleInv, ClientsServed, ClientsTold
<1>11. QED
  BY <1>6, <1>7, <1>8, <1>10 DEF SettleInv

--------------------------------------------------------------------------------
(* The event thread, and the plugin. *)

LEMMA OnActivationKeepsSettled == ASSUME Settling, OnActivation PROVE SettleInv'
<1> USE ThreadsDiffer
<1>1. /\ SettleInv /\ wire = <<"Activated">> /\ tasks = <<>> /\ pc["ctl"] = "out" /\ pc["wrk"] = "out"
  BY DEF Settling, OnActivation, OrderInv, OneAtATime
<1>2. wire' = <<>> /\ tasks' = <<"activate">>
  BY <1>1 DEF OnActivation
<1>3. UNCHANGED <<members, clients, mutex, pc, answer, tries, told, up, subs, watching, failures>>
  BY DEF OnActivation
<1>4. up
  BY <1>1 DEF Settling, OrderInv, WorkFitsPlugin, Coming
<1>5. WillInit /\ WillInit' /\ Coming' /\ ~Installing
  BY <1>1, <1>2 DEF WillInit, Coming, Installing
<1>6. (Fresh' <=> Fresh) /\ (Outdated' <=> Outdated) /\ (Subscribed' <=> Subscribed)
  BY <1>3 DEF Fresh, Outdated, Subscribed
<1>7. Watched' /\ TriesAreFailures' /\ AnswersHold'
  BY <1>1, <1>3, <1>5 DEF SettleInv, Watched, TriesAreFailures, AnswersHold
<1>8. Queried' /\ Refreshed'
  BY <1>1, <1>2, <1>3, <1>6 DEF SettleInv, Queried, Refreshed
<1>9. LinkedWhenUp'
  <2>1. ASSUME mutex # "none"
        PROVE  Linking(pc[mutex])'
    <3>1. Linking(pc[mutex])
      BY <1>1, <1>4, <2>1 DEF SettleInv, LinkedWhenUp
    <3>2. QED
      BY <1>3, <1>5, <1>6, <3>1 DEF Linking
  <2>2. QED
    BY <1>1, <1>3, <1>4, <1>5, <1>6, <2>1 DEF SettleInv, LinkedWhenUp
<1>10. UnlinkedWhenDown' /\ ClientsServed' /\ ClientsTold'
  BY <1>1, <1>3, <1>4, <1>5 DEF SettleInv, UnlinkedWhenDown, ClientsServed, ClientsTold
<1>11. QED
  BY <1>7, <1>8, <1>9, <1>10 DEF SettleInv

\* onDeactivation(): its steps take the connection down.
LEMMA DeactivationKeepsSettled == ASSUME Settling, EventThread, ~OnActivation PROVE SettleInv'
<1> USE ThreadsDiffer
<1>1. SettleInv /\ PcTypes /\ "ctl" \in Threads /\ (wire # <<>> => pc["ctl"] = "out")
  BY IndInvParts DEF Settling, OrderInv, OneAtATime, EventThread
<1>2. ~up /\ (OnDeactivation => wire = <<"Deactivated">>) /\ (~OnDeactivation => wire = <<>>)
  <2>1. CASE OnDeactivation
    BY <2>1 DEF OnDeactivation, Settling, OrderInv, OneAtATime, WorkFitsPlugin, Leaving
  <2>2. CASE ~OnDeactivation
    <3>1. pc["ctl"] # "out"
      BY <2>2 DEF EventThread, Uninit, Unsubscribe, DropRemote, Uninitialized, ResetFlag, NotifyClosed
    <3>2. QED
      BY <1>1, <2>2, <3>1 DEF Settling, OrderInv, WorkFitsPlugin, Leaving
  <2>3. QED
    BY <2>1, <2>2
<1>3. /\ UNCHANGED <<querySuccess, clients, mutex, tasks, answer, tries, up, watching, failures>>
      /\ wire' = <<>>
      /\ active' = active \/ ~active'
      /\ remote' = remote \/ remote' = 0
  BY <1>2 DEF EventThread, OnDeactivation, Uninit, Unsubscribe, DropRemote, Uninitialized, ResetFlag, NotifyClosed
<1>4. pc'["wrk"] = pc["wrk"] /\ \A u \in Threads : u # "ctl" => pc'[u] = pc[u]
  <2>1. (\E l : Goto("ctl", l)) \/ UNCHANGED pc
    BY DEF EventThread, OnDeactivation, Uninit, Unsubscribe, DropRemote, Uninitialized, ResetFlag, NotifyClosed
  <2>2. QED
    BY <1>1, <2>1, OthersStay
<1>5. Fresh => Fresh'
  BY <1>3, <1>4 DEF Fresh
<1>6. Watched' /\ TriesAreFailures'
  BY <1>1, <1>3, <1>4 DEF SettleInv, Watched, TriesAreFailures, Installing
<1>7. AnswersHold'
  <2>1. answer["ctl"] = "none"
    BY <1>1, NoAnswer DEF PcTypes, CtlStates, Asking, Forced
  <2>2. QED
    BY <1>1, <1>3, <1>4, <2>1, AnswersKept DEF SettleInv
<1>8. Queried'
  <2>1. mutex # "none" => mutex \in Threads /\ mutex # "ctl"
    BY <1>1, Holder DEF Settling, PcTypes, CtlStates, Locked
  <2>2. QED
    BY <1>1, <1>3, <1>4, <1>5, <2>1 DEF SettleInv, Queried
<1>9. Refreshed' /\ LinkedWhenUp'
  BY <1>2, <1>3 DEF Refreshed, LinkedWhenUp
<1>10. UnlinkedWhenDown'
  <2>1. /\ active => remote # 0 /\ (wire = <<"Deactivated">> \/ pc["ctl"] = "uninit")
        /\ remote # 0 => /\ initd /\ mutex = "none"
                         /\ wire = <<"Deactivated">> \/ pc["ctl"] \in {"uninit", "unsubscribe"}
    BY <1>1, <1>2 DEF SettleInv, UnlinkedWhenDown
  <2>2. CASE OnDeactivation
    <3>1. pc'["ctl"] = "uninit" /\ UNCHANGED <<active, remote, initd>>
      BY <1>1, <2>2, OthersStay DEF OnDeactivation
    <3>2. QED
      BY <1>3, <2>1, <3>1 DEF UnlinkedWhenDown
  <2>3. CASE Uninit
    <3>1. pc'["ctl"] = "unsubscribe" /\ ~active' /\ UNCHANGED <<remote, initd>>
      BY <1>1, <2>3, OthersStay DEF Uninit
    <3>2. QED
      BY <1>3, <2>1, <3>1 DEF UnlinkedWhenDown
  <2>4. CASE Unsubscribe
    <3>1. pc' = pc /\ wire' = wire /\ UNCHANGED <<active, remote, initd>>
      BY <2>4 DEF Unsubscribe
    <3>2. QED
      BY <1>3, <2>1, <3>1 DEF UnlinkedWhenDown
  <2>5. CASE DropRemote
    <3>1. pc["ctl"] = "unsubscribe" /\ wire = <<>> /\ remote' = 0 /\ active' = active
      BY <1>1, <2>5 DEF DropRemote
    <3>2. QED
      BY <2>1, <3>1 DEF UnlinkedWhenDown
  <2>6. CASE Uninitialized \/ ResetFlag \/ NotifyClosed
    <3>1. pc["ctl"] \in {"uninitialized", "resetFlag", "notify"} /\ wire = <<>> /\ UNCHANGED <<active, remote>>
      BY <1>1, <2>6 DEF Uninitialized, ResetFlag, NotifyClosed
    <3>2. QED
      BY <2>1, <3>1 DEF UnlinkedWhenDown
  <2>7. QED
    BY <2>2, <2>3, <2>4, <2>5, <2>6 DEF EventThread
<1>11. CASE NotifyClosed
  <2>1. \A a \in Apps : pc'[a] = pc[a] /\ told'[a] = IF a \in clients THEN "closed" ELSE told[a]
    BY <1>4, <1>11 DEF NotifyClosed
  <2>2. ClientsServed' /\ ClientsTold'
    BY <1>1, <1>2, <1>3, <2>1 DEF SettleInv, ClientsServed, ClientsTold
  <2>3. QED
    BY <1>6, <1>7, <1>8, <1>9, <1>10, <2>2 DEF SettleInv
<1>12. CASE ~NotifyClosed
  <2>1. told' = told /\ \A a \in Apps : pc'[a] = pc[a]
    BY <1>4, <1>12 DEF EventThread, OnDeactivation, Uninit, Unsubscribe, DropRemote, Uninitialized, ResetFlag
  <2>2. Leaving'
    <3>1. pc'["ctl"] # "out"
      <4>1. CASE Unsubscribe
        BY <4>1 DEF Unsubscribe
      <4>2. CASE ~Unsubscribe
        <5>1. \E l \in {"uninit", "unsubscribe", "uninitialized", "resetFlag", "notify"} : Goto("ctl", l)
          BY <1>12, <4>2 DEF EventThread, OnDeactivation, Uninit, DropRemote, Uninitialized, ResetFlag
        <5>2. QED
          BY <1>1, <5>1, OthersStay
      <4>3. QED
        BY <4>1, <4>2
    <3>2. QED
      BY <3>1 DEF Leaving
  <2>3. ClientsServed' /\ ClientsTold'
    BY <1>1, <1>2, <1>3, <2>1, <2>2 DEF SettleInv, ClientsServed, ClientsTold
  <2>4. QED
    BY <1>6, <1>7, <1>8, <1>9, <1>10, <2>3 DEF SettleInv
<1>13. QED
  BY <1>11, <1>12

\* The plugin changes at rest, and is reported: the invariant of the one state
\* of the plugin gives way to that of the other.
LEMMA PluginKeepsSettled == ASSUME Settling, Orderly, PluginChanges PROVE SettleInv'
<1> USE ThreadsDiffer
<1>1. /\ SettleInv /\ wire = <<>> /\ tasks = <<>> /\ pc["ctl"] = "out" /\ pc["wrk"] = "out" /\ mutex = "none"
      /\ \A t \in Threads : pc[t] \in {"out", "idle"}
  BY RestIsQuiet DEF PluginChanges, AtRest, Settling
<1>2. UNCHANGED <<members, clients, mutex, tasks, pc, answer, tries, told, watching, failures>> /\ (up' <=> ~up)
  BY DEF PluginChanges
<1>3. watching /\ ~WillInit /\ ~Coming /\ ~Leaving /\ ~Installing
  BY <1>1 DEF SettleInv, Watched, WillInit, Coming, Leaving, Installing
<1>4. wire' = IF up THEN <<"Deactivated">> ELSE <<"Activated">>
  <2>1. Append(<<>>, "Deactivated") = <<"Deactivated">> /\ Append(<<>>, "Activated") = <<"Activated">>
    OBVIOUS
  <2>2. CASE up
    <3>1. wire' = Append(<<>>, "Deactivated")
      BY <1>1, <1>3, <2>2 DEF PluginChanges
    <3>2. QED
      BY <2>1, <2>2, <3>1
  <2>3. CASE ~up
    <3>1. wire' = Append(<<>>, "Activated")
      BY <1>1, <1>3, <2>3 DEF PluginChanges
    <3>2. QED
      BY <2>1, <2>3, <3>1
  <2>4. QED
    BY <2>2, <2>3
<1>5. Fresh' <=> Fresh
  BY <1>2 DEF Fresh
<1>6. Watched' /\ TriesAreFailures'
  BY <1>1, <1>2, <1>3 DEF SettleInv, Watched, TriesAreFailures
<1>7. AnswersHold'
  <2>1. \A t \in Threads : answer[t] = "none"
    BY <1>1, NoAnswer DEF Asking, Forced
  <2>2. QED
    BY <1>2, <2>1 DEF AnswersHold
<1>8. Queried'
  BY <1>1, <1>2, <1>5 DEF SettleInv, Queried
<1>9. ClientsServed'
  BY <1>1, <1>2 DEF SettleInv, ClientsServed
<1>10. CASE up
  <2>1. Leaving' /\ ~up'
    BY <1>2, <1>4, <1>10 DEF Leaving
  <2>2. (active => remote # 0) /\ (remote # 0 => initd)
    BY <1>1, <1>3, <1>10 DEF SettleInv, LinkedWhenUp, Fresh
  <2>3. UnlinkedWhenDown'
    BY <1>1, <1>2, <1>4, <1>10, <2>2 DEF UnlinkedWhenDown
  <2>4. Refreshed' /\ LinkedWhenUp' /\ ClientsTold'
    BY <2>1 DEF Refreshed, LinkedWhenUp, ClientsTold
  <2>5. QED
    BY <1>6, <1>7, <1>8, <1>9, <2>3, <2>4 DEF SettleInv
<1>11. CASE ~up
  <2>1. wire' = <<"Activated">> /\ up' /\ WillInit' /\ Coming'
    BY <1>2, <1>4, <1>11 DEF WillInit, Coming
  <2>2. remote = 0
    BY <1>1, <1>11 DEF SettleInv, UnlinkedWhenDown
  <2>3. Refreshed' /\ LinkedWhenUp' /\ UnlinkedWhenDown' /\ ClientsTold'
    BY <1>1, <1>2, <2>1, <2>2 DEF Refreshed, LinkedWhenUp, UnlinkedWhenDown, ClientsTold
  <2>4. QED
    BY <1>6, <1>7, <1>8, <1>9, <2>3 DEF SettleInv
<1>12. QED
  BY <1>10, <1>11

LEMMA SettleInvInit == Init => SettleInv
<1> SUFFICES ASSUME Init
             PROVE  SettleInv
  OBVIOUS
<1> USE ThreadsDiffer
<1>1. /\ \A t \in Threads : pc[t] = "out" /\ answer[t] = "none"
      /\ pc["wrk"] = "out" /\ pc["ctl"] = "out" /\ \A a \in Apps : pc[a] = "out" /\ told[a] = "nothing"
  BY DEF Init
<1>2. Fresh
  BY <1>1 DEF Init, Fresh
<1>3. Watched /\ TriesAreFailures /\ AnswersHold
  BY <1>1 DEF Init, Watched, Installing, TriesAreFailures, AnswersHold
<1>4. Queried /\ Refreshed /\ LinkedWhenUp /\ UnlinkedWhenDown
  BY <1>2 DEF Init, Queried, Refreshed, Outdated, LinkedWhenUp, UnlinkedWhenDown
<1>5. ClientsServed /\ ClientsTold
  BY <1>1 DEF Init, ClientsServed, ClientsTold, Serving
<1>6. QED
  BY <1>3, <1>4, <1>5 DEF SettleInv

LEMMA InitStepKeepsSettled ==
  ASSUME Settling, NEW t \in Apps \cup {"wrk"}, InitStep(t)
  PROVE  SettleInv'
<1>1. t \in Threads /\ (t = "wrk" => pc[t] \in WrkStates)
  BY ThreadsDiffer, Holder DEF Settling
<1>2. CASE InitEnter(t) \/ InitActive(t) \/ InitForce(t) \/ Make(t) \/ InitSub(t) \/ InitDone(t)
  BY <1>2, EnterKeepsSettled, InitActiveKeepsSettled, InitForceKeepsSettled, MakeKeepsSettled, InitSubKeepsSettled,
     LeaveKeepsSettled
<1>3. CASE Ask(t)
  BY <1>1, <1>3, AskKeepsSettled
<1>4. CASE SubscribeCheck(t) \/ SubscribeCall(t) \/ SubscribePush(t)
  <2>1. CASE pc[t] \in {"initCheck", "initCall", "initPush"}
    BY <1>4, <2>1, SubscribingKeepsSettled
  <2>2. CASE pc[t] \notin {"initCheck", "initCall", "initPush"}
    <3>1. pc[t] \in {"sub", "subCall", "subPush"}
      BY <1>4, <2>2 DEF SubscribeCheck, SubscribeCall, SubscribePush, SubscribeAt, CallAt, PushAt
    <3>2. t \in Apps
      BY <1>1, <3>1 DEF WrkStates
    <3>3. QED
      BY <1>4, <3>1, <3>2, QuietStepKeepsSettled
  <2>3. QED
    BY <2>1, <2>2
<1>5. QED
  BY <1>2, <1>3, <1>4 DEF InitStep

LEMMA SettleInvStep ==
  ASSUME Orderly, Settling, [Next]_vars
  PROVE  SettleInv'
<1>1. ASSUME NEW a \in Apps, AppGoesOn(a) \/ AppCalls(a)
      PROVE  SettleInv'
  BY <1>1, InitStepKeepsSettled, RegistryKeepsSettled, QuestionKeepsSettled, QuietStepKeepsSettled
     DEF AppGoesOn, AppCalls
<1>2. CASE EventThread
  BY <1>2, OnActivationKeepsSettled, DeactivationKeepsSettled
<1>3. CASE Worker
  BY <1>3, InitStepKeepsSettled, TakeTaskKeepsSettled, InstallKeepsSettled, ActivationKeepsSettled,
     NotifyConnectedKeepsSettled DEF Worker
<1>4. CASE PluginChanges
  BY <1>4, PluginKeepsSettled
<1>5. CASE UNCHANGED vars
  <2>1. SettleInv
    BY DEF Settling
  <2>2. /\ Watched' /\ TriesAreFailures' /\ AnswersHold' /\ Queried' /\ Refreshed'
        /\ UnlinkedWhenDown' /\ ClientsServed' /\ ClientsTold'
    BY <1>5, <2>1 DEF SettleInv, Watched, Installing, TriesAreFailures, AnswersHold, Queried, Fresh, Refreshed,
                      Outdated, UnlinkedWhenDown, ClientsServed, ClientsTold, Coming, Leaving
  <2>3. LinkedWhenUp'
    BY <1>5, <2>1 DEF SettleInv, LinkedWhenUp, Linking, WillInit, Fresh, Outdated, Subscribed
  <2>4. QED
    BY <2>2, <2>3 DEF SettleInv
<1>6. QED
  BY <1>1, <1>2, <1>3, <1>4, <1>5 DEF Next, Crashed

\* The clients and the service agree with the plugin whenever nothing is under
\* way: whoever was first to initialize the service, and whichever call for
\* the status timed out, a constructor's or the worker's, an active plugin
\* has a remote object with its state events subscribed and every client was
\* told so, and of an inactive one nothing is left.
THEOREM ServiceSettles ==
  ASSUME Orderly, FewFailures
  PROVE  Spec => []SettledAgrees
<1>1. IndInv /\ OrderInv /\ SettleInv /\ [Next]_vars => SettleInv'
  BY SettleInvStep DEF Settling
<1>2. IndInv /\ OrderInv /\ SettleInv => SettledAgrees
  <2> SUFFICES ASSUME IndInv, OrderInv, SettleInv, AtRest, clients # {}
               PROVE  IF up
                        THEN /\ Initialized /\ active /\ <<"state", remote>> \in subs
                             /\ \A a \in clients : told[a] = "connected"
                        ELSE remote = 0 /\ ~active /\ \A a \in clients : told[a] # "connected"
    BY DEF SettledAgrees
  <2>1. /\ wire = <<>> /\ tasks = <<>> /\ pc["ctl"] = "out" /\ pc["wrk"] = "out" /\ mutex = "none"
        /\ clients \subseteq Apps /\ \A a \in Apps : pc[a] \in {"out", "idle"}
    BY RestIsQuiet, IndInvParts DEF MemberTypes
  <2>2. ~WillInit /\ ~Coming /\ ~Leaving /\ ~Fresh
    BY <2>1 DEF WillInit, Coming, Leaving, Fresh
  <2>3. CASE up
    <3>1. Initialized /\ <<"state", remote>> \in subs
      BY <2>1, <2>2, <2>3 DEF SettleInv, LinkedWhenUp, Initialized, Subscribed
    <3>2. active
      BY <2>1, <2>2, <2>3 DEF SettleInv, Queried, Refreshed, Outdated
    <3>3. \A a \in clients : told[a] = "connected"
      BY <2>1, <2>2, <2>3 DEF SettleInv, ClientsTold
    <3>4. QED
      BY <2>3, <3>1, <3>2, <3>3
  <2>4. CASE ~up
    BY <2>1, <2>2, <2>4 DEF SettleInv, UnlinkedWhenDown, ClientsTold
  <2>5. QED
    BY <2>3, <2>4
<1>3. QED
  BY <1>1, <1>2, OrderInvHolds, SettleInvInit, ServiceIndInv, PTL DEF Spec
================================================================================
