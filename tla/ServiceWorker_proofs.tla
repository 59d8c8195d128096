-------------------------- MODULE ServiceWorker_proofs --------------------------
(***************************************************************************)
(* What Service::AsyncWorker keeps for any number of posts and posting     *)
(* threads, at whatever point of the constructor's post() the first event  *)
(* comes: see IndInv of ServiceWorker for the argument.                    *)
(***************************************************************************)
EXTENDS ServiceWorker, FiniteSetTheorems, TLAPS

LEMMA TypeOKInit == Init => TypeOK
<1> SUFFICES ASSUME Init
             PROVE  TypeOK
  OBVIOUS
<1>1. taskList \in Seq(Tasks) /\ posted \in 0..MaxPosts
  BY MaxPostsAssumption DEF Init
<1>2. QED
  BY <1>1 DEF Init, TypeOK, RunnerStates, PosterStates

\* Every step keeps the types.
LEMMA TypeOKStep == TypeOK /\ [Next]_vars => TypeOK'
<1> SUFFICES ASSUME TypeOK, [Next]_vars
             PROVE  TypeOK'
  OBVIOUS
<1> USE DEF TypeOK, RunnerStates, PosterStates
<1>1. ASSUME NEW p \in Posters, Push(p), early' \in BOOLEAN
      PROVE  TypeOK'
  <2>1. posted + 1 \in Tasks
    BY <1>1, MaxPostsAssumption DEF Push, Tasks
  <2>2. taskList' \in Seq(Tasks)
    BY <1>1, <2>1 DEF Push
  <2>3. posted' \in 0..MaxPosts
    BY <1>1, MaxPostsAssumption DEF Push
  <2>4. QED
    BY <1>1, <2>1, <2>2, <2>3 DEF Push, Returned, Goto
<1>2. CASE InstallPost
  BY <1>1, <1>2, PostersAssumption DEF InstallPost
<1>3. ASSUME NEW p \in Posters, EventPost(p)
      PROVE  TypeOK'
  BY <1>1, <1>3 DEF EventPost
<1>4. ASSUME NEW p \in Posters, PostGoesOn(p)
      PROVE  TypeOK'
  <2>1. CASE CheckThread(p) \/ JoinBegins(p) \/ JoinEnds(p) \/ DeleteThread(p)
    BY <2>1 DEF CheckThread, JoinBegins, JoinEnds, DeleteThread, Goto, historyVars
  <2>2. CASE ForgetThread(p) \/ SpawnThread(p) \/ StoreThread(p)
    BY <2>2 DEF ForgetThread, SpawnThread, StoreThread, Overwrite, Returned, Goto, historyVars
  <2>3. QED
    BY <1>4, <2>1, <2>2 DEF PostGoesOn
<1>5. ASSUME NEW t \in Tasks, RunnerStep(t)
      PROVE  TypeOK'
  <2>1. CASE Take(t)
    BY <2>1 DEF Take, posterVars, historyVars
  <2>2. CASE TaskReturns(t) \/ Leave(t) \/ UseDeleted(t)
    BY <2>2 DEF TaskReturns, Leave, UseDeleted, posterVars, historyVars
  <2>3. QED
    BY <1>5, <2>1, <2>2 DEF RunnerStep
<1>6. CASE Destroy \/ DestroyWorker
  BY <1>6 DEF Destroy, DestroyWorker, posterVars, historyVars
<1>7. CASE UNCHANGED vars
  BY <1>7 DEF vars, posterVars, historyVars
<1>8. QED
  BY <1>2, <1>3, <1>4, <1>5, <1>6, <1>7 DEF Next, Terminated

\* Type correctness, for every reachable state.
THEOREM TypeCorrect == Spec => []TypeOK
<1>1. QED
  BY TypeOKInit, TypeOKStep, PTL DEF Spec

--------------------------------------------------------------------------------
(* The inductive invariant. *)

LEMMA SoundInit == Init => Sound
BY PostersAssumption, MaxPostsAssumption
   DEF Init, Sound, Born, RunningKnown, ThreadKnown, OnePoster, NothingBefore, FirstUnstored,
       PostersKnow, PosterKnows, DestructorAlone, OneRunner, LostOnce, CleanUnlessEarly,
       NoTaskStranded, NothingAfterDestruction, Live, Posting

\* The constructor's post() up to the unlock.
LEMMA InstallKeepsSound ==
  ASSUME TypeOK, TypeOK', Sound, InstallPost, ~broken
  PROVE  Sound'
<1> USE PostersAssumption
<1>1. /\ pc[Installer] = "idle" /\ ~running /\ posted = 0 /\ posted' = 1
      /\ pc' = [pc EXCEPT ![Installer] = "cleanup"] /\ mine'[Installer] = 1
      /\ UNCHANGED <<running, thread, runner, doing, joins, dtor, broken, lost, early>>
      /\ 1 \in Tasks
  BY MaxPostsAssumption
     DEF InstallPost, Push, Goto, Sound, NothingBefore, TypeOK, Tasks
<1>2. /\ \A p \in Posters \ {Installer} : ~Posting(p) /\ ~Posting(p)'
      /\ \A t \in Tasks : runner[t] = "none" /\ doing[t] = 0
      /\ thread = 0 /\ lost = {} /\ ~early
      /\ pc'[Installer] = "cleanup"
  BY <1>1 DEF Sound, NothingBefore, Posting, TypeOK
<1>3. (Born /\ RunningKnown /\ ThreadKnown /\ OneRunner /\ LostOnce /\ CleanUnlessEarly)'
  BY <1>1, <1>2 DEF Born, RunningKnown, ThreadKnown, OneRunner, LostOnce, CleanUnlessEarly, Live
<1>4. (OnePoster /\ NothingBefore /\ FirstUnstored)'
  BY <1>1, <1>2 DEF OnePoster, NothingBefore, FirstUnstored
<1>5. PostersKnow'
  BY <1>2 DEF PostersKnow, PosterKnows, Posting
<1>6. dtor = "no"
  BY <1>1 DEF Sound, DestructorAlone, TypeOK
<1>7. (DestructorAlone /\ NoTaskStranded /\ NothingAfterDestruction)'
  BY <1>1, <1>2, <1>6 DEF DestructorAlone, NoTaskStranded, NothingAfterDestruction, Posting
<1>8. QED
  BY <1>3, <1>4, <1>5, <1>7 DEF Sound

\* An event's post() up to the unlock.
LEMMA EventKeepsSound ==
  ASSUME TypeOK, TypeOK', Sound, NEW p \in Posters, EventPost(p), ~broken
  PROVE  Sound'
<1> USE PostersAssumption
<1>1. /\ p # Installer /\ pc[p] = "idle" /\ dtor = "no"
      /\ \A q \in Posters \ {Installer} : ~Posting(q)
      /\ pc' = [pc EXCEPT ![p] = IF running THEN "idle" ELSE "cleanup"]
      /\ mine' = [mine EXCEPT ![p] = posted + 1]
      /\ posted' = posted + 1 /\ posted + 1 \in Tasks /\ posted \in Nat
      /\ UNCHANGED <<running, thread, runner, doing, joins, dtor, broken, lost>>
      /\ early' = (early \/ (~running /\ pc[Installer] # "returned"))
  BY MaxPostsAssumption DEF EventPost, Push, Goto, Returned, ListMutexFree, TypeOK, Tasks
<1>2. /\ pc'[Installer] = pc[Installer] /\ mine'[Installer] = mine[Installer]
      /\ \A q \in Posters \ {Installer} : q # p => ~Posting(q)'
      /\ running => ~Posting(p)'
      /\ ~running => pc'[p] = "cleanup"
      /\ mine'[p] = posted + 1
  BY <1>1 DEF Posting, TypeOK
<1>3. pc[Installer] \in {"store", "returned"}
  BY <1>1 DEF EventPost, Sound, NothingBefore
<1>4. runner[posted + 1] = "none"
  BY <1>1 DEF Sound, Born
<1>5. Born'
  BY <1>1 DEF Sound, Born, TypeOK, Tasks
<1>6. (RunningKnown /\ OneRunner /\ LostOnce /\ CleanUnlessEarly)'
  BY <1>1 DEF Sound, RunningKnown, OneRunner, LostOnce, CleanUnlessEarly, Live
<1>7. ThreadKnown'
  BY <1>1, <1>2 DEF Sound, ThreadKnown, Live, Posting
<1>8. OnePoster' /\ NothingBefore'
  BY <1>1, <1>2, <1>3 DEF OnePoster, NothingBefore
<1>9. FirstUnstored'
  <2> SUFFICES ASSUME pc[Installer] = "store"
               PROVE  FirstUnstored'
    BY <1>2 DEF FirstUnstored
  <2> DEFINE first == mine[Installer]
  <2>1. /\ first \in Tasks /\ first <= posted /\ thread # first /\ lost = {}
        /\ Live(first) \/ runner[first] = "done"
        /\ runner[first] \in {"exec", "ran"} => running
        /\ early => runner[first] = "done"
        /\ ~early => thread = 0 /\ \A t \in Tasks \ {first} : runner[t] = "none"
    BY DEF Sound, FirstUnstored
  <2>2. \E t \in Tasks : doing[t] # 0 /\ runner[t] \notin {"none", "started"}
    BY DEF EventPost, Sound, Born
  <2>3. ~running => runner[first] = "done"
    BY <2>1, <2>2 DEF Live
  <2>4. ~early' => ~early /\ running
    BY <1>1
  <2>5. first <= posted' /\ posted + 1 # first
    BY <1>1, <2>1 DEF Tasks
  <2>6. Live(first)' <=> Live(first)
    BY <1>1 DEF Live
  <2>7. QED
    BY <1>1, <1>2, <2>1, <2>3, <2>4, <2>5, <2>6 DEF FirstUnstored
<1>10. PostersKnow'
  BY <1>1, <1>2, <1>4 DEF PostersKnow, PosterKnows, Posting
<1>11. NoTaskStranded'
  BY <1>1, <1>2 DEF Sound, RunningKnown, NoTaskStranded, Live, Posting
<1>12. (DestructorAlone /\ NothingAfterDestruction)'
  BY <1>1 DEF DestructorAlone, NothingAfterDestruction
<1>13. QED
  BY <1>5, <1>6, <1>7, <1>8, <1>9, <1>10, <1>11, <1>12 DEF Sound

--------------------------------------------------------------------------------
(* The rest of post(). *)

\* The constructor's.
LEMMA InstallerKeepsSound ==
  ASSUME TypeOK, TypeOK', Sound, PostGoesOn(Installer), ~broken
  PROVE  Sound'
<1> USE PostersAssumption
<1>1. /\ pc[Installer] \in {"cleanup", "spawn", "store"} /\ dtor = "no"
      /\ CheckThread(Installer) \/ SpawnThread(Installer) \/ StoreThread(Installer)
  BY DEF PostGoesOn, CheckThread, JoinBegins, JoinEnds, DeleteThread, ForgetThread, SpawnThread,
     StoreThread, Sound, NothingBefore, DestructorAlone, TypeOK
<1>2. /\ UNCHANGED <<taskList, running, doing, mine, joins, posted, dtor, broken, early>>
      /\ \A p \in Posters \ {Installer} : pc'[p] = pc[p] /\ (Posting(p)' <=> Posting(p))
  BY <1>1 DEF CheckThread, SpawnThread, StoreThread, Goto, Overwrite, Posting, historyVars, TypeOK
<1>3. (OnePoster /\ DestructorAlone /\ NothingAfterDestruction)'
  BY <1>1, <1>2 DEF Sound, OnePoster, DestructorAlone, NothingAfterDestruction
<1>4. CASE CheckThread(Installer)
  <2>1. /\ pc[Installer] = "cleanup" /\ pc'[Installer] = "spawn"
        /\ UNCHANGED <<thread, runner, lost>>
    BY <1>4 DEF CheckThread, Goto, historyVars, Sound, NothingBefore, TypeOK
  <2>2. (Born /\ RunningKnown /\ ThreadKnown /\ OneRunner /\ LostOnce /\ CleanUnlessEarly)'
    BY <1>2, <2>1 DEF Sound, Born, RunningKnown, ThreadKnown, OneRunner, LostOnce,
       CleanUnlessEarly, NothingBefore, Live
  <2>3. (NothingBefore /\ FirstUnstored)'
    BY <1>2, <2>1 DEF Sound, NothingBefore, FirstUnstored
  <2>4. PostersKnow'
    BY <1>2, <2>1 DEF Sound, NothingBefore, PostersKnow, PosterKnows, Posting
  <2>5. NoTaskStranded'
    BY <2>1 DEF NoTaskStranded, Posting
  <2>6. QED
    BY <1>3, <2>2, <2>3, <2>4, <2>5 DEF Sound
<1>5. CASE SpawnThread(Installer)
  <2> DEFINE first == mine[Installer]
  <2>1. /\ pc[Installer] = "spawn" /\ pc'[Installer] = "store"
        /\ first \in Tasks /\ first <= posted
        /\ runner'[first] = "started" /\ \A t \in Tasks \ {first} : runner'[t] = runner[t]
        /\ UNCHANGED <<thread, lost>>
    BY <1>5 DEF SpawnThread, Goto, historyVars, Sound, NothingBefore, TypeOK
  <2>2. /\ \A p \in Posters \ {Installer} : ~Posting(p)
        /\ \A t \in Tasks : runner[t] = "none" /\ doing[t] = 0
        /\ thread = 0 /\ lost = {} /\ ~early /\ ~running
    BY <2>1 DEF Sound, NothingBefore
  <2>3. (Born /\ RunningKnown /\ OneRunner /\ LostOnce /\ CleanUnlessEarly)'
    BY <1>2, <2>1, <2>2 DEF Sound, Born, RunningKnown, OneRunner, LostOnce, CleanUnlessEarly, Live
  <2>4. (ThreadKnown /\ NothingBefore /\ NoTaskStranded)'
    BY <1>2, <2>1, <2>2 DEF ThreadKnown, NothingBefore, NoTaskStranded, Live
  <2>5. FirstUnstored'
    BY <1>2, <2>1, <2>2 DEF FirstUnstored, Live, Tasks
  <2>6. PostersKnow'
    BY <1>2, <2>2 DEF PostersKnow, PosterKnows, Posting
  <2>7. QED
    BY <1>3, <2>3, <2>4, <2>5, <2>6 DEF Sound
<1>6. CASE StoreThread(Installer)
  <2> DEFINE first == mine[Installer]
  <2>1. /\ pc[Installer] = "store" /\ pc'[Installer] = "returned"
        /\ thread' = first /\ runner' = runner
        /\ lost' = lost \cup (IF thread = 0 \/ runner[thread] = "joined" THEN {} ELSE {thread})
    BY <1>6 DEF StoreThread, Goto, Overwrite, Returned, historyVars, TypeOK
  <2>2. /\ first \in Tasks /\ first <= posted /\ thread # first /\ lost = {}
        /\ Live(first) \/ runner[first] = "done"
        /\ early => runner[first] = "done"
        /\ ~early => /\ thread = 0 /\ \A p \in Posters \ {Installer} : ~Posting(p)
                     /\ \A t \in Tasks \ {first} : runner[t] = "none"
    BY <2>1 DEF Sound, FirstUnstored
  <2>3. (Born /\ RunningKnown /\ LostOnce /\ CleanUnlessEarly)'
    BY <1>2, <2>1, <2>2 DEF Sound, Born, RunningKnown, LostOnce, CleanUnlessEarly
  <2>4. (OneRunner /\ NothingBefore /\ FirstUnstored)'
    BY <2>1, <2>2 DEF Sound, OneRunner, NothingBefore, FirstUnstored, Live
  <2>5. ThreadKnown'
    <3> SUFFICES ASSUME NEW t \in Tasks, Live(t), t \notin lost', t # thread'
                 PROVE  \E p \in Posters : pc'[p] = "store" /\ mine'[p] = t
      BY <2>1 DEF ThreadKnown, Live
    <3>1. t # thread /\ t \notin lost
      BY <2>1, <2>2 DEF Live, Tasks
    <3>2. PICK p \in Posters : pc[p] = "store" /\ mine[p] = t
      BY <3>1 DEF Sound, ThreadKnown
    <3>3. p # Installer
      BY <2>1, <3>2
    <3>4. QED
      BY <1>2, <3>2, <3>3
  <2>6. NoTaskStranded'
    BY <1>2, <2>1 DEF Sound, NoTaskStranded, Live, Posting
  <2>7. PostersKnow'
    <3> SUFFICES ASSUME NEW p \in Posters \ {Installer}
                 PROVE  PosterKnows(p)'
      BY DEF PostersKnow
    <3>1. CASE ~Posting(p)
      BY <1>2, <3>1 DEF PosterKnows, Posting
    <3>2. CASE Posting(p)
      <4>1. Stale' /\ thread' # 0
        BY <1>2, <2>1, <2>2, <3>2 DEF Stale, Tasks
      <4>2. pc[p] \in {"forget", "spawn", "store"} => lost' = {}
        BY <2>1, <2>2 DEF Sound, PostersKnow, PosterKnows, Stale
      <4>3. QED
        BY <1>2, <2>1, <4>1, <4>2 DEF Sound, PostersKnow, PosterKnows, Live, Posting
    <3>3. QED
      BY <3>1, <3>2
  <2>8. QED
    BY <1>3, <2>3, <2>4, <2>5, <2>6, <2>7 DEF Sound
<1>7. QED
  BY <1>1, <1>4, <1>5, <1>6

\* An event's: what such a poster leaves alone.
LEMMA PosterFrame ==
  ASSUME TypeOK, Sound, NEW p \in Posters \ {Installer}, PostGoesOn(p)
  PROVE  /\ Posting(p) /\ dtor = "no" /\ pc[Installer] \in {"store", "returned"}
         /\ mine[p] \in Tasks /\ mine[p] <= posted
         /\ \A q \in Posters \ {Installer} : q # p => ~Posting(q) /\ ~Posting(q)'
         /\ \A q \in Posters : q # p => pc'[q] = pc[q] /\ joins'[q] = joins[q]
         /\ UNCHANGED <<taskList, running, doing, mine, posted, dtor, early>>
         /\ pc[Installer] = "store" => early /\ runner[mine[Installer]] = "done" /\ mine[p] # mine[Installer]
         /\ (OnePoster /\ NothingBefore /\ DestructorAlone /\ NothingAfterDestruction)'
<1> USE PostersAssumption
<1>1. Posting(p)
  BY DEF PostGoesOn, CheckThread, JoinBegins, JoinEnds, DeleteThread, ForgetThread, SpawnThread,
     StoreThread, Posting
<1>2. /\ dtor = "no" /\ pc[Installer] \in {"store", "returned"}
      /\ mine[p] \in Tasks /\ mine[p] <= posted
      /\ \A q \in Posters \ {Installer} : q # p => ~Posting(q)
  BY <1>1 DEF Sound, DestructorAlone, NothingBefore, PostersKnow, PosterKnows, OnePoster, TypeOK
<1>3. /\ UNCHANGED <<taskList, running, doing, mine, posted, dtor, early>>
      /\ \A q \in Posters : q # p => pc'[q] = pc[q] /\ joins'[q] = joins[q]
  <2>1. CASE CheckThread(p) \/ JoinBegins(p) \/ JoinEnds(p) \/ DeleteThread(p)
    BY <2>1 DEF CheckThread, JoinBegins, JoinEnds, DeleteThread, Goto, historyVars, TypeOK
  <2>2. CASE ForgetThread(p) \/ SpawnThread(p) \/ StoreThread(p)
    BY <2>2 DEF ForgetThread, SpawnThread, StoreThread, Goto, historyVars, TypeOK
  <2>3. QED
    BY <2>1, <2>2 DEF PostGoesOn
<1>4. \A q \in Posters \ {Installer} : q # p => ~Posting(q)'
  BY <1>2, <1>3 DEF Posting
<1>5. pc[Installer] = "store" => early /\ runner[mine[Installer]] = "done" /\ mine[p] # mine[Installer]
  BY <1>1 DEF Sound, FirstUnstored
<1>6. (OnePoster /\ NothingBefore)'
  BY <1>2, <1>3, <1>4 DEF OnePoster, NothingBefore
<1>7. (DestructorAlone /\ NothingAfterDestruction)'
  BY <1>2, <1>3 DEF DestructorAlone, NothingAfterDestruction
<1>8. QED
  BY <1>1, <1>2, <1>3, <1>4, <1>5, <1>6, <1>7

\* Its steps that only look at m_thread.
LEMMA PosterLooksKeepsSound ==
  ASSUME TypeOK, TypeOK', Sound, ~broken, NEW p \in Posters \ {Installer}, PostGoesOn(p),
         CheckThread(p) \/ JoinBegins(p) \/ DeleteThread(p)
  PROVE  Sound'
<1> USE PostersAssumption
<1>1. /\ Posting(p) /\ dtor = "no" /\ pc[Installer] \in {"store", "returned"}
      /\ mine[p] \in Tasks /\ mine[p] <= posted
      /\ \A q \in Posters \ {Installer} : q # p => ~Posting(q) /\ ~Posting(q)'
      /\ \A q \in Posters : q # p => pc'[q] = pc[q] /\ joins'[q] = joins[q]
      /\ UNCHANGED <<taskList, running, doing, mine, posted, dtor, early>>
      /\ (OnePoster /\ NothingBefore /\ DestructorAlone /\ NothingAfterDestruction)'
  BY PosterFrame
<1>2. /\ UNCHANGED <<thread, runner, lost>>
      /\ pc[p] \notin {"idle", "returned", "spawn", "store"} /\ pc'[p] \notin {"idle", "returned", "store"}
  BY DEF CheckThread, JoinBegins, DeleteThread, Goto, historyVars, TypeOK
<1>3. (Born /\ RunningKnown /\ OneRunner /\ LostOnce)'
  BY <1>1, <1>2 DEF Sound, Born, RunningKnown, OneRunner, LostOnce, Live
<1>4. ThreadKnown'
  BY <1>1, <1>2 DEF Sound, ThreadKnown, Live
<1>5. FirstUnstored'
  BY <1>1, <1>2 DEF Sound, FirstUnstored, Live
<1>6. NoTaskStranded'
  BY <1>1, <1>2 DEF NoTaskStranded, Posting
<1>7. PosterKnows(p) /\ (Stale' <=> Stale)
  BY <1>1, <1>2 DEF Sound, PostersKnow, Stale
<1>8. PosterKnows(p)' /\ CleanUnlessEarly'
  <2>1. CASE CheckThread(p)
    <3>1. /\ pc'[p] = IF thread = 0 THEN "spawn" ELSE "join"
          /\ pc[p] = "cleanup" /\ broken' = broken
      BY <2>1 DEF CheckThread, Goto, TypeOK
    <3>2. QED
      BY <1>1, <1>2, <1>7, <3>1 DEF Sound, CleanUnlessEarly, PosterKnows, Posting
  <2>2. CASE JoinBegins(p)
    <3>1. /\ pc'[p] = "wait" /\ joins'[p] = thread
          /\ pc[p] = "join" /\ broken' = broken
      BY <2>2 DEF JoinBegins, Goto, TypeOK
    <3>2. QED
      BY <1>1, <1>2, <1>7, <3>1 DEF Sound, CleanUnlessEarly, PosterKnows, Posting
  <2>3. CASE DeleteThread(p)
    <3>1. /\ pc[p] = "delete" /\ joins[p] # 0 /\ runner[joins[p]] = "joined"
          /\ thread = joins[p] \/ Stale
      BY <2>3, <1>7 DEF DeleteThread, PosterKnows
    <3>2. CASE broken'
      BY <1>1, <1>2, <1>7, <2>3, <3>1, <3>2 DEF DeleteThread, Goto, Sound, CleanUnlessEarly, PosterKnows, Posting, Stale
    <3>3. CASE ~broken'
      BY <1>1, <1>2, <1>7, <2>3, <3>1, <3>3 DEF DeleteThread, Goto, Sound, CleanUnlessEarly, PosterKnows, Posting, Stale, TypeOK
    <3>4. QED
      BY <3>2, <3>3
  <2>4. QED
    BY <2>1, <2>2, <2>3
<1>9. PostersKnow'
  BY <1>1, <1>8 DEF PostersKnow, PosterKnows, Posting
<1>10. QED
  BY <1>1, <1>3, <1>4, <1>5, <1>6, <1>8, <1>9 DEF Sound

\* Its steps that join, forget, create or store a thread.
LEMMA PosterJoinsKeepsSound ==
  ASSUME TypeOK, TypeOK', Sound, ~broken, NEW p \in Posters \ {Installer}, JoinEnds(p)
  PROVE  Sound'
<1> USE PostersAssumption
<1>1. /\ Posting(p) /\ dtor = "no" /\ pc[Installer] \in {"store", "returned"}
      /\ mine[p] \in Tasks /\ mine[p] <= posted
      /\ \A q \in Posters \ {Installer} : q # p => ~Posting(q) /\ ~Posting(q)'
      /\ \A q \in Posters : q # p => pc'[q] = pc[q]
      /\ pc[Installer] = "store" => early /\ runner[mine[Installer]] = "done" /\ mine[p] # mine[Installer]
      /\ (OnePoster /\ NothingBefore /\ DestructorAlone /\ NothingAfterDestruction)'
  BY PosterFrame DEF PostGoesOn
<1> DEFINE j == joins[p]
<1>2. /\ UNCHANGED <<taskList, running, thread, doing, mine, joins, posted, dtor, broken, lost, early>>
      /\ pc[p] = "wait" /\ j \in Tasks /\ runner[j] = "done" /\ pc'[p] = "delete"
      /\ runner'[j] = "joined" /\ \A t \in Tasks \ {j} : runner'[t] = runner[t]
  BY DEF JoinEnds, Goto, historyVars, TypeOK
<1>3. thread = j \/ Stale
  BY <1>2 DEF Sound, PostersKnow, PosterKnows
<1>4. \A t \in Tasks : Live(t)' <=> Live(t)
  BY <1>2 DEF Live
<1>5. (Born /\ RunningKnown /\ OneRunner /\ LostOnce /\ CleanUnlessEarly)'
  BY <1>2, <1>4 DEF Sound, Born, RunningKnown, OneRunner, LostOnce, CleanUnlessEarly
<1>6. ThreadKnown' /\ NoTaskStranded'
  BY <1>1, <1>2, <1>4 DEF Sound, ThreadKnown, NoTaskStranded, Posting
<1>7. FirstUnstored'
  <2> SUFFICES ASSUME pc[Installer] = "store"
               PROVE  FirstUnstored'
    BY <1>1 DEF FirstUnstored
  <2>1. mine[Installer] # j /\ mine[Installer] \in Tasks
    BY <1>3 DEF Sound, FirstUnstored, Stale
  <2>2. runner'[mine[Installer]] = "done" /\ early' /\ early
    BY <1>1, <1>2, <2>1
  <2>3. QED
    BY <1>1, <1>2, <2>1, <2>2 DEF Sound, FirstUnstored, Posting
<1>8. PostersKnow'
  <2>1. thread # j => Stale'
    BY <1>1, <1>2, <1>3 DEF Stale, TypeOK
  <2>2. mine[p] # j /\ runner[mine[p]] = "none"
    BY <1>1, <1>2 DEF Sound, PostersKnow, PosterKnows
  <2>3. PosterKnows(p)'
    BY <1>1, <1>2, <2>1, <2>2 DEF PosterKnows, Tasks
  <2>4. QED
    BY <1>1, <2>3 DEF PostersKnow, PosterKnows, Posting
<1>9. QED
  BY <1>1, <1>5, <1>6, <1>7, <1>8 DEF Sound

LEMMA PosterForgetsKeepsSound ==
  ASSUME TypeOK, TypeOK', Sound, ~broken, NEW p \in Posters \ {Installer}, ForgetThread(p)
  PROVE  Sound'
<1> USE PostersAssumption
<1>1. /\ Posting(p) /\ dtor = "no" /\ pc[Installer] \in {"store", "returned"}
      /\ mine[p] \in Tasks /\ mine[p] <= posted
      /\ \A q \in Posters \ {Installer} : q # p => ~Posting(q) /\ ~Posting(q)'
      /\ \A q \in Posters : q # p => pc'[q] = pc[q]
      /\ pc[Installer] = "store" => early /\ runner[mine[Installer]] = "done" /\ mine[p] # mine[Installer]
      /\ (OnePoster /\ NothingBefore /\ DestructorAlone /\ NothingAfterDestruction)'
  BY PosterFrame DEF PostGoesOn
<1>2. /\ UNCHANGED <<taskList, running, runner, doing, mine, joins, posted, dtor, broken, early>>
      /\ pc[p] = "forget" /\ pc'[p] = "spawn" /\ thread' = 0
      /\ lost' = lost \cup (IF thread = 0 \/ runner[thread] = "joined" THEN {} ELSE {thread})
  BY DEF ForgetThread, Goto, Overwrite, TypeOK
<1>3. /\ (thread # 0 /\ runner[thread] = "joined") \/ (Stale /\ lost = {})
      /\ runner[mine[p]] = "none"
  BY <1>1, <1>2 DEF Sound, PostersKnow, PosterKnows, Stale
<1>4. (Born /\ RunningKnown /\ OneRunner /\ LostOnce /\ CleanUnlessEarly)'
  BY <1>2, <1>3 DEF Sound, Born, RunningKnown, OneRunner, LostOnce, CleanUnlessEarly, Stale, Live
<1>5. ThreadKnown'
  BY <1>1, <1>2, <1>3 DEF Sound, ThreadKnown, Live, Tasks
<1>6. FirstUnstored' /\ NoTaskStranded'
  BY <1>1, <1>2, <1>3 DEF Sound, FirstUnstored, NoTaskStranded, Stale, Live, Posting, Tasks
<1>7. PostersKnow'
  BY <1>1, <1>2, <1>3 DEF PostersKnow, PosterKnows, Posting
<1>8. QED
  BY <1>1, <1>4, <1>5, <1>6, <1>7 DEF Sound

LEMMA PosterSpawnsKeepsSound ==
  ASSUME TypeOK, TypeOK', Sound, ~broken, NEW p \in Posters \ {Installer}, SpawnThread(p)
  PROVE  Sound'
<1> USE PostersAssumption
<1> DEFINE new == mine[p]
<1>1. /\ Posting(p) /\ dtor = "no" /\ pc[Installer] \in {"store", "returned"}
      /\ new \in Tasks /\ new <= posted
      /\ \A q \in Posters \ {Installer} : q # p => ~Posting(q) /\ ~Posting(q)'
      /\ \A q \in Posters : q # p => pc'[q] = pc[q]
      /\ pc[Installer] = "store" => early /\ runner[mine[Installer]] = "done" /\ new # mine[Installer]
      /\ (OnePoster /\ NothingBefore /\ DestructorAlone /\ NothingAfterDestruction)'
  BY PosterFrame DEF PostGoesOn
<1>2. /\ UNCHANGED <<taskList, running, thread, doing, mine, joins, posted, dtor, broken, lost, early>>
      /\ pc[p] = "spawn" /\ pc'[p] = "store" /\ runner'[new] = "started"
      /\ \A t \in Tasks \ {new} : runner'[t] = runner[t]
  BY <1>1 DEF SpawnThread, Goto, historyVars, TypeOK
<1>3. /\ thread = 0 \/ (Stale /\ lost = {})
      /\ runner[new] = "none"
  BY <1>1, <1>2 DEF Sound, PostersKnow, PosterKnows
<1>4. \A t \in Tasks : Live(t) => t \in lost
  BY <1>1, <1>2, <1>3 DEF Sound, ThreadKnown, Live, Stale, Posting, Tasks
<1>5. (Born /\ RunningKnown /\ LostOnce /\ CleanUnlessEarly)'
  BY <1>1, <1>2, <1>3 DEF Sound, Born, RunningKnown, LostOnce, CleanUnlessEarly
<1>6. (OneRunner /\ ThreadKnown /\ NoTaskStranded)'
  BY <1>1, <1>2, <1>4 DEF OneRunner, ThreadKnown, NoTaskStranded, Live
<1>7. FirstUnstored'
  BY <1>1, <1>2 DEF Sound, FirstUnstored, Live, Posting
<1>8. PostersKnow'
  <2>1. thread = 0 \/ (Stale' /\ lost' = {})
    BY <1>1, <1>2, <1>3 DEF Stale, TypeOK
  <2>2. QED
    BY <1>1, <1>2, <2>1 DEF PostersKnow, PosterKnows, Posting
<1>9. QED
  BY <1>1, <1>5, <1>6, <1>7, <1>8 DEF Sound

LEMMA PosterStoresKeepsSound ==
  ASSUME TypeOK, TypeOK', Sound, ~broken, NEW p \in Posters \ {Installer}, StoreThread(p)
  PROVE  Sound'
<1> USE PostersAssumption
<1> DEFINE new == mine[p]
<1>1. /\ Posting(p) /\ dtor = "no" /\ pc[Installer] \in {"store", "returned"}
      /\ new \in Tasks /\ new <= posted
      /\ \A q \in Posters \ {Installer} : q # p => ~Posting(q) /\ ~Posting(q)'
      /\ \A q \in Posters : q # p => pc'[q] = pc[q]
      /\ pc[Installer] = "store" => early /\ runner[mine[Installer]] = "done" /\ new # mine[Installer]
      /\ (OnePoster /\ NothingBefore /\ DestructorAlone /\ NothingAfterDestruction)'
  BY PosterFrame DEF PostGoesOn
<1>2. /\ UNCHANGED <<taskList, running, runner, doing, mine, joins, posted, dtor, broken, early>>
      /\ pc[p] = "store" /\ pc'[p] = "idle" /\ thread' = new
      /\ lost' = lost \cup (IF thread = 0 \/ runner[thread] = "joined" THEN {} ELSE {thread})
  BY DEF StoreThread, Goto, Overwrite, Returned, TypeOK
<1>3. thread = 0 \/ (Stale /\ lost = {})
  BY <1>1, <1>2 DEF Sound, PostersKnow, PosterKnows
<1>4. (Born /\ RunningKnown /\ OneRunner /\ LostOnce /\ CleanUnlessEarly)'
  BY <1>2, <1>3 DEF Sound, Born, RunningKnown, OneRunner, LostOnce, CleanUnlessEarly, Stale, Live
<1>5. ThreadKnown'
  <2> SUFFICES ASSUME NEW t \in Tasks, Live(t), t \notin lost', t # thread'
               PROVE  \E q \in Posters : pc'[q] = "store" /\ mine'[q] = t
    BY <1>2 DEF ThreadKnown, Live
  <2>1. t # thread /\ t \notin lost
    BY <1>2, <1>3 DEF Live, Stale, Tasks
  <2>2. PICK q \in Posters : pc[q] = "store" /\ mine[q] = t
    BY <2>1 DEF Sound, ThreadKnown
  <2>3. QED
    BY <1>1, <1>2, <2>2
<1>6. FirstUnstored' /\ NoTaskStranded'
  BY <1>1, <1>2, <1>3 DEF Sound, FirstUnstored, NoTaskStranded, Stale, Live, Posting
<1>7. PostersKnow'
  BY <1>1, <1>2 DEF PostersKnow, PosterKnows, Posting
<1>8. QED
  BY <1>1, <1>4, <1>5, <1>6, <1>7 DEF Sound

LEMMA PosterKeepsSound ==
  ASSUME TypeOK, TypeOK', Sound, ~broken, NEW p \in Posters \ {Installer}, PostGoesOn(p)
  PROVE  Sound'
BY PosterLooksKeepsSound, PosterJoinsKeepsSound, PosterForgetsKeepsSound, PosterSpawnsKeepsSound,
   PosterStoresKeepsSound DEF PostGoesOn

--------------------------------------------------------------------------------
(* The threads, and the destructor. *)

LEMMA RunnerKeepsSound ==
  ASSUME TypeOK, TypeOK', Sound, ~broken, NEW t \in Tasks, Take(t) \/ TaskReturns(t) \/ Leave(t)
  PROVE  Sound'
<1> USE PostersAssumption
<1>1. /\ UNCHANGED <<thread, pc, mine, joins, posted, dtor, broken, lost, early>>
      /\ Live(t) /\ dtor # "gone"
      /\ runner'[t] \in {"exec", "ran", "done"}
      /\ \A u \in Tasks \ {t} : runner'[u] = runner[u] /\ doing'[u] = doing[u]
      /\ running' => runner'[t] \in {"exec", "ran"} \/ running
      /\ runner'[t] = "done" => ~running'
      /\ runner'[t] = "exec" => doing'[t] # 0
      /\ doing'[t] # 0 => doing[t] # 0 \/ runner'[t] = "exec"
  <2>1. CASE Take(t)
    <3>1. Head(taskList) \in Tasks
      BY <2>1 DEF Take, TypeOK
    <3>2. Head(taskList) # 0
      BY <3>1 DEF Tasks
    <3>3. QED
      BY <2>1, <3>2 DEF Take, Live, posterVars, historyVars, TypeOK
  <2>2. CASE TaskReturns(t) \/ Leave(t)
    BY <2>2 DEF TaskReturns, Leave, Live, posterVars, historyVars, TypeOK
  <2>3. QED
    BY <2>1, <2>2
<1>2. \A u \in Tasks : (Live(u)' => Live(u)) /\ (u # t => (Live(u) => Live(u)'))
  BY <1>1 DEF Live
<1>3. (Born /\ RunningKnown)'
  BY <1>1 DEF Sound, Born, RunningKnown, Live
<1>4. (ThreadKnown /\ OneRunner /\ LostOnce /\ CleanUnlessEarly /\ OnePoster /\ DestructorAlone)'
  BY <1>1, <1>2 DEF Sound, ThreadKnown, OneRunner, LostOnce, CleanUnlessEarly, OnePoster,
     DestructorAlone, Posting
<1>5. NothingBefore'
  BY <1>1 DEF Sound, NothingBefore, Live, Posting
<1>6. FirstUnstored'
  <2> SUFFICES ASSUME pc[Installer] = "store"
               PROVE  FirstUnstored'
    BY <1>1 DEF FirstUnstored
  <2> DEFINE first == mine[Installer]
  <2>1. FirstUnstored
    BY DEF Sound
  <2>2. CASE t = first
    <3>1. runner'[first] \in {"exec", "ran"} => running'
      BY <2>1, <2>2 DEF FirstUnstored, Take, TaskReturns, Leave, TypeOK
    <3>2. ~early
      BY <1>1, <2>1, <2>2 DEF FirstUnstored, Live
    <3>3. QED
      BY <1>1, <2>1, <2>2, <3>1, <3>2 DEF FirstUnstored, Live, Posting
  <2>3. CASE t # first
    <3>1. early /\ runner[first] = "done"
      BY <1>1, <2>1, <2>3 DEF FirstUnstored, Live
    <3>2. QED
      BY <1>1, <2>1, <2>3, <3>1 DEF FirstUnstored, Live, Posting
  <2>4. QED
    BY <2>2, <2>3
<1>7. PostersKnow'
  <2> SUFFICES ASSUME NEW p \in Posters \ {Installer}
               PROVE  PosterKnows(p)'
    BY DEF PostersKnow
  <2>1. Stale => Stale'
    BY <1>1 DEF Stale, Live, TypeOK
  <2>2. \A u \in Tasks : runner[u] \in {"none", "joined"} => runner'[u] = runner[u]
    BY <1>1 DEF Live
  <2>3. PosterKnows(p)
    BY DEF Sound, PostersKnow
  <2>4. QED
    BY <1>1, <2>1, <2>2, <2>3 DEF PosterKnows, Posting, TypeOK
<1>8. (NoTaskStranded /\ NothingAfterDestruction)'
  <2>1. CASE Leave(t)
    BY <1>1, <2>1 DEF Leave, NoTaskStranded, NothingAfterDestruction
  <2>2. CASE Take(t) \/ TaskReturns(t)
    <3>1. Live(t)'
      BY <2>2 DEF Take, TaskReturns, Live, TypeOK
    <3>2. QED
      BY <1>1, <3>1 DEF NoTaskStranded, NothingAfterDestruction
  <2>3. QED
    BY <2>1, <2>2
<1>9. QED
  BY <1>3, <1>4, <1>5, <1>6, <1>7, <1>8 DEF Sound

LEMMA DestructorKeepsSound ==
  ASSUME TypeOK, Sound, ~broken, Destroy \/ DestroyWorker
  PROVE  Sound'
<1> USE PostersAssumption
<1>1. /\ UNCHANGED <<taskList, running, runner, doing, pc, mine, joins, posted, broken, lost, early>>
      /\ pc[Installer] = "returned" /\ \A p \in Posters : ~Posting(p) /\ ~Posting(p)'
  BY DEF Destroy, DestroyWorker, posterVars, historyVars, Sound, DestructorAlone, ListMutexFree,
     Posting
<1>2. thread # 0 => thread' = thread \/ (thread' = 0 /\ runner[thread] = "done")
  BY DEF Destroy, DestroyWorker
<1>3. ThreadKnown'
  BY <1>1, <1>2 DEF Sound, ThreadKnown, Live, Destroy, DestroyWorker, Tasks
<1>4. (Born /\ RunningKnown /\ OnePoster /\ NothingBefore /\ FirstUnstored)'
  BY <1>1 DEF Sound, Born, RunningKnown, OnePoster, NothingBefore, FirstUnstored
<1>5. (PostersKnow /\ DestructorAlone)'
  BY <1>1 DEF PostersKnow, PosterKnows, DestructorAlone, Posting
<1>6. (OneRunner /\ LostOnce /\ CleanUnlessEarly /\ NoTaskStranded)'
  BY <1>1 DEF Sound, OneRunner, LostOnce, CleanUnlessEarly, NoTaskStranded, Live
<1>7. NothingAfterDestruction'
  <2>1. CASE Destroy
    BY <2>1 DEF Destroy, NothingAfterDestruction
  <2>2. CASE DestroyWorker
    <3>1. \A t \in Tasks : Live(t) => t \in lost
      BY <1>1, <2>2 DEF DestroyWorker, Sound, ThreadKnown, Live, Posting, Tasks
    <3>2. taskList # <<>> => \E t \in Tasks : Live(t)
      BY <1>1 DEF Sound, NoTaskStranded
    <3>3. QED
      BY <1>1, <3>1, <3>2 DEF NothingAfterDestruction, Live
  <2>3. QED
    BY <2>1, <2>2
<1>8. QED
  BY <1>3, <1>4, <1>5, <1>6, <1>7 DEF Sound

\* A step that changes no more than broken, of a worker that is deleted and
\* still in use.
LEMMA UseDeletedKeepsSound ==
  ASSUME TypeOK, Sound, NEW t \in Tasks, UseDeleted(t)
  PROVE  Sound'
<1>1. UNCHANGED <<taskList, running, thread, runner, doing, pc, mine, joins, posted, dtor, lost, early>>
  BY DEF UseDeleted, posterVars, historyVars
<1>2. t \in lost
  BY DEF UseDeleted, Sound, NothingAfterDestruction, Live
<1>3. CleanUnlessEarly'
  BY <1>1, <1>2 DEF Sound, CleanUnlessEarly
<1>4. (Born /\ RunningKnown /\ ThreadKnown /\ OnePoster /\ NothingBefore /\ FirstUnstored)'
  BY <1>1 DEF Sound, Born, RunningKnown, ThreadKnown, OnePoster, NothingBefore, FirstUnstored,
     Live, Posting
<1>5. (PostersKnow /\ DestructorAlone)'
  BY <1>1 DEF Sound, PostersKnow, PosterKnows, Stale, DestructorAlone, Posting
<1>6. (OneRunner /\ LostOnce /\ NoTaskStranded /\ NothingAfterDestruction)'
  BY <1>1 DEF Sound, OneRunner, LostOnce, NoTaskStranded, NothingAfterDestruction, Live, Posting
<1>7. QED
  BY <1>3, <1>4, <1>5, <1>6 DEF Sound

\* Every step keeps what the threads and the posters know of each other.
LEMMA SoundStep == TypeOK /\ TypeOK' /\ Sound /\ [Next]_vars => Sound'
<1> SUFFICES ASSUME TypeOK, TypeOK', Sound, [Next]_vars
             PROVE  Sound'
  OBVIOUS
<1>1. CASE ~broken /\ InstallPost
  BY <1>1, InstallKeepsSound
<1>2. ASSUME NEW p \in Posters, ~broken, EventPost(p)
      PROVE  Sound'
  BY <1>2, EventKeepsSound
<1>3. ASSUME NEW p \in Posters, ~broken, PostGoesOn(p)
      PROVE  Sound'
  BY <1>3, InstallerKeepsSound, PosterKeepsSound
<1>4. ASSUME NEW t \in Tasks, ~broken, RunnerStep(t)
      PROVE  Sound'
  BY <1>4, RunnerKeepsSound, UseDeletedKeepsSound DEF RunnerStep
<1>5. CASE ~broken /\ (Destroy \/ DestroyWorker)
  BY <1>5, DestructorKeepsSound
<1>6. CASE UNCHANGED vars
  <2>1. UNCHANGED <<taskList, running, thread, runner, doing, pc, mine, joins, posted, dtor, broken, lost, early>>
    BY <1>6 DEF vars, posterVars, historyVars
  <2>2. (Born /\ RunningKnown /\ ThreadKnown /\ OnePoster /\ NothingBefore /\ FirstUnstored)'
    BY <2>1 DEF Sound, Born, RunningKnown, ThreadKnown, OnePoster, NothingBefore, FirstUnstored,
       Live, Posting
  <2>3. (PostersKnow /\ DestructorAlone)'
    BY <2>1 DEF Sound, PostersKnow, PosterKnows, Stale, DestructorAlone, Posting
  <2>4. (OneRunner /\ LostOnce /\ CleanUnlessEarly /\ NoTaskStranded /\ NothingAfterDestruction)'
    BY <2>1 DEF Sound, OneRunner, LostOnce, CleanUnlessEarly, NoTaskStranded,
       NothingAfterDestruction, Live, Posting
  <2>5. QED
    BY <2>2, <2>3, <2>4 DEF Sound
<1>7. QED
  BY <1>1, <1>2, <1>3, <1>4, <1>5, <1>6 DEF Next, Terminated

--------------------------------------------------------------------------------
(* The order of the tasks. *)

\* Where a task is in the list follows from how many were posted.
LEMMA InOrderStep == TypeOK /\ TypeOK' /\ Sound /\ InOrder /\ [Next]_vars => InOrder'
<1> SUFFICES ASSUME TypeOK, TypeOK', Sound, InOrder, [Next]_vars
             PROVE  InOrder'
  OBVIOUS
<1> DEFINE len == Len(taskList)
<1>1. len \in Nat /\ posted \in Nat /\ len <= posted /\ taskList \in Seq(Tasks)
      /\ doing \in [Tasks -> Nat] /\ doing' \in [Tasks -> Nat]
  <2>1. len \in Nat /\ len <= posted /\ taskList \in Seq(Tasks)
    BY DEF TypeOK, InOrder
  <2>2. posted \in Nat /\ Tasks \cup {0} \subseteq Nat
    BY MaxPostsAssumption DEF TypeOK, Tasks
  <2>3. QED
    BY <2>1, <2>2 DEF TypeOK
<1>2. ASSUME NEW p \in Posters, Push(p)
      PROVE  InOrder'
  <2>1. /\ taskList' = Append(taskList, posted + 1) /\ posted' = posted + 1 /\ doing' = doing
        /\ Len(taskList') = len + 1
        /\ taskList'[len + 1] = posted + 1
        /\ \A i \in 1..len : taskList'[i] = taskList[i]
    BY <1>1, <1>2 DEF Push
  <2>2. Len(taskList') <= posted'
    BY <1>1, <2>1
  <2>3. posted' - Len(taskList') = posted - len
    BY <1>1, <2>1
  <2>4. ASSUME NEW i \in 1..Len(taskList')
        PROVE  taskList'[i] = (posted' - Len(taskList')) + i
    <3>1. CASE i = len + 1
      BY <1>1, <2>1, <2>3, <3>1
    <3>2. CASE i \in 1..len
      BY <1>1, <2>1, <2>3, <3>2 DEF InOrder
    <3>3. QED
      BY <1>1, <2>1, <3>1, <3>2
  <2>5. QED
    BY <2>1, <2>2, <2>3, <2>4 DEF InOrder
<1>3. ASSUME NEW t \in Tasks, Take(t)
      PROVE  InOrder'
  <2>1. /\ taskList # <<>> /\ taskList' = Tail(taskList) /\ posted' = posted
        /\ doing' = [doing EXCEPT ![t] = Head(taskList)]
    BY <1>3 DEF Take
  <2>2. /\ len >= 1 /\ Len(taskList') = len - 1 /\ Head(taskList) = taskList[1]
        /\ \A i \in 1..(len - 1) : taskList'[i] = taskList[i + 1]
    BY <1>1, <2>1
  <2>3. Head(taskList) = (posted - len) + 1
    BY <1>1, <2>2 DEF InOrder
  <2>4. \A u \in Tasks : doing[u] <= posted - len /\ doing[u] # Head(taskList)
    BY <1>1, <2>3 DEF InOrder
  <2>5. posted' - Len(taskList') = (posted - len) + 1
    BY <1>1, <2>1, <2>2
  <2>6. Len(taskList') <= posted'
    BY <1>1, <2>1, <2>2
  <2>7. ASSUME NEW i \in 1..Len(taskList')
        PROVE  taskList'[i] = (posted' - Len(taskList')) + i
    BY <1>1, <2>2, <2>5, <2>7 DEF InOrder
  <2>8. \A u \in Tasks : doing'[u] <= posted' - Len(taskList')
    BY <1>1, <2>1, <2>3, <2>4, <2>5
  <2>9. \A u, v \in Tasks : doing'[u] # 0 /\ doing'[u] = doing'[v] => u = v
    BY <1>1, <2>1, <2>4 DEF InOrder
  <2>10. QED
    BY <2>6, <2>7, <2>8, <2>9 DEF InOrder
<1>4. CASE UNCHANGED <<taskList, doing, posted>>
  BY <1>4 DEF InOrder
<1>5. ASSUME NEW p \in Posters, PostGoesOn(p)
      PROVE  UNCHANGED <<taskList, doing, posted>>
  BY <1>5 DEF PostGoesOn, CheckThread, JoinBegins, JoinEnds, DeleteThread, ForgetThread,
     SpawnThread, StoreThread
<1>6. ASSUME NEW t \in Tasks, RunnerStep(t), ~Take(t)
      PROVE  UNCHANGED <<taskList, doing, posted>>
  BY <1>6 DEF RunnerStep, TaskReturns, Leave, UseDeleted
<1>7. CASE Destroy \/ DestroyWorker \/ UNCHANGED vars
  BY <1>4, <1>7 DEF Destroy, DestroyWorker, vars
<1>8. CASE InstallPost \/ \E p \in Posters : EventPost(p)
  BY <1>2, <1>8, PostersAssumption DEF InstallPost, EventPost
<1>9. QED
  BY <1>3, <1>4, <1>5, <1>6, <1>7, <1>8 DEF Next, Terminated

LEMMA IndInvHolds == Spec => []IndInv
<1>1. Init => IndInv
  <2>1. Init => InOrder
    BY DEF Init, InOrder
  <2>2. QED
    BY <2>1, TypeOKInit, SoundInit DEF IndInv
<1>2. IndInv /\ [Next]_vars => IndInv'
  BY TypeOKStep, SoundStep, InOrderStep DEF IndInv
<1>3. QED
  BY <1>1, <1>2, PTL DEF Spec

\* Two threads are alive beside each other only if m_thread was overwritten
\* while it named one of them.
THEOREM OneRunnerButTheLost == Spec => []OneRunner
<1>1. IndInv => OneRunner
  BY DEF IndInv, Sound
<1>2. QED
  BY <1>1, IndInvHolds, PTL

\* That happens to one thread at most, however many events are posted.
THEOREM OneThreadLost == Spec => []LostOnce
<1>1. IndInv => LostOnce
  BY DEF IndInv, Sound
<1>2. QED
  BY <1>1, IndInvHolds, PTL

\* And only if an event was posted after the first thread had left and before
\* the constructor had stored it.
THEOREM CleanButForTheEarly == Spec => []CleanUnlessEarly
<1>1. IndInv => CleanUnlessEarly
  BY DEF IndInv, Sound
<1>2. QED
  BY <1>1, IndInvHolds, PTL

\* No posted task is left in the list without a thread to run it.
THEOREM NothingStranded == Spec => []NoTaskStranded
<1>1. IndInv => NoTaskStranded
  BY DEF IndInv, Sound
<1>2. QED
  BY <1>1, IndInvHolds, PTL

\* The destructor leaves only a thread behind that was lost, and drops no task
\* but to it.
THEOREM DestructionIsClean == Spec => []NothingAfterDestruction
<1>1. IndInv => NothingAfterDestruction
  BY DEF IndInv, Sound
<1>2. QED
  BY <1>1, IndInvHolds, PTL

--------------------------------------------------------------------------------
(* Refinement. *)

\* A thread that takes a task finds one other task being run, at most.
LEMMA RoomToBegin ==
  ASSUME IndInv, NEW t \in Tasks, Take(t)
  PROVE  Cardinality(Current) < 2
<1>1. \A u, v \in Tasks : Live(u) /\ Live(v) /\ u # t /\ v # t => u = v
  BY DEF IndInv, Sound, OneRunner, LostOnce, Take, Live
<1>2. \A u, v \in Tasks : runner[u] = "exec" /\ runner[v] = "exec" => u = v
  BY <1>1 DEF Take, Live
<1>3. CASE Current = {}
  BY <1>3, FS_EmptySet
<1>4. CASE Current # {}
  <2>1. PICK c \in Current : TRUE
    BY <1>4
  <2>2. Current = {c}
    BY <1>2, <2>1 DEF Current
  <2>3. QED
    BY <2>2, FS_Singleton
<1>5. QED
  BY <1>3, <1>4

\* Every step is one of the abstract queue's, or changes nothing it shows.
LEMMA QueueStep ==
  ASSUME IndInv, IndInv', [Next]_vars
  PROVE  [Queue!Next]_(Queue!queueVars)
<1> USE DEF Queue!queueVars
<1>1. ASSUME NEW p \in Posters, Push(p)
      PROVE  [Queue!Next]_(Queue!queueVars)
  <2>1. posted + 1 \in Tasks
    BY <1>1, MaxPostsAssumption DEF Push, IndInv, TypeOK, Tasks
  <2>2. Queue!Post(posted + 1)
    BY <1>1 DEF Push, Queue!Post, Current
  <2>3. QED
    BY <2>1, <2>2 DEF Queue!Next
<1>2. ASSUME UNCHANGED <<taskList, doing>>,
             \A t \in Tasks : runner'[t] = "exec" <=> runner[t] = "exec"
      PROVE  UNCHANGED Queue!queueVars
  BY <1>2 DEF Current
<1>3. ASSUME NEW p \in Posters, PostGoesOn(p)
      PROVE  UNCHANGED Queue!queueVars
  <2>1. UNCHANGED <<taskList, doing>>
    BY <1>3 DEF PostGoesOn, CheckThread, JoinBegins, JoinEnds, DeleteThread, ForgetThread,
       SpawnThread, StoreThread
  <2>2. \A t \in Tasks : runner'[t] = "exec" <=> runner[t] = "exec"
    <3>1. CASE JoinEnds(p)
      BY <3>1 DEF JoinEnds, IndInv, TypeOK
    <3>2. CASE SpawnThread(p)
      <4>1. p # Installer => runner[mine[p]] = "none"
        BY <3>2 DEF SpawnThread, IndInv, Sound, PostersKnow, PosterKnows, Posting
      <4>2. p = Installer => \A t \in Tasks : runner[t] = "none"
        BY <3>2 DEF SpawnThread, IndInv, Sound, NothingBefore
      <4>3. QED
        BY <3>2, <4>1, <4>2 DEF SpawnThread, IndInv, TypeOK
    <3>3. CASE runner' = runner
      BY <3>3
    <3>4. QED
      BY <1>3, <3>1, <3>2, <3>3 DEF PostGoesOn, CheckThread, JoinBegins, DeleteThread,
         ForgetThread, StoreThread
  <2>3. QED
    BY <1>2, <2>1, <2>2
<1>4. ASSUME NEW t \in Tasks, Take(t)
      PROVE  Queue!Begin
  <2>1. /\ runner[t] # "exec" /\ runner' = [runner EXCEPT ![t] = "exec"]
        /\ doing' = [doing EXCEPT ![t] = Head(taskList)]
        /\ taskList # <<>> /\ taskList' = Tail(taskList)
    BY <1>4 DEF Take
  <2>2. /\ doing'[t] = Head(taskList)
        /\ \A u \in Tasks : runner'[u] = "exec" <=> (u = t \/ runner[u] = "exec")
        /\ \A u \in Tasks : runner[u] = "exec" => doing'[u] = doing[u]
    BY <2>1 DEF IndInv, TypeOK
  <2>3. Current' = {doing'[u] : u \in {v \in Tasks : runner'[v] = "exec"}}
    BY DEF Current
  <2>4. Current' = Current \cup {Head(taskList)}
    BY <2>2, <2>3 DEF Current
  <2>5. Queue!Cardinality(Current) = Cardinality(Current)
    BY DEF Queue!Cardinality, Cardinality
  <2>6. QED
    BY <1>4, <2>1, <2>4, <2>5, RoomToBegin DEF Queue!Begin
<1>5. ASSUME NEW t \in Tasks, TaskReturns(t)
      PROVE  [Queue!Next]_(Queue!queueVars)
  <2>1. /\ runner[t] = "exec" /\ runner' = [runner EXCEPT ![t] = "ran"]
        /\ UNCHANGED <<taskList, doing>>
    BY <1>5 DEF TaskReturns
  <2>2. doing[t] \in Tasks /\ doing[t] \in Current
    BY <2>1 DEF IndInv, TypeOK, Sound, Born, Current
  <2>3. Current' = Current \ {doing[t]}
    BY <2>1, <2>2 DEF Current, IndInv, TypeOK, InOrder, Sound, Born
  <2>4. QED
    BY <2>1, <2>2, <2>3 DEF Queue!Next, Queue!End
<1>6. ASSUME NEW t \in Tasks, Leave(t) \/ UseDeleted(t)
      PROVE  UNCHANGED Queue!queueVars
  <2>1. UNCHANGED <<taskList, doing>> /\ \A u \in Tasks : runner'[u] = "exec" <=> runner[u] = "exec"
    BY <1>6 DEF Leave, UseDeleted, IndInv, TypeOK
  <2>2. QED
    BY <1>2, <2>1
<1>7. CASE Destroy \/ DestroyWorker \/ UNCHANGED vars
  BY <1>2, <1>7 DEF Destroy, DestroyWorker, vars
<1>8. CASE InstallPost \/ \E p \in Posters : EventPost(p)
  BY <1>1, <1>8, PostersAssumption DEF InstallPost, EventPost
<1>9. QED
  BY <1>3, <1>4, <1>5, <1>6, <1>7, <1>8 DEF Next, RunnerStep, Terminated, Queue!Next

\* Each task is begun once and in the order of the posts, two at most beside
\* each other, for any number of posts and posters.
THEOREM WorkerIsQueue == Spec => ImplementsQueue
<1>1. Init => Queue!Init
  BY DEF Init, Queue!Init, Current
<1>2. IndInv /\ IndInv' /\ [Next]_vars => [Queue!Next]_(Queue!queueVars)
  BY QueueStep
<1>3. QED
  BY <1>1, <1>2, IndInvHolds, PTL DEF Spec, ImplementsQueue, Queue!Spec
==============================================================================
