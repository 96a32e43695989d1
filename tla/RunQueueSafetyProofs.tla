------------------------ MODULE RunQueueSafetyProofs ------------------------
(***************************************************************************)
(* Theorems about RunQueueExecute, for every task graph, every choice of    *)
(* setscene tasks and every setting of the constants: its types, what the   *)
(* operators of the scene queue keep, and what the executer never does.  It *)
(* implements TaskExecution, its migrations are safe, its tasks have their  *)
(* inputs, and the limits on what runs at once are kept.                    *)
(***************************************************************************)
EXTENDS RunQueueExecute, ClosureLemmas

(* Closure(next, S) is the least set that contains S and is closed under    *)
(* next.                                                                    *)
LEMMA ClosureIsLeast ==
  ASSUME NEW U, IsFiniteSet(U), NEW next \in [U -> SUBSET U], NEW S \in SUBSET U
  PROVE  /\ S \subseteq Closure(next, S) /\ Closure(next, S) \subseteq U
         /\ \A t \in Closure(next, S) : next[t] \subseteq Closure(next, S)
         /\ \A C \in SUBSET U : S \subseteq C /\ (\A t \in C : next[t] \subseteq C)
              => Closure(next, S) \subseteq C
<1>1. Closure(next, S) = LeastClosure(next, S)
  BY DEF Closure, LeastClosure
<1> QED
  BY <1>1, LeastClosureIs

(* First picks a member: the sequence of setscene tasks orders them.        *)
LEMMA FirstIsMember ==
  ASSUME NEW S, S \subseteq Setscene, S # {}
  PROVE  First(S) \in S
<1> DEFINE At == {i \in 1..Len(SortedSetscene) : SortedSetscene[i] \in S}
<1>1. At # {} /\ At \subseteq Nat
  BY DEF Setscene
<1>2. PICK i \in At : \A j \in At : i <= j
  BY <1>1, LeastNat
<1>3. ASSUME NEW u \in S \ {SortedSetscene[i]} PROVE Earlier(SortedSetscene[i], u)
  <2>1. PICK j \in 1..Len(SortedSetscene) : SortedSetscene[j] = u
    BY DEF Setscene
  <2>2. i <= j /\ i # j
    BY <1>2, <2>1
  <2> QED
    BY <2>1, <2>2 DEF Earlier
<1>4. \E t \in S : \A u \in S \ {t} : Earlier(t, u)
  BY <1>3
<1> QED
  BY <1>4 DEF First

-----------------------------------------------------------------------------
(* The closures, of which there are finitely many tasks to make them from.  *)
LEMMA SetsceneFinite == Setscene \subseteq Tasks /\ IsFiniteSet(Setscene)
BY SetsceneAssumption, DependsAssumption, FS_Subset

(* What s covers: the plain tasks below it, down to the next setscene tasks. *)
LEMMA CoveredClosure ==
  ASSUME NEW s \in Setscene
  PROVE  /\ SqCoveredTasks[s] \subseteq Tasks \ Setscene
         /\ Depends[s] \ Setscene \subseteq SqCoveredTasks[s]
         /\ \A d \in SqCoveredTasks[s] : Depends[d] \ Setscene \subseteq SqCoveredTasks[s]
<1> DEFINE next == [t \in Tasks |-> Depends[t] \ Setscene]
           S    == Depends[s] \ Setscene
<1>1. next \in [Tasks -> SUBSET Tasks] /\ S \in SUBSET Tasks /\ IsFiniteSet(Tasks)
  BY DependsAssumption, SetsceneFinite
<1>2. SqCoveredTasks[s] = Closure(next, S)
  BY DEF SqCoveredTasks, PlainClosure
<1>3. (\A t \in Tasks : next[t] = Depends[t] \ Setscene) /\ S = Depends[s] \ Setscene
  OBVIOUS
<1> HIDE DEF next, S
<1>4. /\ S \subseteq Closure(next, S) /\ Closure(next, S) \subseteq Tasks
      /\ \A t \in Closure(next, S) : next[t] \subseteq Closure(next, S)
      /\ \A C \in SUBSET Tasks : S \subseteq C /\ (\A t \in C : next[t] \subseteq C)
              => Closure(next, S) \subseteq C
  BY <1>1, ClosureIsLeast
<1>5. Closure(next, S) \subseteq Tasks \ Setscene
  <2>1. S \subseteq Tasks \ Setscene /\ \A t \in Tasks \ Setscene : next[t] \subseteq Tasks \ Setscene
    BY <1>3, DependsAssumption, SetsceneFinite
  <2> QED
    BY <1>4, <2>1
<1>6. Depends[s] \ Setscene \subseteq SqCoveredTasks[s]
  <2>1. S \subseteq SqCoveredTasks[s]
    BY <1>2, <1>4
  <2> QED
    BY <1>3, <2>1
<1>7. ASSUME NEW d \in SqCoveredTasks[s]
      PROVE  Depends[d] \ Setscene \subseteq SqCoveredTasks[s]
  <2>1. d \in Closure(next, S) /\ d \in Tasks
    BY <1>2, <1>4
  <2>2. next[d] \subseteq Closure(next, S)
    BY <1>4, <2>1
  <2> QED
    BY <1>2, <1>3, <2>1, <2>2
<1> QED
  BY <1>2, <1>5, <1>6, <1>7

(* The tasks that cannot be skipped, and what they need.                     *)
LEMMA UnskippableClosure ==
  /\ Endpoints \cup CantSkip \subseteq Unskippable /\ Unskippable \subseteq Tasks
  /\ \A t \in Unskippable \ Setscene : Depends[t] \subseteq Unskippable
<1> DEFINE next == [t \in Tasks |-> IF t \in Setscene THEN {} ELSE Depends[t]]
           S    == Endpoints \cup CantSkip
<1>1. next \in [Tasks -> SUBSET Tasks] /\ S \in SUBSET Tasks /\ IsFiniteSet(Tasks)
  BY DependsAssumption, SetsceneAssumption DEF Endpoints, CantSkip
<1>2. Unskippable = Closure(next, S)
  BY DEF Unskippable
<1> HIDE DEF next, S
<1>3. /\ S \subseteq Closure(next, S) /\ Closure(next, S) \subseteq Tasks
      /\ \A t \in Closure(next, S) : next[t] \subseteq Closure(next, S)
  BY <1>1, ClosureIsLeast
<1> QED
  BY <1>2, <1>3 DEF next, S

LEMMA ClosureTypes ==
  /\ Setscene \subseteq Tasks
  /\ \A s \in Setscene : SqCoveredTasks[s] \subseteq Tasks
  /\ Unskippable \subseteq Tasks
  /\ SqRevdeps \in [Setscene -> SUBSET Setscene]
  /\ SqDeps \in [Setscene -> SUBSET Setscene]
<1>1. \A s \in Setscene : SqCoveredTasks[s] \subseteq Tasks
  BY CoveredClosure
<1>2. SqRevdeps \in [Setscene -> SUBSET Setscene]
  BY DEF SqRevdeps, SquashedRevdeps
<1>3. SqDeps \in [Setscene -> SUBSET Setscene]
  BY DEF SqDeps
<1> QED
  BY <1>1, <1>2, <1>3, SetsceneFinite, UnskippableClosure

(* A failure takes down what failed, and all that hard-depends on that and   *)
(* is not settled; and nothing besides.                                     *)
LEMMA HardFailuresClosure ==
  ASSUME NEW q, NEW S \in SUBSET Setscene
  PROVE  /\ S \subseteq HardFailures(q, S) /\ HardFailures(q, S) \subseteq Setscene
         /\ \A f \in HardFailures(q, S) : HardDeps[f] \ Settled(q) \subseteq HardFailures(q, S)
         /\ \A C \in SUBSET Setscene :
              S \subseteq C /\ (\A f \in C : HardDeps[f] \ Settled(q) \subseteq C)
                => HardFailures(q, S) \subseteq C
<1> DEFINE next == [t \in Setscene |-> HardDeps[t] \ Settled(q)]
<1>1. next \in [Setscene -> SUBSET Setscene]
  BY SetsceneAssumption
<1>2. HardFailures(q, S) = Closure(next, S)
  BY DEF HardFailures
<1>3. \A t \in Setscene : next[t] = HardDeps[t] \ Settled(q)
  OBVIOUS
<1> HIDE DEF next
<1>4. /\ S \subseteq Closure(next, S) /\ Closure(next, S) \subseteq Setscene
      /\ \A t \in Closure(next, S) : next[t] \subseteq Closure(next, S)
      /\ \A C \in SUBSET Setscene : S \subseteq C /\ (\A t \in C : next[t] \subseteq C)
              => Closure(next, S) \subseteq C
  BY <1>1, SetsceneFinite, ClosureIsLeast
<1> QED
  BY <1>2, <1>3, <1>4

LEMMA HardFailuresType ==
  ASSUME NEW q, NEW S, S \subseteq Setscene
  PROVE  HardFailures(q, S) \subseteq Setscene
BY HardFailuresClosure

LEMMA DoneAfterType ==
  ASSUME NEW S, NEW done, done \subseteq Tasks
  PROVE  DoneAfter(done, S) \subseteq Tasks /\ done \subseteq DoneAfter(done, S)
BY DEF DoneAfter

(* What a step of the queue's bookkeeping may do to it: it stays well       *)
(* formed, the live tasks stay the same, and no task leaves sq_running.     *)
Keeps(q, r) ==
  /\ r \in SceneQueueType
  /\ r.live = q.live
  /\ q.running \subseteq r.running

LEMMA KeepsTransitive ==
  ASSUME NEW q, NEW r, NEW u, Keeps(q, r), Keeps(r, u)
  PROVE  Keeps(q, u)
BY DEF Keeps

LEMMA UpdateCountersKeeps ==
  ASSUME NEW q \in SceneQueueType, NEW S, S \subseteq Setscene
  PROVE  Keeps(q, UpdateCounters(q, S))
<1>1. q.done \subseteq Tasks
  BY DEF SceneQueueType
<1>2. DoneAfter(q.done, S) \subseteq Tasks
  BY <1>1, DoneAfterType
<1> DEFINE more == {d \in UNION {SqDeps[t] : t \in S} : SqRevdeps[d] \subseteq Settled(q)}
<1>3. more \subseteq Setscene
  BY ClosureTypes
<1> HIDE DEF more
<1>4. UpdateCounters(q, S) = [q EXCEPT !.buildable = @ \cup more,
                                       !.done = DoneAfter(@, S)]
  BY DEF UpdateCounters, more
<1> QED
  BY <1>2, <1>3, <1>4 DEF Keeps, SceneQueueType

LEMMA SqCompleteAllKeeps ==
  ASSUME NEW q \in SceneQueueType, NEW S, S \subseteq Setscene
  PROVE  Keeps(q, SqCompleteAll(q, S))
<1> DEFINE r == [q EXCEPT !.covered = @ \cup S]
<1>1. Keeps(q, r)
  BY DEF Keeps, SceneQueueType
<1>2. Keeps(r, UpdateCounters(r, S))
  BY <1>1, UpdateCountersKeeps DEF Keeps
<1> QED
  BY <1>1, <1>2, KeepsTransitive DEF SqCompleteAll

LEMMA SqFailAllKeeps ==
  ASSUME NEW q \in SceneQueueType, NEW S, S \subseteq Setscene
  PROVE  Keeps(q, SqFailAll(q, S))
<1> DEFINE failed  == HardFailures(q, S)
           dragged == failed \ S
           r == [q EXCEPT !.notcovered = @ \cup failed,
                          !.running    = @ \cup dragged,
                          !.buildable  = @ \cup dragged]
<1>1. failed \subseteq Setscene
  BY HardFailuresType
<1> HIDE DEF failed
<1>2. Keeps(q, r)
  BY <1>1 DEF Keeps, SceneQueueType
<1>3. Keeps(r, UpdateCounters(r, failed))
  BY <1>1, <1>2, UpdateCountersKeeps DEF Keeps
<1>4. SqFailAll(q, S) = UpdateCounters(r, failed)
  BY DEF SqFailAll, failed
<1> QED
  BY <1>2, <1>3, <1>4, KeepsTransitive

LEMMA SqFailOutrightAllKeeps ==
  ASSUME NEW q \in SceneQueueType, NEW S, S \subseteq Setscene
  PROVE  Keeps(q, SqFailOutrightAll(q, S))
<1> DEFINE r == [q EXCEPT !.running = @ \cup S, !.buildable = @ \cup S]
<1>1. Keeps(q, r)
  BY DEF Keeps, SceneQueueType
<1>2. Keeps(r, SqFailAll(r, S))
  BY <1>1, SqFailAllKeeps DEF Keeps
<1> QED
  BY <1>1, <1>2, KeepsTransitive DEF SqFailOutrightAll

LEMMA SqSkipAllKeeps ==
  ASSUME NEW q \in SceneQueueType, NEW S, S \subseteq Setscene
  PROVE  Keeps(q, SqSkipAll(q, S))
<1> DEFINE r == [q EXCEPT !.running = @ \cup S, !.buildable = @ \cup S]
<1>1. Keeps(q, r)
  BY DEF Keeps, SceneQueueType
<1>2. Keeps(r, SqCompleteAll(r, S))
  BY <1>1, SqCompleteAllKeeps DEF Keeps
<1> QED
  BY <1>1, <1>2, KeepsTransitive DEF SqSkipAll

(* A deferred task waits for a setscene task.                               *)
LEMMA ReconsiderKeeps ==
  ASSUME NEW q \in SceneQueueType, NEW noexec, NEW hash
  PROVE  Keeps(q, Reconsider(q, noexec, hash))
<1> DEFINE absent  == Absent(q, noexec)
           waiting == {u \in absent : Leader(u, absent, hash) # u}
<1>1. absent \subseteq Setscene
  BY DEF Absent
<1> HIDE DEF absent
<1>2. ASSUME NEW t \in waiting PROVE Leader(t, absent, hash) \in Setscene
  <2> DEFINE peers == {u \in absent : PendingHashIndex(u, hash) = PendingHashIndex(t, hash)}
  <2>1. t \in peers /\ peers \subseteq Setscene
    BY <1>1
  <2> QED
    BY <2>1, FirstIsMember DEF Leader
<1>3. Deferrals(absent, hash) \in UNION {[D -> Setscene] : D \in SUBSET Setscene}
  <2>1. Deferrals(absent, hash) \in [waiting -> Setscene]
    BY <1>2 DEF Deferrals
  <2> QED
    BY <1>1, <2>1
<1>4. Reconsider(q, noexec, hash) =
        [q EXCEPT !.outrightfail = @ \cup absent, !.deferred = Deferrals(absent, hash)]
  BY DEF Reconsider, absent
<1> QED
  BY <1>1, <1>3, <1>4 DEF Keeps, SceneQueueType

LEMMA UpdateSceneQueueDataKeeps ==
  ASSUME NEW q \in SceneQueueType, NEW tids, tids \subseteq Setscene, NEW noexec,
         NEW stamped, NEW found, found \subseteq Setscene, NEW hash
  PROVE  Keeps(q, UpdateSceneQueueData(q, tids, noexec, stamped, found, hash))
<1> DEFINE skip    == tids \cap (noexec \cup stamped)
           cleared == [q EXCEPT
                         !.stamppresent = (@ \ tids) \cup (tids \cap (stamped \ noexec)),
                         !.valid        = (@ \ tids) \cup found]
           skipped == SqSkipAll(cleared, skip)
<1>1. Keeps(q, cleared)
  BY DEF Keeps, SceneQueueType
<1>2. Keeps(cleared, skipped)
  BY <1>1, SqSkipAllKeeps DEF Keeps
<1>3. Keeps(skipped, Reconsider(skipped, noexec, hash))
  BY <1>2, ReconsiderKeeps DEF Keeps
<1>4. UpdateSceneQueueData(q, tids, noexec, stamped, found, hash)
        = Reconsider(skipped, noexec, hash)
  BY DEF UpdateSceneQueueData
<1> QED
  BY <1>1, <1>2, <1>3, <1>4, KeepsTransitive

LEMMA UpdatedScenesKeep ==
  ASSUME NEW q \in SceneQueueType, NEW tids, tids \subseteq Setscene,
         NEW r \in UpdatedScenes(q, tids)
  PROVE  Keeps(q, r)
<1>1. PICK found \in SUBSET ((tids \cap Cached) \ (Noexec \cup AlreadyStamped(tids))) :
        r = UpdateSceneQueueData(q, tids, Noexec \cap Setscene, AlreadyStamped(tids),
                                 found, unihash)
  BY DEF UpdatedScenes
<1> QED
  BY <1>1, UpdateSceneQueueDataKeeps

LEMMA NewSceneQueueType ==
  ASSUME NEW names \in [Setscene -> StampNames]
  PROVE  NewSceneQueue(names) \in SceneQueueType
<1>1. Unskippable \subseteq Tasks
  BY ClosureTypes
<1>2. [t \in {} |-> t] \in UNION {[D -> Setscene] : D \in SUBSET Setscene}
  OBVIOUS
<1> QED
  BY <1>1, <1>2 DEF NewSceneQueue, SceneQueueType

-----------------------------------------------------------------------------
(* The tuples that UNCHANGED takes, spelt out wherever they are needed.     *)
USE DEF procvars, stampvars, sqvars, holdvars, runqvars, hashvars, vars

-----------------------------------------------------------------------------
(* Nothing is buildable, or has been started, before what it depends on is  *)
(* complete, by whichever of the code's routes to setbuildable it came: the *)
(* invariant is inductive by itself.                                        *)

LEMMA CompleteAtOnceDependencies ==
  ASSUME DependenciesComplete, NEW t \in Tasks, NEW ran, Schedulable(t),
         CompleteAtOnce(t, ran)
  PROVE  DependenciesComplete'
<1>1. Depends[t] \subseteq runq_complete
  BY DEF Schedulable, DependenciesComplete
<1>2. \A r \in Unblocked(t, runq_complete \cup {t}, runq_running \cup {t}) :
        Depends[r] \subseteq runq_complete'
  BY DEF Unblocked, CompleteAtOnce
<1> QED
  BY <1>1, <1>2 DEF CompleteAtOnce, DependenciesComplete

LEMMA DependenciesCompleteStep ==
  DependenciesComplete /\ [Next]_vars => DependenciesComplete'
<1> SUFFICES ASSUME DependenciesComplete, [Next]_vars
             PROVE  DependenciesComplete'
  OBVIOUS
<1>1. CASE UNCHANGED <<runq_buildable, runq_running, runq_complete>>
  BY <1>1 DEF DependenciesComplete
<1>2. ASSUME NEW t \in Tasks, ReadExit(t) PROVE DependenciesComplete'
  <2>1. CASE UNCHANGED runqvars
    BY <1>1, <2>1
  <2>2. CASE \E ok \in BOOLEAN : TaskExit(t, ok)
    <3>1. PICK ok \in BOOLEAN : TaskExit(t, ok)
      BY <2>2
    <3>2. \A r \in Unblocked(t, runq_complete \cup {t}, runq_running) :
            Depends[r] \subseteq runq_complete \cup {t}
      BY DEF Unblocked
    <3> QED
      BY <3>1, <3>2 DEF TaskExit, DependenciesComplete
  <2> QED
    BY <1>2, <2>1, <2>2 DEF ReadExit, SetsceneExit
<1>3. CASE SceneInit
  BY <1>3 DEF SceneInit, DependenciesComplete
<1>4. CASE UpdateHoldoff
  BY <1>4 DEF UpdateHoldoff, DependenciesComplete
<1>5. ASSUME NEW t \in Tasks, TaskCovered(t) \/ TaskExisting(t) \/ TaskNoexec(t)
      PROVE  DependenciesComplete'
  BY <1>5, CompleteAtOnceDependencies
     DEF TaskCovered, TaskExisting, TaskNoexec, MustRun, Scheduled
<1>6. ASSUME NEW t \in Tasks, TaskStart(t) PROVE DependenciesComplete'
  BY <1>6 DEF TaskStart, MustRun, Scheduled, Schedulable, DependenciesComplete
<1>7. CASE Environment
  BY <1>1, <1>7 DEF Environment, TaskSucceeds, TaskFails, TaskEnds, WorkerDies,
                    UserInterrupts
<1>8. CASE ReadUniHash \/ ReadDone
  BY <1>1, <1>8 DEF ReadUniHash, ReadDone
<1>9. CASE BeginPass \/ Finish \/ Return \/ Check \/ TearDown
  BY <1>1, <1>9 DEF BeginPass, Finish, Return, Check, TearDown
<1>10. CASE Migration
  BY <1>1, <1>10 DEF Migration, Rehash, NothingToRehash, MigrateDone, MigrateNot, Migrate
<1>11. CASE Scene
  BY <1>1, <1>11 DEF Scene, SceneNone, SceneSettles, SceneNotNeeded, SceneStaysInvalid,
                     SceneOutrightFail, SceneRunInstead, SceneSkip, SceneStart
<1>12. CASE NormalNone \/ WriteCrash \/ \E t \in Tasks : TaskWhitelistFail(t)
  BY <1>1, <1>12 DEF NormalNone, WriteCrash, Crash, TaskWhitelistFail
<1>13. CASE TailEnd
  BY <1>1, <1>13 DEF TailEnd, TailWait, TailForce, TailDone
<1>14. CASE Stopped
  BY <1>1, <1>14 DEF Stopped
<1>15. CASE UNCHANGED vars
  BY <1>1, <1>15
<1> QED
  BY <1>2, <1>3, <1>4, <1>5, <1>6, <1>7, <1>8, <1>9, <1>10, <1>11, <1>12, <1>13,
     <1>14, <1>15
     DEF Next, Read, Loop, Normal

(* No task is started, skipped or marked done before everything it depends  *)
(* on is complete.                                                          *)
THEOREM DependenciesCompleteAlways == Spec => []DependenciesComplete
<1>1. Init => DependenciesComplete
  BY DEF Init, DependenciesComplete
<1> QED
  BY <1>1, DependenciesCompleteStep, PTL DEF Spec

-----------------------------------------------------------------------------
(* Every variable keeps its type.  The part of the state an action leaves   *)
(* alone is covered by naming the variables it may change.                  *)

(* The queue keeps its type, and so do the rest of the variables when all   *)
(* an action changes about the queue is what Keeps allows.                  *)
LEMMA StampTypes ==
  ASSUME NEW st \in StampState, NEW S, S \subseteq Tasks, NEW hash
  PROVE  MakeStamps(st, S, hash) \in StampState
BY DEF StampState, MakeStamps, Missing, Fresh

LEMMA CleanStampType ==
  ASSUME NEW st \in StampState, NEW t \in Tasks
  PROVE  CleanStamp(st, t) \in StampState
BY DEF StampState, CleanStamp, Missing

LEMMA StampNameType ==
  ASSUME NEW t \in Tasks, NEW kind \in {"task", "setscene"}, NEW h \in Hashes
  PROVE  StampName(t, kind, h) \in StampNames
BY DEF StampName, StampNames, Bases

LEMMA WithType ==
  ASSUME NEW f, NEW t \in Tasks, NEW v \in StampNames,
         \E D \in SUBSET Tasks : f \in [D -> StampNames]
  PROVE  \E D \in SUBSET Tasks : With(f, t, v) \in [D -> StampNames]
<1>1. PICK D \in SUBSET Tasks : f \in [D -> StampNames]
  OBVIOUS
<1>2. With(f, t, v) \in [D \cup {t} -> StampNames]
  BY <1>1 DEF With
<1>3. D \cup {t} \in SUBSET Tasks
  OBVIOUS
<1> QED
  BY <1>2, <1>3

LEMMA WithoutType ==
  ASSUME NEW f, NEW t, \E D \in SUBSET Tasks : f \in [D -> StampNames]
  PROVE  \E D \in SUBSET Tasks : Without(f, t) \in [D -> StampNames]
<1>1. PICK D \in SUBSET Tasks : f \in [D -> StampNames]
  OBVIOUS
<1>2. Without(f, t) \in [D \ {t} -> StampNames]
  BY <1>1 DEF Without
<1>3. D \ {t} \in SUBSET Tasks
  OBVIOUS
<1> QED
  BY <1>2, <1>3

LEMMA StateTypes ==
  /\ FinalState \in RqStates
  /\ \A st \in RqStates : StateOnRead(st) \in RqStates
  /\ rqstate \in RqStates => TaskFailState \in RqStates
BY DEF RqStates, FinalState, StateOnRead, TaskFailState

LEMMA InitType == Init => TypeOK
<1> SUFFICES ASSUME Init PROVE TypeOK
  OBVIOUS
<1>1. sq \in SceneQueueType
  <2>1. [s \in Setscene |-> StampName(s, "setscene", InitHash[s])]
          \in [Setscene -> StampNames]
    BY ClosureTypes, StampNameType, HashAssumption
  <2> QED
    BY <2>1, NewSceneQueueType DEF Init
<1>2. stamps \in StampState /\ setscenestamps \in StampState
  BY DEF Init, StampsOf, StampState, Missing, Old
<1>3. \E D \in SUBSET Tasks : build_stamps \in [D -> StampNames]
  <2>1. build_stamps \in [{} -> StampNames]
    BY DEF Init
  <2> QED
    BY <2>1
<1>4. unihash \in [Tasks -> Hashes]
  BY HashAssumption DEF Init
<1>5. migrating \in [todo : SUBSET Setscene, update : SUBSET Setscene,
                     harddepfail : SUBSET Setscene, changed : BOOLEAN]
  BY DEF Init, NotMigrating
<1>6. rqstate \in RqStates /\ pc \in Stages /\ interrupt \in 0..2
  BY DEF Init, RqStates, Stages
<1>7. /\ worker \in {"up", "dead", "gone"} /\ sqdone \in BOOLEAN
      /\ holdoff_need_update \in BOOLEAN
  BY Zenon DEF Init
<1>8. procs \subseteq Processes /\ sent \subseteq Tasks \X Hashes
      /\ updated_taskhash_queue \subseteq Tasks \X Hashes
      /\ pending_migrations \subseteq Setscene
  BY DEF Init
<1>9. /\ holdoff_tasks \subseteq Tasks
      /\ tasks_covered \subseteq Tasks /\ tasks_notcovered \subseteq Tasks
      /\ runq_buildable \subseteq Tasks /\ runq_running \subseteq Tasks
      /\ runq_complete \subseteq Tasks /\ runq_tasksrun \subseteq Tasks
      /\ failed_tids \subseteq Tasks
  BY DEF Init
<1>10. active = 0 /\ sqactive = 0
  BY Zenon DEF Init
<1>11. active \in Int /\ sqactive \in Int
  BY <1>10
<1> QED
  BY <1>1, <1>2, <1>3, <1>4, <1>5, <1>6, <1>7, <1>8, <1>9, <1>11 DEF TypeOK

LEMMA EnvironmentType == TypeOK /\ Environment => TypeOK'
<1> SUFFICES ASSUME TypeOK, Environment PROVE TypeOK'
  OBVIOUS
<1>1. ASSUME NEW p \in procs, NEW h \in Reports(p), TaskSucceeds(p, h) \/ TaskFails(p, h)
      PROVE  TypeOK'
  <2>1. p \in Processes /\ p.task \in Tasks /\ h \in Hashes
    BY DEF TypeOK, Processes, Reports
  <2>2. PICK status \in {"ok", "fail"} : TaskEnds(p, status, h)
    BY <1>1 DEF TaskSucceeds, TaskFails
  <2>3. procs' \subseteq Processes
    BY <2>1, <2>2 DEF TypeOK, TaskEnds, Processes
  <2>4. sent' \subseteq Tasks \X Hashes
    BY <2>1, <2>2 DEF TypeOK, TaskEnds
  <2>5. stamps' \in StampState /\ setscenestamps' \in StampState
    BY <1>1, <2>1, StampTypes, CleanStampType DEF TypeOK, TaskSucceeds, TaskFails
  <2> QED
    BY <2>2, <2>3, <2>4, <2>5 DEF TypeOK, TaskEnds
<1>2. CASE WorkerDies
  BY <1>2 DEF TypeOK, WorkerDies
<1>3. CASE \E how \in {1, 2} : UserInterrupts(how)
  BY <1>3 DEF TypeOK, UserInterrupts
<1> QED
  BY <1>1, <1>2, <1>3 DEF Environment

LEMMA ReadType == TypeOK /\ Read => TypeOK'
<1> SUFFICES ASSUME TypeOK, Read PROVE TypeOK'
  OBVIOUS
<1>1. CASE ReadUniHash
  BY <1>1 DEF TypeOK, ReadUniHash
<1>2. ASSUME NEW t \in Tasks, ReadExit(t) PROVE TypeOK'
  <2>1. \E D \in SUBSET Tasks : build_stamps' \in [D -> StampNames]
    BY <1>2, WithoutType DEF TypeOK, ReadExit
  <2>2. procs' \subseteq Processes
    BY <1>2 DEF TypeOK, ReadExit
  <2>3. ASSUME NEW ok \in BOOLEAN, t \in sq.live, SetsceneExit(t, ok) PROVE TypeOK'
    <3>1. t \in Setscene
      BY <2>3 DEF TypeOK, SceneQueueType
    <3>2. PICK r : Keeps(sq, r) /\ sq' = [r EXCEPT !.live = @ \ {t}]
      BY <2>3, <3>1, SqCompleteAllKeeps, SqFailAllKeeps DEF TypeOK, SetsceneExit
    <3>3. sq' \in SceneQueueType
      BY <3>2 DEF Keeps, SceneQueueType
    <3> QED
      BY <1>2, <2>1, <2>2, <2>3, <3>3 DEF TypeOK, ReadExit, SetsceneExit, RqStates
  <2>4. ASSUME NEW ok \in BOOLEAN, TaskExit(t, ok) PROVE TypeOK'
    <3>1. runq_buildable' \subseteq Tasks
      BY <2>4 DEF TypeOK, TaskExit, Unblocked, Revdeps
    <3> QED
      BY <1>2, <2>1, <2>2, <2>4, <3>1, StateTypes DEF TypeOK, ReadExit, TaskExit, NowFailed
  <2> QED
    BY <1>2, <2>3, <2>4 DEF ReadExit
<1>3. CASE ReadDone
  BY <1>3 DEF TypeOK, ReadDone, Stages
<1> QED
  BY <1>1, <1>2, <1>3 DEF Read

LEMMA LoopType == TypeOK /\ Loop => TypeOK'
<1> SUFFICES ASSUME TypeOK, Loop PROVE TypeOK'
  OBVIOUS
<1>1. CASE SceneInit
  <2> DEFINE names == [s \in Setscene |-> StampName(s, "setscene", unihash[s])]
  <2>1. names \in [Setscene -> StampNames]
    BY ClosureTypes, StampNameType DEF TypeOK
  <2>2. sq' \in SceneQueueType
    BY <1>1, <2>1, NewSceneQueueType, UpdatedScenesKeep DEF SceneInit, Keeps
  <2>3. setscenestamps' \in StampState
    BY <1>1, StampTypes, ClosureTypes DEF SceneInit, TypeOK
  <2> QED
    BY <1>1, <2>2, <2>3 DEF SceneInit, TypeOK, RqStates, Stages
<1>2. CASE BeginPass
  BY <1>2, StateTypes DEF BeginPass, TypeOK, RqStates, Stages
<1>3. CASE Finish
  BY <1>3, StateTypes DEF Finish, TypeOK, RqStates, Stages
<1>4. CASE Return \/ Check
  BY <1>4 DEF Return, Check, TypeOK, Stages
<1>5. CASE TearDown
  BY <1>5 DEF TearDown, TypeOK, Stages
<1> QED
  BY <1>1, <1>2, <1>3, <1>4, <1>5 DEF Loop

(* So is a queue that no longer defers t.                                    *)
LEMMA UndeferredKeeps ==
  ASSUME TypeOK, NEW t \in Setscene
  PROVE  Keeps(sq, Undeferred(t)) /\ Keeps(sq, Retried(t))
<1>1. Without(sq.deferred, t) \in UNION {[D -> Setscene] : D \in SUBSET Setscene}
  <2>1. PICK D \in SUBSET Setscene : sq.deferred \in [D -> Setscene]
    BY DEF TypeOK, SceneQueueType
  <2>2. Without(sq.deferred, t) \in [D \ {t} -> Setscene]
    BY <2>1 DEF Without
  <2> QED
    BY <2>2
<1>2. Keeps(sq, Undeferred(t))
  BY <1>1 DEF Undeferred, Keeps, TypeOK, SceneQueueType
<1>3. Keeps(Undeferred(t), [Undeferred(t) EXCEPT !.outrightfail = @ \ {t}])
  BY <1>2 DEF Keeps, SceneQueueType
<1>4. Keeps(sq, sq)
  BY DEF Keeps, TypeOK
<1> QED
  BY <1>2, <1>3, <1>4, KeepsTransitive DEF Retried

(* What the queue is after the last turn of the migrations, or after a       *)
(* deferred task was forced, is what Keeps allows.                          *)
LEMMA MigrateDoneKeeps ==
  ASSUME TypeOK, MigrateDone
  PROVE  Keeps(sq, sq')
<1>1. migrating.update \subseteq Setscene /\ migrating.harddepfail \subseteq Setscene
  BY DEF TypeOK
<1>2. ASSUME NEW q \in UpdatedScenes(sq, migrating.update)
      PROVE  Keeps(sq, q) /\ Keeps(sq, SqFailOutrightAll(q, migrating.harddepfail))
  <2>1. Keeps(sq, q)
    BY <1>1, UpdatedScenesKeep DEF TypeOK
  <2>2. Keeps(q, SqFailOutrightAll(q, migrating.harddepfail))
    BY <1>1, <2>1, SqFailOutrightAllKeeps DEF Keeps
  <2> QED
    BY <2>1, <2>2, KeepsTransitive
<1>3. Keeps(sq, sq)
  BY DEF Keeps, TypeOK
<1> QED
  BY <1>2, <1>3 DEF MigrateDone

LEMMA TailForceKeeps ==
  ASSUME TypeOK, TailForce
  PROVE  Keeps(sq, sq')
<1> DEFINE t == First(DOMAIN sq.deferred)
<1>1. DOMAIN sq.deferred \subseteq Setscene
  BY DEF TypeOK, SceneQueueType
<1>2. t \in DOMAIN sq.deferred
  BY <1>1, FirstIsMember DEF TailForce
<1>3. sq.deferred[t] \in Setscene
  BY <1>2 DEF TypeOK, SceneQueueType
<1>4. Keeps(sq, Undeferred(t))
  BY <1>1, <1>2, UndeferredKeeps
<1>5. Keeps(Undeferred(t), SqFailOutrightAll(Undeferred(t), {sq.deferred[t]}))
  BY <1>3, <1>4, SqFailOutrightAllKeeps DEF Keeps
<1> QED
  BY <1>4, <1>5, KeepsTransitive DEF TailForce

LEMMA MigrationType == TypeOK /\ Migration => TypeOK'
<1> SUFFICES ASSUME TypeOK, Migration PROVE TypeOK'
  OBVIOUS
<1>1. CASE Rehash
  <2> DEFINE taken     == {m \in updated_taskhash_queue : ~InProgress(m[1])}
             toprocess == {m[1] : m \in {n \in taken : n[2] # unihash[n[1]]}}
             reported  == [t \in Tasks |-> IF t \in toprocess
                             THEN CHOOSE h \in Hashes : <<t, h>> \in taken
                             ELSE unihash[t]]
             total     == Downstream(toprocess)
  <2>1. reported \in [Tasks -> Hashes]
    <3>1. ASSUME NEW t \in toprocess PROVE \E h \in Hashes : <<t, h>> \in taken
      BY DEF TypeOK
    <3> QED
      BY <3>1 DEF TypeOK
  <2> HIDE DEF taken, toprocess, reported, total
  <2>2. PICK new \in Rehashings(reported, toprocess, total) :
          LET changed == Retaken(total, new, reported)
              pending == pending_migrations \cup (changed \cap Setscene)
          IN  /\ unihash' = [t \in Tasks |->
                               IF t \in changed THEN new[t] ELSE reported[t]]
              /\ updated_taskhash_queue' = updated_taskhash_queue \ taken
              /\ pending_migrations' = pending
              /\ migrating' = [todo |-> pending, update |-> {}, harddepfail |-> {},
                               changed |-> changed # {}]
    BY <1>1 DEF Rehash, taken, toprocess, reported, total
  <2> DEFINE changed == Retaken(total, new, reported)
  <2>3. unihash' \in [Tasks -> Hashes]
    <3>1. \A t \in changed : new[t] \in Hashes
      BY DEF Retaken, Rehashings
    <3> QED
      BY <2>1, <2>2, <3>1
  <2>4. /\ updated_taskhash_queue' \subseteq Tasks \X Hashes
        /\ pending_migrations' \subseteq Setscene
    BY <2>2 DEF TypeOK
  <2>5. migrating' \in [todo : SUBSET Setscene, update : SUBSET Setscene,
                        harddepfail : SUBSET Setscene, changed : BOOLEAN]
    BY <2>2 DEF TypeOK
  <2> QED
    BY <1>1, <2>3, <2>4, <2>5 DEF Rehash, TypeOK, Stages
<1>2. CASE NothingToRehash
  BY <1>2 DEF NothingToRehash, TypeOK, Stages
<1>3. ASSUME NEW t \in Setscene, MigrateNot(t) PROVE TypeOK'
  BY <1>3 DEF MigrateNot, Handled, TypeOK
<1>4. ASSUME NEW t \in Setscene, Migrate(t) PROVE TypeOK'
  <2>1. pending_migrations' \subseteq Setscene
    BY <1>4 DEF Migrate, Handled, TypeOK
  <2>2. t \in Tasks
    BY ClosureTypes
  <2>3. CASE AbandonBuild(t)
    <3>1. sq' \in SceneQueueType
      BY <2>3 DEF AbandonBuild, TypeOK, SceneQueueType
    <3> QED
      BY <1>4, <2>1, <2>2, <2>3, <3>1
         DEF Migrate, AbandonBuild, NotMigrating, TypeOK, RqStates, Stages
  <2>4. CASE Reopen(t)
    <3>1. StampName(t, "setscene", unihash[t]) \in StampNames
      BY <2>2, StampNameType DEF TypeOK
    <3>2. sq' \in SceneQueueType
      <4> DEFINE q == Unsettled(sq, t)
      <4>1. q \in SceneQueueType
        BY DEF Unsettled, TypeOK, SceneQueueType
      <4>2. PICK D, B : /\ B \subseteq {t}
                        /\ sq' = [q EXCEPT !.done = @ \ D,
                                           !.buildable = (@ \ {t}) \cup B,
                                           !.stamps[t] = StampName(t, "setscene", unihash[t])]
        BY <2>4 DEF Reopen
      <4> HIDE DEF q
      <4> QED
        BY <3>1, <4>1, <4>2 DEF SceneQueueType
    <3>3. \E D \in SUBSET Tasks : build_stamps' \in [D -> StampNames]
      BY <2>4, WithoutType DEF Reopen, TypeOK
    <3>4. migrating' \in [todo : SUBSET Setscene, update : SUBSET Setscene,
                          harddepfail : SUBSET Setscene, changed : BOOLEAN]
      BY <2>4 DEF Reopen, TypeOK
    <3> QED
      BY <1>4, <2>1, <2>4, <3>2, <3>3, <3>4 DEF Migrate, Reopen, TypeOK
  <2> QED
    BY <1>4, <2>3, <2>4 DEF Migrate
<1>5. CASE MigrateDone
  <2>1. migrating.update \subseteq Setscene
    BY DEF TypeOK
  <2>3. sq' \in SceneQueueType
    BY <1>5, MigrateDoneKeeps DEF Keeps
  <2>4. setscenestamps' \in StampState /\ sqdone' \in BOOLEAN /\ sqactive' \in Int
    <3>1. MakeStamps(setscenestamps, migrating.update \cap Noexec, unihash) \in StampState
      BY <2>1, StampTypes, ClosureTypes DEF TypeOK
    <3> QED
      BY <1>5, <3>1 DEF MigrateDone, TypeOK
  <2>5. holdoff_need_update' \in BOOLEAN
    BY <1>5 DEF MigrateDone, HoldoffStale, TypeOK
  <2> QED
    BY <1>5, <2>3, <2>4, <2>5 DEF MigrateDone, NotMigrating, TypeOK, Stages
<1> QED
  BY <1>1, <1>2, <1>3, <1>4, <1>5 DEF Migration

(* What the scene stage does to the queue is what Keeps allows.             *)
LEMMA SceneSettlesKeeps ==
  ASSUME TypeOK, NEW t \in Setscene,
         \/ SceneNotNeeded(t) \/ SceneStaysInvalid(t) \/ SceneOutrightFail(t)
         \/ SceneRunInstead(t) \/ SceneSkip(t)
  PROVE  Keeps(sq, sq') /\ \E q : SceneSettles(q)
<1>1. Keeps(sq, Undeferred(t)) /\ Keeps(sq, Retried(t)) /\ {t} \subseteq Setscene
  BY UndeferredKeeps
<1>2. CASE SceneNotNeeded(t)
  <2> DEFINE q == SqSkipAll(Undeferred(t), {t})
             r == [q EXCEPT !.notneeded = @ \cup {t}]
  <2>1. Keeps(sq, q)
    BY <1>1, SqSkipAllKeeps, KeepsTransitive DEF Keeps
  <2>2. Keeps(q, r)
    BY <2>1 DEF Keeps, SceneQueueType
  <2>3. SceneSettles(r)
    BY <1>2 DEF SceneNotNeeded
  <2> HIDE DEF q, r
  <2> QED
    BY <2>1, <2>2, <2>3, KeepsTransitive DEF SceneSettles
<1>3. CASE SceneStaysInvalid(t)
  <2>1. Keeps(sq, SqFailOutrightAll(Undeferred(t), {t}))
    BY <1>1, SqFailOutrightAllKeeps, KeepsTransitive DEF Keeps
  <2> QED
    BY <1>3, <2>1 DEF SceneStaysInvalid, SceneSettles
<1>4. CASE SceneOutrightFail(t)
  <2>1. Keeps(sq, SqFailOutrightAll(sq, {t}))
    BY <1>1, SqFailOutrightAllKeeps DEF TypeOK
  <2> QED
    BY <1>4, <2>1 DEF SceneOutrightFail, SceneSettles
<1>5. CASE SceneRunInstead(t)
  <2>1. Keeps(sq, SqFailOutrightAll(Retried(t), {t}))
    BY <1>1, SqFailOutrightAllKeeps, KeepsTransitive DEF Keeps
  <2> QED
    BY <1>5, <2>1 DEF SceneRunInstead, SceneSettles
<1>6. CASE SceneSkip(t)
  <2>1. Keeps(sq, SqSkipAll(Retried(t), {t}))
    BY <1>1, SqSkipAllKeeps, KeepsTransitive DEF Keeps
  <2> QED
    BY <1>6, <2>1 DEF SceneSkip, SceneSettles
<1> QED
  BY <1>2, <1>3, <1>4, <1>5, <1>6

LEMMA SceneType == TypeOK /\ Scene => TypeOK'
<1> SUFFICES ASSUME TypeOK, Scene PROVE TypeOK'
  OBVIOUS
<1>1. CASE SceneNone
  BY <1>1 DEF SceneNone, TypeOK, Stages
<1>2. ASSUME NEW t \in Setscene,
             \/ SceneNotNeeded(t) \/ SceneStaysInvalid(t) \/ SceneOutrightFail(t)
             \/ SceneRunInstead(t) \/ SceneSkip(t)
      PROVE  TypeOK'
  <2>1. sq' \in SceneQueueType /\ \E q : SceneSettles(q)
    BY <1>2, SceneSettlesKeeps DEF Keeps
  <2> QED
    BY <2>1 DEF SceneSettles, TypeOK, Stages
<1>3. ASSUME NEW t \in Setscene, SceneStart(t) PROVE TypeOK'
  <2>1. t \in Tasks /\ unihash[t] \in Hashes
    BY ClosureTypes DEF TypeOK
  <2>2. procs' \subseteq Processes
    BY <1>3, <2>1 DEF SceneStart, Process, Processes, TypeOK
  <2>3. \E D \in SUBSET Tasks : build_stamps' \in [D -> StampNames]
    BY <1>3, <2>1, StampNameType, WithType DEF SceneStart, TypeOK
  <2>4. sq' \in SceneQueueType
    <3> DEFINE q == Retried(t)
    <3>1. q \in SceneQueueType
      BY UndeferredKeeps DEF Keeps
    <3>2. sq' = [q EXCEPT !.running = @ \cup {t}, !.live = @ \cup {t}]
      BY <1>3 DEF SceneStart
    <3> HIDE DEF q
    <3> QED
      BY <3>1, <3>2 DEF SceneQueueType
  <2> QED
    BY <1>3, <2>2, <2>3, <2>4 DEF SceneStart, TypeOK, Stages
<1> QED
  BY <1>1, <1>2, <1>3 DEF Scene

LEMMA UpdateHoldoffType == TypeOK /\ UpdateHoldoff => TypeOK'
<1> SUFFICES ASSUME TypeOK, UpdateHoldoff PROVE TypeOK'
  OBVIOUS
<1>1. NewNotCovered \subseteq Tasks /\ NewCovered \subseteq Tasks
  BY DEF NewNotCovered, NewCovered, TypeOK, SceneQueueType
<1>2. NewHoldoff \subseteq Tasks
  BY ClosureTypes DEF NewHoldoff, CoveredBy
<1>3. /\ tasks_covered' \subseteq Tasks /\ tasks_notcovered' \subseteq Tasks
      /\ holdoff_tasks' \subseteq Tasks /\ runq_buildable' \subseteq Tasks
  BY <1>1, <1>2 DEF UpdateHoldoff, TypeOK
<1>4. rqstate' \in RqStates /\ pc' \in Stages
  BY DEF UpdateHoldoff, TypeOK, RqStates, Stages
<1>5. sqdone' \in BOOLEAN /\ holdoff_need_update' \in BOOLEAN
  BY DEF UpdateHoldoff, TypeOK
<1> QED
  BY <1>3, <1>4, <1>5 DEF UpdateHoldoff, TypeOK

LEMMA NormalType == TypeOK /\ Normal => TypeOK'
<1> SUFFICES ASSUME TypeOK, Normal PROVE TypeOK'
  OBVIOUS
<1>1. CASE NormalNone
  BY <1>1 DEF NormalNone, TypeOK, Stages
<1>2. ASSUME NEW t \in Tasks, TaskWhitelistFail(t) PROVE TypeOK'
  BY <1>2, StateTypes DEF TaskWhitelistFail, NowFailed, TypeOK, Stages
<1>3. ASSUME NEW t \in Tasks, TaskCovered(t) \/ TaskExisting(t) \/ TaskNoexec(t)
      PROVE  TypeOK'
  <2>1. PICK ran \in BOOLEAN : CompleteAtOnce(t, ran)
    BY <1>3 DEF TaskCovered, TaskExisting, TaskNoexec
  <2>2. stamps' \in StampState /\ setscenestamps' \in StampState
    <3>1. MakeStamps(stamps, {t}, unihash) \in StampState
      BY StampTypes DEF TypeOK
    <3>2. CleanStamp(setscenestamps, t) \in StampState
      BY CleanStampType DEF TypeOK
    <3> QED
      BY <1>3, <3>1, <3>2 DEF TaskCovered, TaskExisting, TaskNoexec, TypeOK
  <2>3. runq_buildable' \subseteq Tasks
    BY <2>1 DEF CompleteAtOnce, Unblocked, Revdeps, TypeOK
  <2> QED
    BY <2>1, <2>2, <2>3 DEF CompleteAtOnce, TypeOK, Stages
<1>4. ASSUME NEW t \in Tasks, TaskStart(t) PROVE TypeOK'
  <2>1. procs' \subseteq Processes
    BY <1>4 DEF TaskStart, Process, Processes, TypeOK
  <2>2. \E D \in SUBSET Tasks : build_stamps' \in [D -> StampNames]
    BY <1>4, StampNameType, WithType DEF TaskStart, TypeOK
  <2> QED
    BY <1>4, <2>1, <2>2 DEF TaskStart, TypeOK, Stages
<1>5. CASE WriteCrash
  BY <1>5 DEF WriteCrash, Crash, TypeOK, RqStates, Stages
<1> QED
  BY <1>1, <1>2, <1>3, <1>4, <1>5 DEF Normal

LEMMA TailEndType == TypeOK /\ TailEnd => TypeOK'
<1> SUFFICES ASSUME TypeOK, TailEnd PROVE TypeOK'
  OBVIOUS
<1>1. CASE TailWait
  BY <1>1, StateTypes DEF TailWait, TypeOK, Stages
<1>2. CASE TailForce
  BY <1>2, TailForceKeeps DEF Keeps, TailForce, TypeOK, Stages
<1>3. CASE TailDone
  BY <1>3 DEF TailDone, TypeOK, RqStates, Stages
<1> QED
  BY <1>1, <1>2, <1>3 DEF TailEnd

THEOREM TypeCorrect == Spec => []TypeOK
<1>1. TypeOK /\ [Next]_vars => TypeOK'
  <2> SUFFICES ASSUME TypeOK, [Next]_vars PROVE TypeOK'
    OBVIOUS
  <2>1. CASE Stopped \/ UNCHANGED vars
    BY <2>1 DEF Stopped, TypeOK
  <2> QED
    BY <2>1, EnvironmentType, ReadType, LoopType, MigrationType, SceneType,
       UpdateHoldoffType, NormalType, TailEndType
       DEF Next
<1> QED
  BY <1>1, InitType, PTL DEF Spec

(* Both of them: the books of the executer and the order it takes tasks in. *)
THEOREM ExecutionSoundAlways == Spec => []ExecutionSound
<1>1. TypeOK /\ DependenciesComplete => ExecutionSound
  BY DEF ExecutionSound
<1> QED
  BY <1>1, TypeCorrect, DependenciesCompleteAlways, PTL

-----------------------------------------------------------------------------
(* What the executer never does.                                           *)

(* The setscene tasks that run, or could be started as far as the queue is   *)
(* concerned.                                                               *)
Unsure(q) == q.live \cup (q.buildable \ q.running)

(* What is settled or live has been started, and nothing is both.            *)
OnBooks(q) == Settled(q) \cup q.live \subseteq q.running /\ q.live \cap Settled(q) = {}

(* A failure has taken down what hard-depends on it, but for those of X,     *)
(* which are to fail yet; and nothing that hard-depends on another task is   *)
(* started before that is covered.                                          *)
HardSettled(q, X) == \A f \in q.notcovered : HardDeps[f] \subseteq Settled(q) \cup X
HardFirst(q, X) ==
  \A s \in Unsure(q) \ X : \A f \in Setscene : s \in HardDeps[f] => f \in q.covered

QueueSound(q, X) == OnBooks(q) /\ HardSettled(q, X) /\ HardFirst(q, X)

(* What settling a task does to the queue besides.                           *)
Grows(q, r) ==
  /\ Keeps(q, r)
  /\ q.covered \subseteq r.covered /\ q.notcovered \subseteq r.notcovered
  /\ r.notneeded = q.notneeded

LEMMA GrowsTransitive ==
  ASSUME NEW q, NEW r, NEW u, Grows(q, r), Grows(r, u)
  PROVE  Grows(q, u)
BY KeepsTransitive DEF Grows

LEMMA UpdateCountersSound ==
  ASSUME NEW q \in SceneQueueType, NEW S \in SUBSET Setscene
  PROVE  LET r == UpdateCounters(q, S)
         IN  /\ Grows(q, r) /\ r.covered = q.covered /\ r.notcovered = q.notcovered
             /\ \A X \in SUBSET Setscene : QueueSound(q, X) => QueueSound(r, X)
<1> DEFINE r == UpdateCounters(q, S)
<1>1. Keeps(q, r)
  BY UpdateCountersKeeps
<1> DEFINE more == {d \in UNION {SqDeps[t] : t \in S} : SqRevdeps[d] \subseteq Settled(q)}
<1>2. more \subseteq Setscene /\ \A d \in more : SqRevdeps[d] \subseteq Settled(q)
  BY ClosureTypes
<1> HIDE DEF more
<1>3. r = [q EXCEPT !.buildable = @ \cup more, !.done = DoneAfter(@, S)]
  BY DEF UpdateCounters, more
<1>4. /\ r.covered = q.covered /\ r.notcovered = q.notcovered /\ r.live = q.live
      /\ r.running = q.running /\ r.buildable = q.buildable \cup more
      /\ r.notneeded = q.notneeded
  BY <1>3 DEF SceneQueueType
<1> HIDE DEF r
<1>5. ASSUME NEW X \in SUBSET Setscene, QueueSound(q, X) PROVE QueueSound(r, X)
  <2>1. OnBooks(r) /\ HardSettled(r, X)
    BY <1>4, <1>5 DEF QueueSound, OnBooks, HardSettled, Settled
  <2>2. ASSUME NEW s \in Unsure(r) \ X, NEW f \in Setscene, s \in HardDeps[f]
        PROVE  f \in r.covered
    <3>1. CASE s \in Unsure(q)
      BY <1>4, <1>5, <2>2, <3>1 DEF QueueSound, HardFirst
    <3>2. CASE s \notin Unsure(q)
      <4>1. s \in more /\ s \notin q.running
        BY <1>4, <2>2, <3>2 DEF Unsure
      <4>2. f \in SqRevdeps[s]
        BY <1>2, <2>2, <4>1 DEF SqRevdeps
      <4>3. f \in Settled(q) /\ s \notin Settled(q)
        BY <1>2, <1>5, <4>1, <4>2 DEF QueueSound, OnBooks
      <4> QED
        BY <1>4, <1>5, <2>2, <4>3 DEF QueueSound, HardSettled, Settled
    <3> QED
      BY <3>1, <3>2
  <2> QED
    BY <2>1, <2>2 DEF QueueSound, HardFirst
<1> QED
  BY <1>1, <1>4, <1>5 DEF r, Grows

LEMMA SqCompleteAllSound ==
  ASSUME NEW q \in SceneQueueType, NEW S \in SUBSET q.running
  PROVE  LET r == SqCompleteAll(q, S)
         IN  /\ Grows(q, r) /\ r.covered = q.covered \cup S
             /\ \A X \in SUBSET Setscene :
                  QueueSound(q, X) /\ S \cap q.live = {} => QueueSound(r, X)
<1> DEFINE u == [q EXCEPT !.covered = @ \cup S]
<1>1. S \in SUBSET Setscene
  BY DEF SceneQueueType
<1>2. /\ u.covered = q.covered \cup S /\ u.notcovered = q.notcovered
      /\ u.live = q.live /\ u.running = q.running /\ u.buildable = q.buildable
      /\ u.notneeded = q.notneeded
  BY DEF SceneQueueType
<1>3. u \in SceneQueueType
  BY <1>1 DEF SceneQueueType
<1>4. SqCompleteAll(q, S) = UpdateCounters(u, S)
  BY DEF SqCompleteAll
<1> HIDE DEF u
<1>5. Grows(q, u)
  BY <1>2, <1>3 DEF Grows, Keeps
<1>6. ASSUME NEW X \in SUBSET Setscene, QueueSound(q, X), S \cap q.live = {}
      PROVE  QueueSound(u, X)
  BY <1>1, <1>2, <1>6
     DEF QueueSound, OnBooks, HardSettled, HardFirst, Settled, Unsure
<1> QED
  BY <1>1, <1>2, <1>3, <1>4, <1>5, <1>6, UpdateCountersSound, GrowsTransitive

(* What fails is not live, and nothing that hard-depends on it is.            *)
Failable(q, S) ==
  S \cap q.live = {} /\ \A f \in S : HardDeps[f] \cap q.live = {}

LEMMA SqFailAllSound ==
  ASSUME NEW q \in SceneQueueType, NEW S \in SUBSET q.running
  PROVE  LET r == SqFailAll(q, S)
         IN  /\ Grows(q, r) /\ r.covered = q.covered /\ S \subseteq r.notcovered
             /\ \A X \in SUBSET Setscene :
                  QueueSound(q, X) /\ Failable(q, S) /\ X \cap q.live = {}
                    => QueueSound(r, X \ S)
<1> DEFINE failed  == HardFailures(q, S)
           dragged == failed \ S
           u == [q EXCEPT !.notcovered = @ \cup failed,
                          !.running    = @ \cup dragged,
                          !.buildable  = @ \cup dragged]
<1>1. S \in SUBSET Setscene
  BY DEF SceneQueueType
<1>2. /\ S \subseteq failed /\ failed \subseteq Setscene
      /\ \A f \in failed : HardDeps[f] \ Settled(q) \subseteq failed
      /\ \A C \in SUBSET Setscene :
              S \subseteq C /\ (\A f \in C : HardDeps[f] \ Settled(q) \subseteq C)
                => failed \subseteq C
  BY <1>1, HardFailuresClosure
<1>3. SqFailAll(q, S) = UpdateCounters(u, failed)
  BY DEF SqFailAll
<1> HIDE DEF failed
<1>4. /\ u.covered = q.covered /\ u.notcovered = q.notcovered \cup failed
      /\ u.live = q.live /\ u.running = q.running \cup dragged
      /\ u.buildable = q.buildable \cup dragged /\ u.notneeded = q.notneeded
  BY DEF SceneQueueType
<1>5. u \in SceneQueueType
  BY <1>2 DEF SceneQueueType
<1> HIDE DEF u
<1>6. Grows(q, u)
  BY <1>4, <1>5 DEF Grows, Keeps
<1>7. ASSUME NEW X \in SUBSET Setscene, QueueSound(q, X), Failable(q, S), X \cap q.live = {}
      PROVE  QueueSound(u, X \ S)
  <2> DEFINE C == S \cup (Setscene \ (Settled(q) \cup q.live))
  <2>1. ASSUME NEW f \in C, NEW s \in HardDeps[f] \ Settled(q) PROVE s \in C
    <3>1. s \in Setscene /\ f \in Setscene
      BY <1>1, SetsceneAssumption
    <3>2. CASE s \in q.live
      BY <1>7, <2>1, <3>1, <3>2
         DEF Failable, QueueSound, HardFirst, Unsure, Settled
    <3> QED
      BY <3>1, <3>2
  <2>2. failed \subseteq C
    <3>1. C \in SUBSET Setscene /\ S \subseteq C
      BY <1>1
    <3>2. \A f \in C : HardDeps[f] \ Settled(q) \subseteq C
      BY <2>1
    <3> HIDE DEF C
    <3> QED
      BY <1>2, <3>1, <3>2
  <2>3. failed \cap q.live = {}
    BY <1>7, <2>2 DEF Failable
  <2>4. OnBooks(u)
    BY <1>2, <1>4, <1>7, <2>3 DEF QueueSound, OnBooks, Settled
  <2>5. HardSettled(u, X \ S)
    <3>1. ASSUME NEW f \in u.notcovered, NEW s \in HardDeps[f]
          PROVE  s \in Settled(u) \cup (X \ S)
      <4>1. CASE f \in failed
        BY <1>2, <1>4, <3>1, <4>1 DEF Settled
      <4>2. CASE f \in q.notcovered
        <5>1. s \in Settled(q) \cup X
          BY <1>7, <3>1, <4>2 DEF QueueSound, HardSettled
        <5> QED
          BY <1>2, <1>4, <5>1 DEF Settled
      <4> QED
        BY <1>4, <3>1, <4>1, <4>2
    <3> QED
      BY <3>1 DEF HardSettled
  <2>6. Unsure(u) \ (X \ S) \subseteq Unsure(q) \ X
    BY <1>4, <1>7 DEF Unsure, Failable
  <2>7. HardFirst(u, X \ S)
    BY <1>4, <1>7, <2>6 DEF QueueSound, HardFirst
  <2> QED
    BY <2>4, <2>5, <2>7 DEF QueueSound
<1>8. ASSUME NEW X \in SUBSET Setscene PROVE X \ S \in SUBSET Setscene
  OBVIOUS
<1> QED
  BY <1>2, <1>3, <1>4, <1>5, <1>6, <1>7, <1>8, UpdateCountersSound, GrowsTransitive

(* A task given up or skipped is marked as started first.                     *)
LEMMA MarkedSound ==
  ASSUME NEW q \in SceneQueueType, NEW S \in SUBSET Setscene
  PROVE  LET r == [q EXCEPT !.running = @ \cup S, !.buildable = @ \cup S]
         IN  /\ Grows(q, r) /\ r.covered = q.covered /\ r.notcovered = q.notcovered
             /\ S \subseteq r.running /\ r.live = q.live
             /\ \A X \in SUBSET Setscene : QueueSound(q, X) => QueueSound(r, X)
<1> DEFINE r == [q EXCEPT !.running = @ \cup S, !.buildable = @ \cup S]
<1>1. /\ r.covered = q.covered /\ r.notcovered = q.notcovered /\ r.live = q.live
      /\ r.running = q.running \cup S /\ r.buildable = q.buildable \cup S
      /\ r.notneeded = q.notneeded
  BY DEF SceneQueueType
<1>2. r \in SceneQueueType
  BY DEF SceneQueueType
<1> HIDE DEF r
<1>3. ASSUME NEW X \in SUBSET Setscene, QueueSound(q, X) PROVE QueueSound(r, X)
  BY <1>1, <1>3 DEF QueueSound, OnBooks, HardSettled, HardFirst, Settled, Unsure
<1> QED
  BY <1>1, <1>2, <1>3 DEF r, Grows, Keeps

LEMMA SqSkipAllSound ==
  ASSUME NEW q \in SceneQueueType, NEW S \in SUBSET Setscene
  PROVE  LET r == SqSkipAll(q, S)
         IN  /\ Grows(q, r) /\ r.covered = q.covered \cup S
             /\ \A X \in SUBSET Setscene :
                  QueueSound(q, X) /\ S \cap q.live = {} => QueueSound(r, X)
<1> DEFINE u == [q EXCEPT !.running = @ \cup S, !.buildable = @ \cup S]
<1>1. /\ Grows(q, u) /\ u.covered = q.covered /\ S \subseteq u.running /\ u.live = q.live
      /\ \A X \in SUBSET Setscene : QueueSound(q, X) => QueueSound(u, X)
  BY MarkedSound
<1>2. SqSkipAll(q, S) = SqCompleteAll(u, S) /\ u \in SceneQueueType
  BY <1>1 DEF SqSkipAll, Grows, Keeps
<1> HIDE DEF u
<1> QED
  BY <1>1, <1>2, SqCompleteAllSound, GrowsTransitive

LEMMA SqFailOutrightAllSound ==
  ASSUME NEW q \in SceneQueueType, NEW S \in SUBSET Setscene
  PROVE  LET r == SqFailOutrightAll(q, S)
         IN  /\ Grows(q, r) /\ r.covered = q.covered /\ S \subseteq r.notcovered
             /\ \A X \in SUBSET Setscene :
                  QueueSound(q, X) /\ Failable(q, S) /\ X \cap q.live = {}
                    => QueueSound(r, X \ S)
<1> DEFINE u == [q EXCEPT !.running = @ \cup S, !.buildable = @ \cup S]
<1>1. /\ Grows(q, u) /\ u.covered = q.covered /\ S \subseteq u.running /\ u.live = q.live
      /\ \A X \in SUBSET Setscene : QueueSound(q, X) => QueueSound(u, X)
  BY MarkedSound
<1>2. SqFailOutrightAll(q, S) = SqFailAll(u, S) /\ u \in SceneQueueType
  BY <1>1 DEF SqFailOutrightAll, Grows, Keeps
<1>3. Failable(q, S) => Failable(u, S)
  BY <1>1 DEF Failable
<1> HIDE DEF u
<1>4. S \in SUBSET u.running
  BY <1>1
<1> QED
  BY <1>1, <1>2, <1>3, <1>4, SqFailAllSound, GrowsTransitive

(* The fields of the queue that are not about what is decided.                *)
SameDecisions(q, r) ==
  /\ r \in SceneQueueType /\ r.live = q.live /\ r.running = q.running
  /\ r.buildable = q.buildable /\ r.covered = q.covered /\ r.notcovered = q.notcovered
  /\ r.notneeded = q.notneeded /\ r.done = q.done

LEMMA SameDecisionsSound ==
  ASSUME NEW q, NEW r, SameDecisions(q, r)
  PROVE  Grows(q, r) /\ \A X : QueueSound(q, X) => QueueSound(r, X)
BY DEF SameDecisions, Grows, Keeps, QueueSound, OnBooks, HardSettled, HardFirst,
       Settled, Unsure

LEMMA ReconsiderSame ==
  ASSUME NEW q \in SceneQueueType, NEW noexec, NEW hash
  PROVE  SameDecisions(q, Reconsider(q, noexec, hash))
<1> DEFINE absent == Absent(q, noexec)
           r      == [q EXCEPT !.outrightfail = @ \cup absent,
                               !.deferred = Deferrals(absent, hash)]
<1>1. Reconsider(q, noexec, hash) = r
  BY DEF Reconsider
<1>2. r \in SceneQueueType
  BY <1>1, ReconsiderKeeps DEF Keeps
<1>3. /\ r.live = q.live /\ r.running = q.running /\ r.buildable = q.buildable
      /\ r.covered = q.covered /\ r.notcovered = q.notcovered /\ r.notneeded = q.notneeded
      /\ r.done = q.done
  BY DEF SceneQueueType
<1> QED
  BY <1>1, <1>2, <1>3 DEF SameDecisions

LEMMA UpdatedScenesSound ==
  ASSUME NEW q \in SceneQueueType, NEW tids \in SUBSET Setscene,
         NEW r \in UpdatedScenes(q, tids)
  PROVE  /\ Grows(q, r) /\ r.covered \subseteq q.covered \cup tids
         /\ \A X \in SUBSET Setscene :
              QueueSound(q, X) /\ tids \cap q.live = {} => QueueSound(r, X)
<1> DEFINE stamped == AlreadyStamped(tids)
           noexec  == Noexec \cap Setscene
           skip    == tids \cap (noexec \cup stamped)
<1>1. PICK found \in SUBSET ((tids \cap Cached) \ (Noexec \cup stamped)) :
        r = UpdateSceneQueueData(q, tids, noexec, stamped, found, unihash)
  BY DEF UpdatedScenes
<1> HIDE DEF stamped, noexec
<1> DEFINE cleared == [q EXCEPT
                         !.stamppresent = (@ \ tids) \cup (tids \cap (stamped \ noexec)),
                         !.valid        = (@ \ tids) \cup found]
           skipped == SqSkipAll(cleared, skip)
<1>2. SameDecisions(q, cleared)
  BY DEF SameDecisions, SceneQueueType
<1>3. r = Reconsider(skipped, noexec, unihash)
  BY <1>1 DEF UpdateSceneQueueData
<1> HIDE DEF cleared
<1>4. /\ Grows(cleared, skipped) /\ skipped.covered = cleared.covered \cup skip
      /\ \A X \in SUBSET Setscene :
           QueueSound(cleared, X) /\ skip \cap cleared.live = {} => QueueSound(skipped, X)
  BY <1>2, SqSkipAllSound DEF SameDecisions
<1>5. SameDecisions(skipped, r)
  BY <1>3, <1>4, ReconsiderSame DEF Grows, Keeps
<1> HIDE DEF skipped
<1>6. Grows(q, r)
  BY <1>2, <1>4, <1>5, SameDecisionsSound, GrowsTransitive
<1>7. r.covered \subseteq q.covered \cup tids
  BY <1>2, <1>4, <1>5 DEF SameDecisions
<1>8. ASSUME NEW X \in SUBSET Setscene, QueueSound(q, X), tids \cap q.live = {}
      PROVE  QueueSound(r, X)
  BY <1>2, <1>4, <1>5, <1>8, SameDecisionsSound DEF SameDecisions
<1> QED
  BY <1>6, <1>7, <1>8

(* So does a queue that no longer defers t.                                  *)
LEMMA UndeferredSame ==
  ASSUME TypeOK, NEW t \in Setscene
  PROVE  SameDecisions(sq, Undeferred(t)) /\ SameDecisions(sq, Retried(t))
<1>1. Undeferred(t) \in SceneQueueType /\ Retried(t) \in SceneQueueType
  BY UndeferredKeeps DEF Keeps
<1> QED
  BY <1>1 DEF SameDecisions, Retried, Undeferred, TypeOK, SceneQueueType

(* Taking the tasks of S off the live ones, before or after they are settled. *)
LEMMA LiveApart ==
  ASSUME NEW q \in SceneQueueType, NEW S \in SUBSET Setscene, NEW L \in SUBSET Setscene
  PROVE  LET p == [q EXCEPT !.live = L]
         IN  /\ [SqCompleteAll(q, S) EXCEPT !.live = L] = SqCompleteAll(p, S)
             /\ [SqFailAll(q, S) EXCEPT !.live = L] = SqFailAll(p, S)
<1> DEFINE p == [q EXCEPT !.live = L]
<1>1. ASSUME NEW u \in SceneQueueType, NEW T
      PROVE  [UpdateCounters(u, T) EXCEPT !.live = L]
               = UpdateCounters([u EXCEPT !.live = L], T)
  <2> DEFINE v == [u EXCEPT !.live = L]
  <2>1. Settled(v) = Settled(u) /\ v.done = u.done
    BY DEF Settled, SceneQueueType
  <2> DEFINE more == {d \in UNION {SqDeps[t] : t \in T} : SqRevdeps[d] \subseteq Settled(u)}
  <2>2. UpdateCounters(u, T) = [u EXCEPT !.buildable = @ \cup more, !.done = DoneAfter(@, T)]
    BY DEF UpdateCounters
  <2>3. UpdateCounters(v, T) = [v EXCEPT !.buildable = @ \cup more, !.done = DoneAfter(@, T)]
    BY <2>1 DEF UpdateCounters
  <2> HIDE DEF more
  <2> QED
    BY <2>2, <2>3 DEF SceneQueueType
<1>2. [SqCompleteAll(q, S) EXCEPT !.live = L] = SqCompleteAll(p, S)
  <2> DEFINE u == [q EXCEPT !.covered = @ \cup S]
  <2>1. u \in SceneQueueType /\ [u EXCEPT !.live = L] = [p EXCEPT !.covered = @ \cup S]
    BY DEF SceneQueueType
  <2> QED
    BY <1>1, <2>1 DEF SqCompleteAll
<1>3. [SqFailAll(q, S) EXCEPT !.live = L] = SqFailAll(p, S)
  <2> DEFINE failed  == HardFailures(q, S)
             dragged == failed \ S
             u == [q EXCEPT !.notcovered = @ \cup failed,
                            !.running    = @ \cup dragged,
                            !.buildable  = @ \cup dragged]
             v == [p EXCEPT !.notcovered = @ \cup failed,
                            !.running    = @ \cup dragged,
                            !.buildable  = @ \cup dragged]
  <2>1. Settled(p) = Settled(q)
    BY DEF Settled, SceneQueueType
  <2>2. HardFailures(p, S) = failed
    BY <2>1 DEF HardFailures
  <2>3. failed \in SUBSET Setscene
    BY HardFailuresClosure
  <2>4. SqFailAll(q, S) = UpdateCounters(u, failed) /\ SqFailAll(p, S) = UpdateCounters(v, failed)
    BY <2>2 DEF SqFailAll
  <2> HIDE DEF failed
  <2>5. u \in SceneQueueType /\ [u EXCEPT !.live = L] = v
    BY <2>3 DEF SceneQueueType
  <2> QED
    BY <1>1, <2>4, <2>5
<1> QED
  BY <1>2, <1>3

-----------------------------------------------------------------------------
(* The inductive invariant.                                                  *)

(* The queue is sound but for what the migrations under way are yet to fail, *)
(* and what was found not to be needed is needed by covered tasks only.      *)
NotNeededRight ==
  \A d \in sq.notneeded :
    /\ d \notin Unskippable /\ d \in DepValid /\ d \in sq.covered
    /\ SqRevdeps[d] # {} /\ SqRevdeps[d] \subseteq sq.covered

QueueRight == QueueSound(sq, migrating.harddepfail) /\ NotNeededRight

(* A task that waits to go back to the queue is neither covered nor being    *)
(* restored; when it has been put off, it is not covered.  What has gone     *)
(* back in this round is not settled, and the round knows of it.             *)
PendingRight ==
  /\ pending_migrations \cap (sq.covered \cup sq.live) = {}
  /\ pc \notin {"migrate", "end"} => migrating = NotMigrating
  /\ migrating.todo \subseteq pending_migrations
  /\ pending_migrations \ migrating.todo \subseteq sq.notcovered
  /\ migrating.update \cap (pending_migrations \cup sq.covered \cup sq.live) = {}
  /\ migrating.harddepfail \subseteq migrating.update
  /\ migrating.update # {} => migrating.changed

(* What has been started, or is in progress below a setscene task, came      *)
(* after the scene queue had settled that; what was skipped is below one     *)
(* that is covered.                                                          *)
StartedRight ==
  /\ runq_complete \subseteq runq_running
  /\ \A s \in Setscene :
       /\ s \in runq_running => s \in Settled(sq)
       /\ \A d \in SqCoveredTasks[s] : InProgress(d) => s \in Settled(sq)
       /\ \A d \in {s} \cup SqCoveredTasks[s] :
            d \in runq_complete \ runq_tasksrun => s \in sq.covered

(* What update_holdofftasks computed last is right until the queue changes.  *)
HoldoffFresh ==
  ~holdoff_need_update /\ ~migrating.changed =>
    /\ NewHoldoff \subseteq holdoff_tasks
    /\ tasks_covered \subseteq sq.covered \cup CoveredBy(sq.covered)
    /\ tasks_covered \cap (sq.notcovered \cup CoveredBy(sq.notcovered)
                             \cup (Unskippable \ Setscene)) = {}
    /\ tasks_notcovered \subseteq sq.notcovered \cup CoveredBy(sq.notcovered)
                                    \cup (Unskippable \ Setscene)

(* Nothing happens before there is an executer, and tasks are only chosen    *)
(* after the holdoff was looked at.                                         *)
EarlyRight ==
  /\ rqstate = "SceneInit" =>
       /\ pc = "idle" /\ holdoff_need_update
       /\ procs = {} /\ runq_running = {} /\ pending_migrations = {} /\ sqactive = 0
  /\ pc = "normal" => ~holdoff_need_update

(* Every process is that of a task in progress or of a live setscene task,   *)
(* no two are of one task, and the live ones are counted.                    *)
ProcsRight ==
  /\ \A p \in procs : IF p.kind = "setscene" THEN p.task \in sq.live ELSE InProgress(p.task)
  /\ OneProcessPerTask
  /\ sqactive = Cardinality(sq.live)

Coherent ==
  QueueRight /\ PendingRight /\ StartedRight /\ HoldoffFresh /\ EarlyRight /\ ProcsRight

-----------------------------------------------------------------------------
(* Steps that leave a part of it alone.                                      *)

LEMMA QueueFrame ==
  ASSUME QueueRight, PendingRight, UNCHANGED <<sq, pending_migrations, migrating>>,
         pc \in {"migrate", "end"} => pc' \in {"migrate", "end"}
  PROVE  QueueRight' /\ PendingRight'
BY DEF QueueRight, QueueSound, OnBooks, HardSettled, HardFirst, Unsure, Settled,
       NotNeededRight, PendingRight

LEMMA StartedFrame ==
  ASSUME StartedRight, UNCHANGED <<runq_running, runq_complete, runq_tasksrun>>,
         sq.covered \subseteq sq'.covered, sq.notcovered \subseteq sq'.notcovered
  PROVE  StartedRight'
BY DEF StartedRight, InProgress, Settled

LEMMA HoldoffFrame ==
  ASSUME HoldoffFresh, UNCHANGED <<holdoff_tasks, tasks_covered, tasks_notcovered>>,
         UNCHANGED <<holdoff_need_update, sq>>, migrating.changed => migrating'.changed,
         runq_complete \subseteq runq_complete'
  PROVE  HoldoffFresh'
BY DEF HoldoffFresh, NewHoldoff, CoveredBy, Settled

(* A step that settles nothing, starts nothing and completes nothing.        *)
Quiet ==
  /\ UNCHANGED <<sq, sqactive, holdvars, runq_running, runq_complete, runq_tasksrun,
                 pending_migrations, migrating>>
  /\ procs' \subseteq procs
  /\ pc \in {"migrate", "end"} => pc' \in {"migrate", "end"}
  /\ pc' = "normal" => pc = "normal"
  /\ rqstate' = "SceneInit" => rqstate = "SceneInit" /\ pc' = pc

LEMMA QuietStep == Coherent /\ Quiet => Coherent'
<1> SUFFICES ASSUME Coherent, Quiet PROVE Coherent'
  OBVIOUS
<1>1. QueueRight' /\ PendingRight'
  BY QueueFrame DEF Coherent, Quiet
<1>2. StartedRight' /\ HoldoffFresh'
  BY StartedFrame, HoldoffFrame DEF Coherent, Quiet
<1>3. EarlyRight'
  BY DEF Coherent, Quiet, EarlyRight
<1>4. ProcsRight'
  BY DEF Coherent, Quiet, ProcsRight, OneProcessPerTask, InProgress
<1> QED
  BY <1>1, <1>2, <1>3, <1>4 DEF Coherent

LEMMA StatesAreLater ==
  /\ FinalState # "SceneInit"
  /\ \A st : st # "SceneInit" => StateOnRead(st) # "SceneInit"
  /\ TaskFailState = "SceneInit" => rqstate = "SceneInit"
BY DEF FinalState, StateOnRead, TaskFailState

LEMMA QuietSteps ==
  ASSUME TypeOK, Coherent,
         \/ WorkerDies \/ (\E how \in {1, 2} : UserInterrupts(how))
         \/ ReadUniHash \/ ReadDone \/ BeginPass \/ Finish \/ Return \/ Check \/ TearDown
         \/ NothingToRehash \/ SceneNone \/ NormalNone \/ WriteCrash
         \/ (\E t \in Tasks : TaskWhitelistFail(t))
         \/ TailWait \/ TailDone \/ Stopped \/ UNCHANGED vars
  PROVE  Coherent'
<1>1. CASE WorkerDies \/ \E how \in {1, 2} : UserInterrupts(how)
  BY <1>1, QuietStep DEF WorkerDies, UserInterrupts, Quiet
<1>2. CASE ReadUniHash \/ ReadDone
  BY <1>2, QuietStep DEF ReadUniHash, ReadDone, Reading, Quiet, Coherent, EarlyRight
<1>3. CASE BeginPass \/ Finish
  BY <1>3, QuietStep, StatesAreLater
     DEF BeginPass, Finish, Quiet, Coherent, EarlyRight
<1>4. CASE Return \/ Check \/ TearDown
  BY <1>4, QuietStep DEF Return, Check, TearDown, Quiet, Coherent, EarlyRight
<1>5. CASE NothingToRehash \/ SceneNone \/ NormalNone
  BY <1>5, QuietStep DEF NothingToRehash, SceneNone, NormalNone, Quiet, Coherent, EarlyRight
<1>6. CASE WriteCrash
  BY <1>6, QuietStep DEF WriteCrash, Crash, Quiet
<1>7. CASE \E t \in Tasks : TaskWhitelistFail(t)
  BY <1>7, QuietStep, StatesAreLater
     DEF TaskWhitelistFail, Scheduled, Quiet, Coherent, EarlyRight
<1>8. CASE TailWait
  BY <1>8, QuietStep, StatesAreLater DEF TailWait, Quiet, Coherent, EarlyRight
<1>9. CASE TailDone
  BY <1>9, QuietStep DEF TailDone, Idle, Quiet, Coherent, EarlyRight
<1>10. CASE Stopped \/ UNCHANGED vars
  BY <1>10, QuietStep DEF Stopped, Quiet
<1> QED
  BY <1>1, <1>2, <1>3, <1>4, <1>5, <1>6, <1>7, <1>8, <1>9, <1>10

-----------------------------------------------------------------------------
(* Processes end, and their exits are read.                                  *)

LEMMA TaskEndsCoherent ==
  ASSUME TypeOK, Coherent, NEW p \in procs, NEW h, NEW status, TaskEnds(p, status, h)
  PROVE  Coherent'
<1> DEFINE e == [p EXCEPT !.status = status]
<1>1. e.task = p.task /\ e.kind = p.kind /\ procs' = (procs \ {p}) \cup {e}
  BY DEF TaskEnds, TypeOK, Processes
<1>2. UNCHANGED <<rqstate, pc, sqvars, holdvars, runqvars, hashvars>>
  BY DEF TaskEnds
<1> HIDE DEF e
<1>3. QueueRight' /\ PendingRight' /\ StartedRight' /\ HoldoffFresh'
  BY <1>2, QueueFrame, StartedFrame, HoldoffFrame DEF Coherent
<1>4. EarlyRight'
  BY <1>1, <1>2 DEF Coherent, EarlyRight
<1>5. ProcsRight'
  BY <1>1, <1>2 DEF Coherent, ProcsRight, OneProcessPerTask, InProgress
<1> QED
  BY <1>3, <1>4, <1>5 DEF Coherent

(* A failure while nothing that hard-depends on the failed tasks is live.    *)
LEMMA NotStartedFailable ==
  ASSUME NEW q \in SceneQueueType, NEW X, QueueSound(q, X), X \cap q.live = {},
         NEW S \in SUBSET Setscene, S \cap (q.live \cup q.covered) = {}
  PROVE  Failable(q, S)
<1>1. ASSUME NEW f \in S, NEW s \in HardDeps[f], s \in q.live PROVE FALSE
  BY <1>1 DEF QueueSound, HardFirst, Unsure
<1> QED
  BY <1>1 DEF Failable

LEMMA SetsceneExitSettles ==
  ASSUME TypeOK, QueueSound(sq, {}), NEW t \in sq.live, NEW ok \in BOOLEAN,
         SetsceneExit(t, ok)
  PROVE  /\ sq' \in SceneQueueType /\ QueueSound(sq', {})
         /\ sq.covered \subseteq sq'.covered /\ sq'.covered \subseteq sq.covered \cup {t}
         /\ sq.notcovered \subseteq sq'.notcovered
         /\ sq'.notneeded = sq.notneeded /\ sq'.live = sq.live \ {t}
<1> DEFINE q == [sq EXCEPT !.live = @ \ {t}]
           r == IF ok THEN SqCompleteAll(q, {t}) ELSE SqFailAll(q, {t})
<1>1. {t} \in SUBSET Setscene /\ sq.live \ {t} \in SUBSET Setscene /\ sq \in SceneQueueType
  BY DEF TypeOK, SceneQueueType
<1>2. /\ q \in SceneQueueType /\ q.live = sq.live \ {t} /\ q.running = sq.running
      /\ q.covered = sq.covered /\ q.notcovered = sq.notcovered
      /\ q.notneeded = sq.notneeded /\ q.buildable = sq.buildable
      /\ q = [sq EXCEPT !.live = sq.live \ {t}]
  BY <1>1 DEF SceneQueueType
<1>3. sq' = r
  <2>1. CASE ok
    <3>1. sq' = [SqCompleteAll(sq, {t}) EXCEPT !.live = sq.live \ {t}]
      <4>1. SqCompleteAll(sq, {t}).live = sq.live
        BY <1>1, SqCompleteAllKeeps DEF Keeps
      <4> QED
        BY <2>1, <4>1 DEF SetsceneExit
    <3> QED
      BY <1>1, <1>2, <2>1, <3>1, LiveApart
  <2>2. CASE ~ok
    <3>1. sq' = [SqFailAll(sq, {t}) EXCEPT !.live = sq.live \ {t}]
      <4>1. SqFailAll(sq, {t}).live = sq.live
        BY <1>1, SqFailAllKeeps DEF Keeps
      <4> QED
        BY <2>2, <4>1 DEF SetsceneExit
    <3> QED
      BY <1>1, <1>2, <2>2, <3>1, LiveApart
  <2> QED
    BY <2>1, <2>2
<1> HIDE DEF q
<1>4. QueueSound(q, {}) /\ {t} \cap q.live = {} /\ {t} \in SUBSET q.running
  BY <1>2 DEF QueueSound, OnBooks, HardSettled, HardFirst, Settled, Unsure
<1>5. Failable(q, {t})
  <2>1. {t} \cap (q.live \cup q.covered) = {}
    BY <1>2 DEF QueueSound, OnBooks, Settled
  <2> QED
    BY <1>1, <1>2, <1>4, <2>1, NotStartedFailable
<1>6. CASE ok
  <2>1. r = SqCompleteAll(q, {t})
    BY <1>6
  <2> HIDE DEF r
  <2>2. /\ Grows(q, r) /\ r.covered = q.covered \cup {t}
        /\ \A X \in SUBSET Setscene : QueueSound(q, X) /\ {t} \cap q.live = {} => QueueSound(r, X)
    BY <1>2, <1>4, <2>1, SqCompleteAllSound
  <2>3. QueueSound(r, {})
    BY <1>4, <2>2
  <2> QED
    BY <1>2, <1>3, <2>2, <2>3 DEF Grows, Keeps
<1>7. CASE ~ok
  <2>1. r = SqFailAll(q, {t})
    BY <1>7
  <2> HIDE DEF r
  <2>2. /\ Grows(q, r) /\ r.covered = q.covered
        /\ \A X \in SUBSET Setscene :
             QueueSound(q, X) /\ Failable(q, {t}) /\ X \cap q.live = {} => QueueSound(r, X \ {t})
    BY <1>2, <1>4, <2>1, SqFailAllSound
  <2>3. QueueSound(r, {} \ {t}) /\ {} \ {t} = {}
    BY <1>4, <1>5, <2>2
  <2> QED
    BY <1>2, <1>3, <2>2, <2>3 DEF Grows, Keeps
<1> QED
  BY <1>6, <1>7

LEMMA ReadExitCoherent ==
  ASSUME TypeOK, Coherent, NEW t \in Tasks, ReadExit(t)
  PROVE  Coherent'
<1>1. PICK p \in procs : p.task = t /\ procs' = procs \ {p}
  BY DEF ReadExit
<1>2. /\ pc \notin {"idle", "migrate", "normal", "end"} /\ rqstate # "SceneInit"
      /\ UNCHANGED <<pc, hashvars>>
  BY DEF ReadExit, Reading, Coherent, EarlyRight
<1>3. migrating = NotMigrating /\ migrating.harddepfail = {}
  BY <1>2 DEF Coherent, PendingRight, NotMigrating
<1>4. \A q \in procs' : q \in procs /\ q.task # t
  BY <1>1 DEF Coherent, ProcsRight, OneProcessPerTask
<1>5. CASE t \in sq.live
  <2>1. PICK ok \in BOOLEAN : SetsceneExit(t, ok)
    BY <1>5 DEF ReadExit
  <2>2. QueueSound(sq, {})
    BY <1>3 DEF Coherent, QueueRight
  <2>3. /\ sq' \in SceneQueueType /\ QueueSound(sq', {})
        /\ sq.covered \subseteq sq'.covered /\ sq'.covered \subseteq sq.covered \cup {t}
        /\ sq.notcovered \subseteq sq'.notcovered
        /\ sq'.notneeded = sq.notneeded /\ sq'.live = sq.live \ {t}
    BY <1>5, <2>1, <2>2, SetsceneExitSettles
  <2>4. /\ UNCHANGED <<runq_running, runq_complete, runq_tasksrun>>
        /\ holdoff_need_update' = TRUE /\ rqstate' # "SceneInit" /\ sqactive' = sqactive - 1
    BY <1>2, <2>1 DEF SetsceneExit
  <2>5. QueueRight'
    BY <1>2, <1>3, <2>3 DEF Coherent, QueueRight, NotNeededRight
  <2>6. PendingRight'
    BY <1>2, <1>3, <1>5, <2>3 DEF Coherent, PendingRight, NotMigrating
  <2>7. StartedRight'
    BY <2>3, <2>4, StartedFrame DEF Coherent
  <2>8. HoldoffFresh' /\ EarlyRight'
    BY <1>2, <2>4 DEF HoldoffFresh, EarlyRight
  <2>9. ProcsRight'
    <3>1. \A q \in procs' :
            IF q.kind = "setscene" THEN q.task \in sq'.live ELSE InProgress(q.task)'
      BY <1>4, <2>3, <2>4 DEF Coherent, ProcsRight, InProgress
    <3>2. OneProcessPerTask'
      BY <1>1 DEF Coherent, ProcsRight, OneProcessPerTask
    <3>3. sqactive' = Cardinality(sq'.live)
      <4>1. IsFiniteSet(sq.live)
        BY SetsceneFinite, FS_Subset DEF TypeOK, SceneQueueType
      <4> QED
        <5>1. Cardinality(sq.live \ {t}) = Cardinality(sq.live) - 1
          BY <1>5, <4>1, FS_RemoveElement
        <5> QED
          BY <2>3, <2>4, <5>1 DEF Coherent, ProcsRight
    <3> QED
      BY <3>1, <3>2, <3>3 DEF ProcsRight
  <2> QED
    BY <2>5, <2>6, <2>7, <2>8, <2>9 DEF Coherent
<1>6. CASE t \notin sq.live
  <2>1. PICK ok \in BOOLEAN : TaskExit(t, ok)
    BY <1>6 DEF ReadExit
  <2>2. UNCHANGED <<sq, sqactive, holdvars, runq_running>> /\ rqstate' # "SceneInit"
    BY <1>2, <2>1, StatesAreLater DEF TaskExit
  <2>3. \/ /\ runq_complete' = runq_complete \cup {t}
           /\ runq_tasksrun' = runq_tasksrun \cup {t}
        \/ UNCHANGED <<runq_complete, runq_tasksrun>>
    BY <2>1 DEF TaskExit
  <2>4. t \in runq_running
    BY <1>1, <1>6 DEF Coherent, ProcsRight, InProgress
  <2>5. QueueRight' /\ PendingRight'
    BY <1>2, <2>2, QueueFrame DEF Coherent
  <2>6. StartedRight'
    BY <2>2, <2>3, <2>4 DEF Coherent, StartedRight, InProgress, Settled
  <2>7. HoldoffFresh'
    BY <1>2, <2>2, <2>3, HoldoffFrame DEF Coherent
  <2>8. EarlyRight'
    BY <1>2, <2>2 DEF EarlyRight
  <2>9. ProcsRight'
    BY <1>1, <1>4, <2>2, <2>3 DEF Coherent, ProcsRight, OneProcessPerTask, InProgress
  <2> QED
    BY <2>5, <2>6, <2>7, <2>8, <2>9 DEF Coherent
<1> QED
  BY <1>5, <1>6

-----------------------------------------------------------------------------
(* The executer is built.                                                    *)
LEMMA SceneInitCoherent == TypeOK /\ Coherent /\ SceneInit => Coherent'
<1> SUFFICES ASSUME TypeOK, Coherent, SceneInit PROVE Coherent'
  OBVIOUS
<1>1. /\ procs' = {} /\ runq_running' = {} /\ pending_migrations' = {} /\ sqactive' = 0
      /\ holdoff_need_update' = TRUE /\ pc' = "read" /\ rqstate' = "Running"
      /\ runq_complete' = {} /\ migrating' = NotMigrating
  BY DEF SceneInit, Coherent, EarlyRight, StartedRight, PendingRight
<1> DEFINE names == [s \in Setscene |-> StampName(s, "setscene", unihash[s])]
           new   == NewSceneQueue(names)
<1>2. new \in SceneQueueType
  BY ClosureTypes, StampNameType, NewSceneQueueType DEF TypeOK
<1>3. QueueSound(new, {}) /\ new.live = {} /\ new.notneeded = {}
  <2>1. \A f, s \in Setscene : s \in HardDeps[f] => f \in SqRevdeps[s]
    BY DEF SqRevdeps
  <2> QED
    BY <2>1 DEF NewSceneQueue, QueueSound, OnBooks, HardSettled, HardFirst, Settled, Unsure
<1>4. sq' \in UpdatedScenes(new, Setscene)
  BY DEF SceneInit
<1> HIDE DEF new
<1>5. /\ Grows(new, sq')
      /\ \A X \in SUBSET Setscene : QueueSound(new, X) /\ Setscene \cap new.live = {}
            => QueueSound(sq', X)
  BY <1>2, <1>4, UpdatedScenesSound
<1>6. QueueSound(sq', {}) /\ sq'.live = {} /\ sq'.notneeded = {}
  BY <1>3, <1>5 DEF Grows, Keeps
<1>7. QueueRight' /\ PendingRight'
  BY <1>1, <1>6 DEF QueueRight, NotNeededRight, PendingRight, NotMigrating
<1>8. StartedRight' /\ HoldoffFresh' /\ EarlyRight'
  BY <1>1 DEF StartedRight, HoldoffFresh, EarlyRight, InProgress
<1>9. ProcsRight'
  <2>1. Cardinality({}) = 0
    BY FS_EmptySet
  <2> QED
    BY <1>1, <1>6, <2>1 DEF ProcsRight, OneProcessPerTask
<1> QED
  BY <1>7, <1>8, <1>9 DEF Coherent

-----------------------------------------------------------------------------
(* Migrations.                                                               *)

LEMMA RehashCoherent == TypeOK /\ Coherent /\ Rehash => Coherent'
<1> SUFFICES ASSUME TypeOK, Coherent, Rehash PROVE Coherent'
  OBVIOUS
<1>1. /\ pc = "rehash" /\ pc' = "migrate" /\ rqstate # "SceneInit"
      /\ UNCHANGED <<rqstate, procs, sqvars, holdvars, runqvars>>
  BY DEF Rehash, Coherent, EarlyRight
<1>2. migrating = NotMigrating
  BY <1>1 DEF Coherent, PendingRight
<1>3. PICK C : /\ C \cap (sq.covered \cup sq.live) = {}
               /\ pending_migrations' = pending_migrations \cup (C \cap Setscene)
               /\ migrating' = [todo |-> pending_migrations', update |-> {},
                                harddepfail |-> {}, changed |-> C # {}]
  <2>1. PICK total, new, reported :
          LET C == Retaken(total, new, reported)
          IN  /\ pending_migrations' = pending_migrations \cup (C \cap Setscene)
              /\ migrating' = [todo |-> pending_migrations', update |-> {},
                               harddepfail |-> {}, changed |-> C # {}]
    BY DEF Rehash
  <2> QED
    BY <2>1 DEF Retaken
<1>4. QueueRight' /\ PendingRight'
  BY <1>1, <1>2, <1>3
     DEF Coherent, QueueRight, QueueSound, OnBooks, HardSettled, HardFirst, Unsure, Settled,
         NotNeededRight, PendingRight, NotMigrating
<1>5. StartedRight' /\ HoldoffFresh'
  BY <1>1, <1>2, StartedFrame, HoldoffFrame DEF Coherent, NotMigrating
<1>6. EarlyRight' /\ ProcsRight'
  BY <1>1 DEF Coherent, EarlyRight, ProcsRight, OneProcessPerTask, InProgress
<1> QED
  BY <1>4, <1>5, <1>6 DEF Coherent

LEMMA MigrateNotCoherent ==
  ASSUME TypeOK, Coherent, NEW t \in Setscene, MigrateNot(t)
  PROVE  Coherent'
<1>1. /\ pc = "migrate" /\ rqstate # "SceneInit"
      /\ UNCHANGED <<rqstate, pc, procs, sqvars, holdvars, runqvars>>
  BY DEF MigrateNot, Coherent, EarlyRight
<1>2. /\ migrating'.todo = migrating.todo \ {t} /\ migrating'.update = migrating.update
      /\ migrating'.harddepfail = migrating.harddepfail
      /\ migrating'.changed = migrating.changed
  BY DEF MigrateNot, TypeOK
<1>3. \/ pending_migrations' = pending_migrations \ {t}
      \/ pending_migrations' = pending_migrations /\ t \in sq.notcovered
  <2>1. CASE t \in runq_running \cup sq.live
    BY <2>1 DEF MigrateNot, Handled
  <2>2. CASE t \notin runq_running \cup sq.live
    <3>1. PICK d \in SqCoveredTasks[t] : InProgress(d)
      BY <2>2 DEF MigrateNot
    <3>2. t \in Settled(sq)
      BY <3>1 DEF Coherent, StartedRight
    <3>3. t \notin sq.covered
      BY DEF MigrateNot, Coherent, PendingRight
    <3> QED
      BY <2>2, <3>2, <3>3 DEF MigrateNot, Settled
  <2> QED
    BY <2>1, <2>2
<1>4. QueueRight' /\ PendingRight'
  BY <1>1, <1>2, <1>3
     DEF Coherent, QueueRight, QueueSound, OnBooks, HardSettled, HardFirst, Unsure, Settled,
         NotNeededRight, PendingRight
<1>5. StartedRight' /\ HoldoffFresh'
  BY <1>1, <1>2, StartedFrame, HoldoffFrame DEF Coherent
<1>6. EarlyRight' /\ ProcsRight'
  BY <1>1 DEF Coherent, EarlyRight, ProcsRight, OneProcessPerTask, InProgress
<1> QED
  BY <1>4, <1>5, <1>6 DEF Coherent

(* What goes back to the queue was not covered, so nothing was skipped for   *)
(* it, and the build is never abandoned.                                    *)
LEMMA NothingSkipped ==
  ASSUME Coherent, NEW t \in Setscene, MayMigrate(t)
  PROVE  t \notin sq.covered /\ SkippedBelow(t) = {}
BY DEF Coherent, PendingRight, StartedRight, MayMigrate, SkippedBelow

LEMMA MigrateCoherent ==
  ASSUME TypeOK, Coherent, NEW t \in Setscene, Migrate(t)
  PROVE  Coherent'
<1>1. MayMigrate(t) /\ t \notin sq.covered /\ Reopen(t)
  BY NothingSkipped DEF Migrate
<1>2. /\ pc = "migrate" /\ rqstate # "SceneInit" /\ UNCHANGED <<rqstate, pc, procs>>
      /\ UNCHANGED <<sqactive, holdvars, runq_running, runq_complete, runq_tasksrun>>
      /\ t \in migrating.todo /\ t \notin runq_running \cup sq.live
      /\ pending_migrations' = pending_migrations \ {t}
  BY <1>1 DEF Migrate, MayMigrate, Reopen, Handled, Coherent, EarlyRight
<1> DEFINE hard  == \E d \in sq.notcovered : t \in HardDeps[d]
           ready == \/ SqRevdeps[t] = {}
                    \/ ~hard /\ SqRevdeps[t] \subseteq Settled(sq)
<1>3. /\ sq'.covered = sq.covered /\ sq'.notcovered = sq.notcovered \ {t}
      /\ sq'.notneeded = sq.notneeded \ {t} /\ sq'.live = sq.live
      /\ sq'.running = sq.running \ {t}
      /\ sq'.buildable = (sq.buildable \ {t}) \cup (IF ready THEN {t} ELSE {})
  BY <1>1 DEF Reopen, Unsettled, TypeOK, SceneQueueType
<1>4. migrating' = [todo        |-> migrating.todo \ {t},
                    update      |-> migrating.update \cup {t},
                    harddepfail |-> migrating.harddepfail \cup (IF hard THEN {t} ELSE {}),
                    changed     |-> TRUE]
  BY <1>1 DEF Reopen
<1>5. ASSUME ready, ~hard, NEW f \in Setscene, t \in HardDeps[f] PROVE f \in sq.covered
  <2>1. f \in SqRevdeps[t]
    BY <1>5 DEF SqRevdeps
  <2> QED
    BY <1>5, <2>1 DEF Settled
<1>6. QueueSound(sq', migrating'.harddepfail)
  <2> DEFINE Y == migrating'.harddepfail
  <2>1. Y = migrating.harddepfail \cup (IF hard THEN {t} ELSE {})
    BY <1>4
  <2>2. QueueSound(sq, migrating.harddepfail)
    BY DEF Coherent, QueueRight
  <2>3. OnBooks(sq')
    BY <1>1, <1>2, <1>3, <2>2 DEF QueueSound, OnBooks, Settled
  <2>4. HardSettled(sq', Y)
    <3>1. ASSUME NEW f \in sq'.notcovered, NEW s \in HardDeps[f]
          PROVE  s \in Settled(sq') \cup Y
      <4>1. f \in sq.notcovered
        BY <1>3, <3>1
      <4>2. s \in Settled(sq) \cup migrating.harddepfail
        BY <2>2, <3>1, <4>1 DEF QueueSound, HardSettled
      <4>3. s = t => hard
        BY <3>1, <4>1
      <4> QED
        BY <1>3, <2>1, <4>2, <4>3 DEF Settled
    <3> QED
      BY <3>1 DEF HardSettled
  <2>5. HardFirst(sq', Y)
    <3>1. ASSUME NEW s \in Unsure(sq') \ Y, NEW f \in Setscene, s \in HardDeps[f]
          PROVE  f \in sq'.covered
      <4>1. CASE s = t
        <5>1. ready
          BY <1>2, <1>3, <3>1, <4>1 DEF Unsure
        <5>2. ~hard
          BY <2>1, <3>1, <4>1
        <5> QED
          BY <1>3, <1>5, <3>1, <4>1, <5>1, <5>2
      <4>2. CASE s # t
        <5>1. s \in Unsure(sq) \ migrating.harddepfail
          BY <1>3, <2>1, <3>1, <4>2 DEF Unsure
        <5> QED
          BY <1>3, <2>2, <3>1, <5>1 DEF QueueSound, HardFirst
      <4> QED
        BY <4>1, <4>2
    <3> QED
      BY <3>1 DEF HardFirst
  <2> QED
    BY <2>3, <2>4, <2>5 DEF QueueSound
<1>7. NotNeededRight'
  BY <1>3 DEF Coherent, QueueRight, NotNeededRight
<1>8. PendingRight'
  BY <1>1, <1>2, <1>3, <1>4 DEF Coherent, PendingRight
<1>9. StartedRight'
  <2>1. \A d \in SqCoveredTasks[t] : ~InProgress(d)
    BY <1>1 DEF MayMigrate
  <2> QED
    BY <1>2, <1>3, <2>1 DEF Coherent, StartedRight, InProgress, Settled
<1>10. HoldoffFresh'
  BY <1>4 DEF HoldoffFresh
<1>11. EarlyRight' /\ ProcsRight'
  BY <1>2, <1>3 DEF Coherent, EarlyRight, ProcsRight, OneProcessPerTask, InProgress
<1> QED
  BY <1>6, <1>7, <1>8, <1>9, <1>10, <1>11 DEF Coherent, QueueRight

LEMMA MigrateDoneSettles ==
  ASSUME TypeOK, QueueRight, PendingRight, MigrateDone
  PROVE  /\ QueueSound(sq', {}) /\ Grows(sq, sq')
         /\ sq'.covered \subseteq sq.covered \cup migrating.update
         /\ migrating.update = {} => sq' = sq
<1> DEFINE U == migrating.update
           X == migrating.harddepfail
<1>1. /\ sq \in SceneQueueType /\ U \in SUBSET Setscene /\ X \in SUBSET Setscene
      /\ X \subseteq U /\ U \cap (sq.covered \cup sq.live) = {} /\ QueueSound(sq, X)
  BY DEF TypeOK, QueueRight, PendingRight
<1>2. CASE U = {}
  <2>1. X = {} /\ sq' = sq
    BY <1>1, <1>2 DEF MigrateDone
  <2> QED
    BY <1>1, <2>1 DEF Grows, Keeps
<1>3. CASE U # {}
  <2>1. PICK q \in UpdatedScenes(sq, U) : sq' = IF X = {} THEN q ELSE SqFailOutrightAll(q, X)
    BY <1>3 DEF MigrateDone
  <2>2. /\ Grows(sq, q) /\ q.covered \subseteq sq.covered \cup U
        /\ \A Y \in SUBSET Setscene : QueueSound(sq, Y) /\ U \cap sq.live = {} => QueueSound(q, Y)
    BY <1>1, <2>1, UpdatedScenesSound
  <2>3. QueueSound(q, X) /\ q.live = sq.live /\ q \in SceneQueueType
    BY <1>1, <2>2 DEF Grows, Keeps
  <2>4. CASE X = {}
    BY <1>3, <2>1, <2>2, <2>3, <2>4
  <2>5. CASE X # {}
    <3>1. X \cap (sq.live \cup sq.covered) = {} /\ X \cap sq.live = {}
      BY <1>1
    <3>2. Failable(sq, X)
      BY <1>1, <3>1, NotStartedFailable
    <3>3. Failable(q, X) /\ X \cap q.live = {}
      BY <2>3, <3>1, <3>2 DEF Failable
    <3> DEFINE r == SqFailOutrightAll(q, X)
    <3>4. /\ Grows(q, r) /\ r.covered = q.covered
          /\ \A Y \in SUBSET Setscene :
               QueueSound(q, Y) /\ Failable(q, X) /\ Y \cap q.live = {} => QueueSound(r, Y \ X)
      BY <1>1, <2>3, SqFailOutrightAllSound
    <3>5. sq' = r
      BY <2>1, <2>5
    <3> HIDE DEF r
    <3>6. QueueSound(r, X \ X) /\ X \ X = {}
      BY <1>1, <2>3, <3>3, <3>4
    <3>7. Grows(sq, r)
      BY <2>2, <3>4, GrowsTransitive
    <3> QED
      BY <1>3, <2>2, <3>4, <3>5, <3>6, <3>7
  <2> QED
    BY <2>4, <2>5
<1> QED
  BY <1>2, <1>3

LEMMA MigrateDoneCoherent == TypeOK /\ Coherent /\ MigrateDone => Coherent'
<1> SUFFICES ASSUME TypeOK, Coherent, MigrateDone PROVE Coherent'
  OBVIOUS
<1>1. /\ QueueSound(sq', {}) /\ Grows(sq, sq')
      /\ sq'.covered \subseteq sq.covered \cup migrating.update
      /\ migrating.update = {} => sq' = sq
  BY MigrateDoneSettles DEF Coherent
<1>2. /\ pc = "migrate" /\ pc' = "scene" /\ rqstate # "SceneInit" /\ migrating.todo = {}
      /\ migrating' = NotMigrating
      /\ holdoff_need_update' = (holdoff_need_update \/ migrating.changed)
      /\ UNCHANGED <<rqstate, procs, sqactive, holdoff_tasks, tasks_covered, tasks_notcovered,
                     runqvars, pending_migrations>>
  BY DEF MigrateDone, HoldoffStale, Coherent, EarlyRight
<1>3. QueueRight'
  BY <1>1, <1>2 DEF Coherent, QueueRight, NotNeededRight, NotMigrating, Grows
<1>4. PendingRight'
  BY <1>1, <1>2 DEF Coherent, PendingRight, NotMigrating, Grows, Keeps
<1>5. StartedRight'
  BY <1>1, <1>2, StartedFrame DEF Coherent, Grows
<1>6. HoldoffFresh'
  <2>1. CASE holdoff_need_update'
    BY <2>1 DEF HoldoffFresh
  <2>2. CASE ~holdoff_need_update'
    <3>1. ~holdoff_need_update /\ ~migrating.changed /\ sq' = sq
      BY <1>1, <1>2, <2>2 DEF Coherent, PendingRight, TypeOK
    <3> QED
      BY <1>2, <2>2, <3>1 DEF Coherent, HoldoffFresh, NewHoldoff, CoveredBy, Settled
  <2> QED
    BY <2>1, <2>2
<1>7. EarlyRight' /\ ProcsRight'
  BY <1>1, <1>2 DEF Coherent, EarlyRight, ProcsRight, OneProcessPerTask, InProgress, Grows, Keeps
<1> QED
  BY <1>3, <1>4, <1>5, <1>6, <1>7 DEF Coherent

-----------------------------------------------------------------------------
(* The scene queue settles tasks without a process, or starts one.           *)

(* A step that settles tasks of the queue, none of which was about to go     *)
(* back to it.                                                              *)
LEMMA SettlingStep ==
  ASSUME TypeOK, Coherent, pc \notin {"idle", "migrate", "end"}, pc' = "return",
         QueueSound(sq', {}), NotNeededRight', Keeps(sq, sq'),
         sq.covered \subseteq sq'.covered, sq.notcovered \subseteq sq'.notcovered,
         pending_migrations \cap sq'.covered = {}, holdoff_need_update' = TRUE,
         UNCHANGED <<rqstate, procs, sqactive, holdoff_tasks, tasks_covered,
                     tasks_notcovered, runqvars, hashvars>>
  PROVE  Coherent'
<1>1. migrating = NotMigrating /\ migrating' = NotMigrating /\ rqstate # "SceneInit"
  BY DEF Coherent, PendingRight, EarlyRight
<1>2. QueueRight' /\ PendingRight'
  BY <1>1 DEF Coherent, QueueRight, PendingRight, NotMigrating, Keeps
<1>3. StartedRight'
  BY StartedFrame
     DEF Coherent
<1>4. HoldoffFresh' /\ EarlyRight'
  BY <1>1 DEF HoldoffFresh, EarlyRight
<1>5. ProcsRight'
  BY DEF Coherent, ProcsRight, OneProcessPerTask, InProgress, Keeps
<1> QED
  BY <1>2, <1>3, <1>4, <1>5 DEF Coherent

(* The task the scene stage takes up has not been started.                   *)
LEMMA SceneNextFresh ==
  ASSUME TypeOK, Coherent, NEW t \in Setscene, SceneNext(t)
  PROVE  /\ pc = "scene" /\ migrating.harddepfail = {} /\ QueueSound(sq, {})
         /\ t \in sq.buildable /\ t \notin sq.running
         /\ t \notin Settled(sq) \cup sq.live /\ t \notin pending_migrations
<1>1. t \in SceneCandidates
  <2>1. SceneCandidates # {} /\ SceneCandidates \subseteq Setscene
    BY DEF SceneNext, SceneCandidates
  <2> QED
    BY <2>1, FirstIsMember DEF SceneNext
<1>2. pc = "scene" /\ migrating = NotMigrating
  BY DEF SceneNext, Coherent, PendingRight
<1>3. migrating.harddepfail = {} /\ migrating.todo = {} /\ QueueSound(sq, {})
  BY <1>2 DEF NotMigrating, Coherent, QueueRight
<1>4. t \in sq.buildable /\ t \notin sq.running
  BY <1>1 DEF SceneCandidates, SceneBuildable
<1>5. t \notin Settled(sq) \cup sq.live
  BY <1>3, <1>4 DEF QueueSound, OnBooks
<1>6. t \notin pending_migrations
  BY <1>3, <1>5 DEF Coherent, PendingRight, Settled
<1> QED
  BY <1>2, <1>3, <1>4, <1>5, <1>6

(* It is settled on a queue that only differs in what is deferred.           *)
LEMMA TakenUpSettles ==
  ASSUME TypeOK, Coherent, NEW t \in Setscene, SceneNext(t),
         NEW q, SameDecisions(sq, q)
  PROVE  /\ LET r == SqSkipAll(q, {t})
            IN  Grows(sq, r) /\ QueueSound(r, {}) /\ r.covered = sq.covered \cup {t}
         /\ LET r == SqFailOutrightAll(q, {t})
            IN  Grows(sq, r) /\ QueueSound(r, {}) /\ r.covered = sq.covered
<1>1. /\ QueueSound(sq, {}) /\ {t} \cap (sq.live \cup sq.covered) = {} /\ {t} \in SUBSET Setscene
      /\ sq \in SceneQueueType
  BY SceneNextFresh DEF Settled, TypeOK
<1>2. /\ Grows(sq, q) /\ QueueSound(q, {}) /\ {t} \cap q.live = {} /\ q \in SceneQueueType
      /\ q.covered = sq.covered /\ q.live = sq.live
  BY <1>1, SameDecisionsSound DEF SameDecisions
<1>3. Failable(q, {t})
  BY <1>1, <1>2, NotStartedFailable
<1> DEFINE r == SqSkipAll(q, {t})
           u == SqFailOutrightAll(q, {t})
<1>4. /\ Grows(q, r) /\ r.covered = q.covered \cup {t}
      /\ \A X \in SUBSET Setscene : QueueSound(q, X) /\ {t} \cap q.live = {} => QueueSound(r, X)
  BY <1>1, <1>2, SqSkipAllSound
<1>5. /\ Grows(q, u) /\ u.covered = q.covered
      /\ \A X \in SUBSET Setscene :
           QueueSound(q, X) /\ Failable(q, {t}) /\ X \cap q.live = {} => QueueSound(u, X \ {t})
  BY <1>1, <1>2, SqFailOutrightAllSound
<1> HIDE DEF r, u
<1>6. QueueSound(r, {}) /\ Grows(sq, r) /\ r.covered = sq.covered \cup {t}
  BY <1>2, <1>4, GrowsTransitive
<1>7. QueueSound(u, {}) /\ Grows(sq, u) /\ u.covered = sq.covered
  <2>1. QueueSound(u, {} \ {t}) /\ {} \ {t} = {}
    BY <1>2, <1>3, <1>5
  <2> QED
    BY <1>2, <1>5, <2>1, GrowsTransitive
<1> QED
  BY <1>6, <1>7 DEF r, u

LEMMA GrowsNotNeeded ==
  ASSUME QueueRight, Grows(sq, sq')
  PROVE  NotNeededRight'
BY DEF QueueRight, NotNeededRight, Grows

LEMMA SceneSettlesCoherent ==
  ASSUME TypeOK, Coherent, NEW t \in Setscene,
         \/ SceneNotNeeded(t) \/ SceneStaysInvalid(t) \/ SceneOutrightFail(t)
         \/ SceneRunInstead(t) \/ SceneSkip(t)
  PROVE  Coherent'
<1>1. SceneNext(t)
  BY DEF SceneNotNeeded, SceneStaysInvalid, SceneOutrightFail, SceneRunInstead, SceneSkip,
         SceneChosen
<1>2. pc = "scene" /\ t \notin pending_migrations /\ pending_migrations \cap sq.covered = {}
  BY <1>1, SceneNextFresh DEF Coherent, PendingRight
<1>3. SameDecisions(sq, sq) /\ SameDecisions(sq, Undeferred(t)) /\ SameDecisions(sq, Retried(t))
  BY UndeferredSame DEF SameDecisions, TypeOK
<1>4. \E q : SceneSettles(q)
  BY SceneSettlesKeeps
<1>5. CASE SceneNotNeeded(t)
  <2> DEFINE r == SqSkipAll(Undeferred(t), {t})
  <2>1. sq' = [r EXCEPT !.notneeded = @ \cup {t}]
    BY <1>5 DEF SceneNotNeeded, SceneSettles
  <2>2. Grows(sq, r) /\ QueueSound(r, {}) /\ r.covered = sq.covered \cup {t}
    BY <1>1, <1>3, TakenUpSettles
  <2> HIDE DEF r
  <2>3. /\ sq'.covered = r.covered /\ sq'.notcovered = r.notcovered /\ sq'.live = r.live
        /\ sq'.running = r.running /\ sq'.buildable = r.buildable
        /\ sq'.notneeded = r.notneeded \cup {t} /\ sq' \in SceneQueueType
    BY <2>1, <2>2 DEF Grows, Keeps, SceneQueueType
  <2>4. QueueSound(sq', {})
    BY <2>2, <2>3 DEF QueueSound, OnBooks, HardSettled, HardFirst, Unsure, Settled
  <2>5. NotNeededRight'
    <3>1. NotNeeded(t)
      BY <1>5 DEF SceneNotNeeded
    <3> QED
      BY <2>2, <2>3, <3>1 DEF NotNeeded, Coherent, QueueRight, NotNeededRight, Grows
  <2>6. Keeps(sq, sq')
    BY <2>2, <2>3 DEF Grows, Keeps
  <2> QED
    BY <1>2, <1>4, <2>2, <2>3, <2>4, <2>5, <2>6, SettlingStep DEF SceneSettles, Grows
<1>6. ASSUME NEW q, SameDecisions(sq, q),
             sq' = SqSkipAll(q, {t}) \/ sq' = SqFailOutrightAll(q, {t})
      PROVE  Coherent'
  <2> DEFINE r == SqSkipAll(q, {t})
             u == SqFailOutrightAll(q, {t})
  <2>1. /\ Grows(sq, r) /\ QueueSound(r, {}) /\ r.covered = sq.covered \cup {t}
        /\ Grows(sq, u) /\ QueueSound(u, {}) /\ u.covered = sq.covered
    BY <1>1, <1>6, TakenUpSettles
  <2>2. sq' = r \/ sq' = u
    BY <1>6
  <2> HIDE DEF r, u
  <2>3. Grows(sq, sq') /\ QueueSound(sq', {}) /\ sq'.covered \subseteq sq.covered \cup {t}
    BY <2>1, <2>2
  <2>4. NotNeededRight'
    BY <2>3, GrowsNotNeeded DEF Coherent
  <2> QED
    BY <1>2, <1>4, <2>3, <2>4, SettlingStep DEF SceneSettles, Grows
<1>7. CASE SceneStaysInvalid(t) \/ SceneOutrightFail(t) \/ SceneRunInstead(t) \/ SceneSkip(t)
  BY <1>3, <1>6, <1>7
     DEF SceneStaysInvalid, SceneOutrightFail, SceneRunInstead, SceneSkip, SceneSettles
<1> QED
  BY <1>5, <1>7

LEMMA SceneStartCoherent ==
  ASSUME TypeOK, Coherent, NEW t \in Setscene, SceneStart(t)
  PROVE  Coherent'
<1>1. SceneNext(t)
  BY DEF SceneStart, MustRestore, SceneChosen
<1>2. /\ pc = "scene" /\ QueueSound(sq, {}) /\ migrating.harddepfail = {}
      /\ t \in sq.buildable /\ t \notin sq.running
      /\ t \notin Settled(sq) \cup sq.live /\ t \notin pending_migrations
  BY <1>1, SceneNextFresh
<1>3. /\ sq'.live = sq.live \cup {t} /\ sq'.running = sq.running \cup {t}
      /\ sq'.buildable = sq.buildable /\ sq'.covered = sq.covered
      /\ sq'.notcovered = sq.notcovered /\ sq'.notneeded = sq.notneeded
  <2> DEFINE q == Retried(t)
  <2>1. SameDecisions(sq, q)
    BY UndeferredSame
  <2>2. sq' = [q EXCEPT !.running = @ \cup {t}, !.live = @ \cup {t}]
    BY DEF SceneStart
  <2> HIDE DEF q
  <2> QED
    BY <2>1, <2>2 DEF SameDecisions, SceneQueueType
<1> DEFINE new == Process(t, "setscene", "run", unihash[t])
<1>4. /\ new.task = t /\ new.kind = "setscene" /\ procs' = procs \cup {new}
      /\ sqactive' = sqactive + 1 /\ pc' \in {"return", "holdoff"} /\ rqstate # "SceneInit"
      /\ UNCHANGED <<rqstate, holdvars, runqvars, hashvars>>
  BY <1>2 DEF SceneStart, Process, Coherent, EarlyRight
<1> HIDE DEF new
<1>5. QueueRight'
  BY <1>2, <1>3, <1>4
     DEF Coherent, QueueRight, NotNeededRight, QueueSound, OnBooks, HardSettled, HardFirst,
         Settled, Unsure
<1>6. PendingRight'
  <2>1. migrating = NotMigrating
    BY <1>2 DEF Coherent, PendingRight
  <2> QED
    BY <1>2, <1>3, <1>4, <2>1 DEF Coherent, PendingRight, NotMigrating
<1>7. StartedRight'
  BY <1>3, <1>4, StartedFrame DEF Coherent
<1>8. HoldoffFresh' /\ EarlyRight'
  BY <1>3, <1>4 DEF Coherent, HoldoffFresh, EarlyRight, NewHoldoff, CoveredBy, Settled
<1>9. ProcsRight'
  <2>1. t \notin runq_running
    BY <1>2 DEF Coherent, StartedRight
  <2>2. \A p \in procs : p.task # t
    BY <1>2, <2>1 DEF Coherent, ProcsRight, InProgress
  <2>3. Cardinality(sq.live \cup {t}) = Cardinality(sq.live) + 1
    <3>1. IsFiniteSet(sq.live)
      BY SetsceneFinite, FS_Subset DEF TypeOK, SceneQueueType
    <3> QED
      BY <1>2, <3>1, FS_AddElement
  <2> QED
    BY <1>3, <1>4, <2>2, <2>3 DEF Coherent, ProcsRight, OneProcessPerTask, InProgress
<1> QED
  BY <1>5, <1>6, <1>7, <1>8, <1>9 DEF Coherent

(* When nothing is active, nothing is live: what is forced to fail may.       *)
LEMMA TailForceCoherent == TypeOK /\ Coherent /\ TailForce => Coherent'
<1> SUFFICES ASSUME TypeOK, Coherent, TailForce PROVE Coherent'
  OBVIOUS
<1> DEFINE t == First(DOMAIN sq.deferred)
           q == Undeferred(t)
           f == sq.deferred[t]
           r == SqFailOutrightAll(q, {f})
<1>1. t \in Setscene /\ f \in Setscene
  <2>1. DOMAIN sq.deferred \subseteq Setscene
    BY DEF TypeOK, SceneQueueType
  <2>2. t \in DOMAIN sq.deferred
    BY <2>1, FirstIsMember DEF TailForce
  <2> QED
    BY <2>1, <2>2 DEF TypeOK, SceneQueueType
<1>2. sq' = r
  BY DEF TailForce
<1>3. SameDecisions(sq, q)
  BY <1>1, UndeferredSame
<1> HIDE DEF t, q, f
<1>4. sq.live = {}
  <2>1. IsFiniteSet(sq.live)
    BY SetsceneFinite, FS_Subset DEF TypeOK, SceneQueueType
  <2>2. Cardinality(sq.live) \in Nat /\ Cardinality(sq.live) <= 0
    BY <2>1, FS_CardinalityType DEF TailForce, Idle, Coherent, ProcsRight
  <2> QED
    BY <2>1, <2>2, FS_EmptySet
<1>5. migrating = NotMigrating /\ pc = "tail"
  BY DEF TailForce, Idle, Coherent, PendingRight
<1>6. QueueSound(sq, {})
  BY <1>5 DEF Coherent, QueueRight, NotMigrating
<1>7. /\ Grows(sq, q) /\ QueueSound(q, {}) /\ q.live = {} /\ q \in SceneQueueType
      /\ q.covered = sq.covered
  BY <1>3, <1>4, <1>6, SameDecisionsSound DEF SameDecisions
<1>8. /\ Grows(q, r) /\ r.covered = q.covered
      /\ \A X \in SUBSET Setscene :
           QueueSound(q, X) /\ Failable(q, {f}) /\ X \cap q.live = {} => QueueSound(r, X \ {f})
  BY <1>1, <1>7, SqFailOutrightAllSound
<1> HIDE DEF r
<1>9. QueueSound(r, {})
  <2>1. Failable(q, {f})
    BY <1>7 DEF Failable
  <2>2. QueueSound(r, {} \ {f}) /\ {} \ {f} = {}
    BY <1>7, <1>8, <2>1
  <2> QED
    BY <2>2
<1>10. Grows(sq, sq') /\ QueueSound(sq', {}) /\ sq'.covered = sq.covered
  BY <1>2, <1>7, <1>8, <1>9, GrowsTransitive
<1>11. NotNeededRight'
  BY <1>10, GrowsNotNeeded DEF Coherent
<1>12. pending_migrations \cap sq'.covered = {}
  BY <1>10 DEF Coherent, PendingRight
<1> QED
  BY <1>5, <1>10, <1>11, <1>12, SettlingStep DEF TailForce, Grows

-----------------------------------------------------------------------------
(* The holdoff is recomputed, and tasks are started.                         *)

LEMMA UpdateHoldoffCoherent == TypeOK /\ Coherent /\ UpdateHoldoff => Coherent'
<1> SUFFICES ASSUME TypeOK, Coherent, UpdateHoldoff PROVE Coherent'
  OBVIOUS
<1>1. /\ pc = "holdoff" /\ pc' \in {"return", "normal"} /\ rqstate # "SceneInit"
      /\ holdoff_need_update' = FALSE /\ rqstate' # "SceneInit"
      /\ UNCHANGED <<procs, sq, sqactive, runq_running, runq_complete, runq_tasksrun, hashvars>>
  BY DEF UpdateHoldoff, Coherent, EarlyRight
<1>2. QueueRight' /\ PendingRight'
  BY <1>1, QueueFrame DEF Coherent
<1>3. StartedRight'
  BY <1>1, StartedFrame DEF Coherent
<1>4. HoldoffFresh'
  <2>1. CASE holdoff_need_update
    <3>1. /\ tasks_notcovered' = NewNotCovered /\ tasks_covered' = NewCovered
          /\ holdoff_tasks' = NewHoldoff
      BY <2>1 DEF UpdateHoldoff
    <3>2. NewHoldoff' = NewHoldoff
      BY <1>1 DEF NewHoldoff, CoveredBy, Settled
    <3>3. CantSkip \subseteq Unskippable \ Setscene
      BY UnskippableClosure DEF CantSkip
    <3> QED
      BY <1>1, <3>1, <3>2, <3>3 DEF HoldoffFresh, NewNotCovered, NewCovered, CoveredBy
  <2>2. CASE ~holdoff_need_update
    <3>1. UNCHANGED <<holdoff_tasks, tasks_covered, tasks_notcovered, holdoff_need_update>>
      BY <2>2 DEF UpdateHoldoff, TypeOK
    <3> QED
      BY <1>1, <3>1, HoldoffFrame DEF Coherent
  <2> QED
    BY <2>1, <2>2
<1>5. EarlyRight' /\ ProcsRight'
  BY <1>1 DEF Coherent, EarlyRight, ProcsRight, OneProcessPerTask, InProgress
<1> QED
  BY <1>2, <1>3, <1>4, <1>5 DEF Coherent

(* Whatever is chosen to be started is settled for all it might be covered   *)
(* by, and has no process.                                                  *)
LEMMA ScheduledSettled ==
  ASSUME TypeOK, Coherent, NEW t \in Tasks, Scheduled(t)
  PROVE  /\ pc = "normal" /\ rqstate # "SceneInit" /\ migrating = NotMigrating
         /\ t \notin runq_running /\ t \notin sq.live /\ \A p \in procs : p.task # t
         /\ \A s \in Setscene : t \in {s} \cup SqCoveredTasks[s] => s \in Settled(sq)
<1>1. pc = "normal" /\ t \notin runq_running /\ t \notin holdoff_tasks
  BY DEF Scheduled, Schedulable
<1>2. rqstate # "SceneInit" /\ migrating = NotMigrating /\ ~holdoff_need_update
  BY <1>1 DEF Coherent, EarlyRight, PendingRight
<1>3. t \notin NewHoldoff
  BY <1>1, <1>2 DEF Coherent, HoldoffFresh, NotMigrating
<1>4. t \notin runq_complete
  BY <1>1 DEF Coherent, StartedRight
<1>5. \A s \in Setscene : t \in {s} \cup SqCoveredTasks[s] => s \in Settled(sq)
  BY <1>3, <1>4 DEF NewHoldoff, CoveredBy
<1>6. t \notin sq.live
  <2>1. t \in sq.live => t \in Setscene /\ t \notin Settled(sq)
    BY DEF TypeOK, SceneQueueType, Coherent, QueueRight, QueueSound, OnBooks
  <2> QED
    BY <1>5, <2>1
<1>7. \A p \in procs : p.task # t
  BY <1>1, <1>6 DEF Coherent, ProcsRight, InProgress
<1> QED
  BY <1>1, <1>2, <1>5, <1>6, <1>7

LEMMA CompleteAtOnceCoherent ==
  ASSUME TypeOK, Coherent, NEW t \in Tasks, Scheduled(t), NEW ran,
         CompleteAtOnce(t, ran), ran \/ t \in tasks_covered
  PROVE  Coherent'
<1>1. /\ pc = "normal" /\ rqstate # "SceneInit" /\ migrating = NotMigrating
      /\ t \notin runq_running /\ \A p \in procs : p.task # t
      /\ \A s \in Setscene : t \in {s} \cup SqCoveredTasks[s] => s \in Settled(sq)
  BY ScheduledSettled
<1>2. /\ runq_running' = runq_running \cup {t} /\ runq_complete' = runq_complete \cup {t}
      /\ runq_tasksrun' = (IF ran THEN runq_tasksrun \cup {t} ELSE runq_tasksrun)
      /\ pc' = "return" /\ UNCHANGED <<rqstate, procs, sqvars, holdvars, hashvars>>
  BY DEF CompleteAtOnce
<1>3. QueueRight' /\ PendingRight'
  BY <1>1, <1>2, QueueFrame DEF Coherent
<1>4. StartedRight'
  <2>1. ASSUME ~ran, NEW s \in Setscene, t \in {s} \cup SqCoveredTasks[s]
        PROVE  s \in sq.covered
    <3>1. t \in tasks_covered /\ ~holdoff_need_update /\ ~migrating.changed
      BY <1>1, <2>1 DEF Coherent, EarlyRight, NotMigrating
    <3>2. s \notin sq.notcovered
      BY <2>1, <3>1 DEF Coherent, HoldoffFresh, CoveredBy
    <3> QED
      BY <1>1, <2>1, <3>2 DEF Settled
  <2> QED
    BY <1>1, <1>2, <2>1 DEF Coherent, StartedRight, InProgress
<1>5. HoldoffFresh'
  BY <1>1, <1>2, HoldoffFrame DEF Coherent
<1>6. EarlyRight' /\ ProcsRight'
  BY <1>1, <1>2 DEF Coherent, EarlyRight, ProcsRight, OneProcessPerTask, InProgress
<1> QED
  BY <1>3, <1>4, <1>5, <1>6 DEF Coherent

LEMMA TaskStartCoherent ==
  ASSUME TypeOK, Coherent, NEW t \in Tasks, TaskStart(t)
  PROVE  Coherent'
<1>1. Scheduled(t)
  BY DEF TaskStart, MustRun
<1>2. /\ pc = "normal" /\ rqstate # "SceneInit" /\ migrating = NotMigrating
      /\ t \notin runq_running /\ t \notin sq.live /\ \A p \in procs : p.task # t
      /\ \A s \in Setscene : t \in {s} \cup SqCoveredTasks[s] => s \in Settled(sq)
  BY <1>1, ScheduledSettled
<1> DEFINE new == Process(t, "task", "run", unihash[t])
<1>3. /\ new.task = t /\ new.kind = "task" /\ procs' = procs \cup {new}
      /\ runq_running' = runq_running \cup {t} /\ pc' \in {"return", "tail"}
      /\ UNCHANGED <<rqstate, sqvars, holdvars, hashvars, runq_complete, runq_tasksrun>>
  BY DEF TaskStart, Process
<1> HIDE DEF new
<1>4. QueueRight' /\ PendingRight'
  BY <1>2, <1>3, QueueFrame DEF Coherent
<1>5. t \notin runq_complete
  BY <1>2 DEF Coherent, StartedRight
<1>6. StartedRight'
  BY <1>2, <1>3, <1>5 DEF Coherent, StartedRight, InProgress
<1>7. HoldoffFresh'
  BY <1>2, <1>3, HoldoffFrame DEF Coherent
<1>8. EarlyRight'
  BY <1>2, <1>3 DEF EarlyRight
<1>9. ProcsRight'
  BY <1>2, <1>3, <1>5 DEF Coherent, ProcsRight, OneProcessPerTask, InProgress
<1> QED
  BY <1>4, <1>6, <1>7, <1>8, <1>9 DEF Coherent

LEMMA CoherentStep == TypeOK /\ Coherent /\ [Next]_vars => Coherent'
<1> SUFFICES ASSUME TypeOK, Coherent, [Next]_vars PROVE Coherent'
  OBVIOUS
<1>1. CASE Environment
  BY <1>1, TaskEndsCoherent, QuietSteps DEF Environment, TaskSucceeds, TaskFails
<1>2. CASE Read
  BY <1>2, ReadExitCoherent, QuietSteps DEF Read
<1>3. CASE Loop
  BY <1>3, SceneInitCoherent, QuietSteps DEF Loop
<1>4. CASE Migration
  BY <1>4, RehashCoherent, MigrateNotCoherent, MigrateCoherent, MigrateDoneCoherent, QuietSteps
     DEF Migration
<1>5. CASE Scene
  BY <1>5, SceneSettlesCoherent, SceneStartCoherent, QuietSteps DEF Scene
<1>6. CASE Normal
  <2>1. ASSUME NEW t \in Tasks, TaskCovered(t) \/ TaskExisting(t) \/ TaskNoexec(t)
        PROVE  Coherent'
    BY <2>1, CompleteAtOnceCoherent DEF TaskCovered, TaskExisting, TaskNoexec, MustRun
  <2> QED
    BY <1>6, <2>1, TaskStartCoherent, QuietSteps DEF Normal
<1>7. CASE TailEnd
  BY <1>7, TailForceCoherent, QuietSteps DEF TailEnd
<1> QED
  BY <1>1, <1>2, <1>3, <1>4, <1>5, <1>6, <1>7, UpdateHoldoffCoherent, QuietSteps
     DEF Next

LEMMA CoherentInit == Init => Coherent
<1> SUFFICES ASSUME Init PROVE Coherent
  OBVIOUS
<1> DEFINE names == [s \in Setscene |-> StampName(s, "setscene", InitHash[s])]
<1>1. /\ sq = NewSceneQueue(names) /\ migrating = NotMigrating /\ pending_migrations = {}
      /\ runq_running = {} /\ runq_complete = {} /\ procs = {} /\ sqactive = 0
      /\ holdoff_need_update = TRUE /\ pc = "idle"
  BY DEF Init
<1> HIDE DEF names
<1>2. \A f, s \in Setscene : s \in HardDeps[f] => f \in SqRevdeps[s]
  BY DEF SqRevdeps
<1>3. QueueRight
  BY <1>1, <1>2
     DEF NewSceneQueue, QueueRight, QueueSound, OnBooks, HardSettled, HardFirst, Settled, Unsure,
         NotNeededRight, NotMigrating
<1>4. PendingRight
  BY <1>1 DEF PendingRight, NotMigrating
<1>5. StartedRight /\ HoldoffFresh /\ EarlyRight
  BY <1>1 DEF StartedRight, HoldoffFresh, EarlyRight, InProgress
<1>6. ProcsRight
  BY <1>1, FS_EmptySet DEF ProcsRight, OneProcessPerTask, NewSceneQueue
<1> QED
  BY <1>3, <1>4, <1>5, <1>6 DEF Coherent

LEMMA CoherentAlways == Spec => []Coherent
BY CoherentInit, CoherentStep, TypeCorrect, PTL DEF Spec

-----------------------------------------------------------------------------
(* A setscene task only goes back to the queue when nothing it covers is     *)
(* being built, and nothing was passed over for it that is needed now: the   *)
(* branch of process_possible_migrations that abandons the build is dead.    *)
THEOREM MigrationsSafeAlways == Spec => []MigrationsSafe
<1>1. TypeOK /\ Coherent => MigrationsSafe
  <2> SUFFICES ASSUME TypeOK, Coherent PROVE MigrationsSafe
    OBVIOUS
  <2>1. ASSUME NEW p \in procs, NEW q \in procs, p.kind = "setscene", q.kind = "task"
        PROVE  q.task \notin SqCoveredTasks[p.task]
    <3>1. p.task \in sq.live /\ InProgress(q.task)
      BY <2>1 DEF Coherent, ProcsRight
    <3>2. p.task \in Setscene /\ p.task \notin Settled(sq)
      BY <3>1 DEF TypeOK, SceneQueueType, Coherent, QueueRight, QueueSound, OnBooks
    <3> QED
      BY <3>1, <3>2 DEF Coherent, StartedRight
  <2>2. SkippedStaysSkipped
    BY NothingSkipped DEF SkippedStaysSkipped
  <2> QED
    BY <2>1, <2>2 DEF MigrationsSafe, NoRestoreWhileCoveredRuns
<1> QED
  BY <1>1, CoherentAlways, TypeCorrect, PTL

(* A task and its setscene variant never run at once, nor does either twice, *)
(* although the task is started on one book (runq_running), its setscene     *)
(* variant on another (sq_running), and a migration takes tasks off that.    *)
THEOREM OneProcessPerTaskAlways == Spec => []OneProcessPerTask
<1>1. Coherent => OneProcessPerTask
  BY DEF Coherent, ProcsRight
<1> QED
  BY <1>1, CoherentAlways, PTL

(* No task is started before every setscene task that may make it            *)
(* superfluous is settled: holdoff_tasks, which is only recomputed when      *)
(* holdoff_need_update says so, is never stale when a task is chosen.        *)
THEOREM HoldoffRespectedAlways == Spec => HoldoffRespected
<1> DEFINE Respected ==
      \A t \in runq_running' \ runq_running : \A s \in Setscene :
        t \in {s} \cup SqCoveredTasks[s] => s \in Settled(sq)
<1>1. TypeOK /\ Coherent /\ [Next]_vars => [Respected]_vars
  <2> SUFFICES ASSUME TypeOK, Coherent, [Next]_vars PROVE Respected
    OBVIOUS
  <2>1. CASE runq_running' = runq_running
    BY <2>1
  <2>2. ASSUME NEW t \in Tasks, TaskCovered(t) \/ TaskExisting(t) \/ TaskNoexec(t) \/ TaskStart(t)
        PROVE  Respected
    <3>1. Scheduled(t) /\ runq_running' = runq_running \cup {t}
      BY <2>2 DEF TaskCovered, TaskExisting, TaskNoexec, TaskStart, MustRun, CompleteAtOnce
    <3> QED
      BY <3>1, ScheduledSettled
  <2>3. CASE SceneInit
    BY <2>1, <2>3 DEF SceneInit
  <2>4. CASE Environment
    BY <2>1, <2>4 DEF Environment, TaskSucceeds, TaskFails, TaskEnds, WorkerDies, UserInterrupts
  <2>5. CASE Read
    BY <2>1, <2>5 DEF Read, ReadUniHash, ReadExit, SetsceneExit, TaskExit, ReadDone
  <2>6. CASE BeginPass \/ Finish \/ Return \/ Check \/ TearDown
    BY <2>1, <2>6 DEF BeginPass, Finish, Return, Check, TearDown
  <2>7. CASE Migration
    BY <2>1, <2>7 DEF Migration, Rehash, NothingToRehash, MigrateDone, MigrateNot, Migrate
  <2>8. CASE Scene
    BY <2>1, <2>8 DEF Scene, SceneNone, SceneSettles, SceneNotNeeded, SceneStaysInvalid,
                      SceneOutrightFail, SceneRunInstead, SceneSkip, SceneStart
  <2>9. CASE UpdateHoldoff
    BY <2>1, <2>9 DEF UpdateHoldoff
  <2>10. CASE NormalNone \/ WriteCrash \/ \E t \in Tasks : TaskWhitelistFail(t)
    BY <2>1, <2>10 DEF NormalNone, WriteCrash, Crash, TaskWhitelistFail
  <2>11. CASE TailEnd
    BY <2>1, <2>11 DEF TailEnd, TailWait, TailForce, TailDone
  <2>12. CASE Stopped \/ UNCHANGED vars
    BY <2>1, <2>12 DEF Stopped
  <2> QED
    BY <2>2, <2>3, <2>4, <2>5, <2>6, <2>7, <2>8, <2>9, <2>10, <2>11, <2>12
       DEF Next, Loop, Normal
<1> QED
  BY <1>1, CoherentAlways, TypeCorrect, PTL DEF Spec, HoldoffRespected

(* No task that others explicitly depend on, and that itself explicitly      *)
(* depends on one, may be found not to be needed (setscene_depvalid).        *)
NoChainSpared == \A d \in DepValid \cap Setscene : HardDeps[d] = {} \/ SqRevdeps[d] = {}

(* A setscene task is only restored on top of those it explicitly depends    *)
(* on: these are covered, and stay so, whatever fails, goes back to the      *)
(* queue or is forced meanwhile; and they have really been restored, unless  *)
(* they are spared by setscene_depvalid in the middle of a chain.            *)
THEOREM HardDepsRestoredAlways == NoChainSpared => (Spec => []HardDepsRestored)
<1>1. ASSUME NoChainSpared, TypeOK, Coherent PROVE HardDepsRestored
  <2>1. ASSUME NEW p \in procs, p.kind = "setscene", NEW d \in Setscene, p.task \in HardDeps[d]
        PROVE  FromCache(d)
    <3>1. p.task \in Unsure(sq) \ migrating.harddepfail
      BY <1>1, <2>1 DEF Coherent, ProcsRight, PendingRight, Unsure
    <3>2. d \in sq.covered
      BY <1>1, <2>1, <3>1 DEF Coherent, QueueRight, QueueSound, HardFirst
    <3>3. d \notin sq.notneeded
      BY <1>1, <2>1 DEF NoChainSpared, Coherent, QueueRight, NotNeededRight
    <3> QED
      BY <3>2, <3>3 DEF FromCache
  <2> QED
    BY <2>1 DEF HardDepsRestored
<1> SUFFICES ASSUME NoChainSpared PROVE Spec => []HardDepsRestored
  OBVIOUS
<1>2. TypeOK /\ Coherent => HardDepsRestored
  BY <1>1
<1> QED
  BY <1>2, CoherentAlways, TypeCorrect, PTL

-----------------------------------------------------------------------------
(* The step mapping: what the server does, seen through what has been       *)
(* started and completed, is a step of TaskExecution or none at all.        *)

LEMMA StutterMaps ==
  ASSUME UNCHANGED <<runq_running, runq_complete>>,
         pc' = "end" \/ (pc' # "end" /\ pc # "end")
  PROVE  [Execution!Next]_(Execution!vars)
BY DEF Execution!Next, Execution!End, Execution!vars

LEMMA StepMaps ==
  TypeOK /\ DependenciesComplete /\ Coherent /\ [Next]_vars
    => [Execution!Next]_(Execution!vars)
<1> SUFFICES ASSUME TypeOK, DependenciesComplete, Coherent, [Next]_vars
             PROVE  [Execution!Next]_(Execution!vars)
  OBVIOUS
<1>1. ASSUME NEW t \in Tasks, ReadExit(t) PROVE [Execution!Next]_(Execution!vars)
  <2>1. PICK p \in procs : p.task = t
    BY <1>1 DEF ReadExit
  <2>2. pc # "end" /\ pc' # "end" /\ UNCHANGED pc
    BY <1>1 DEF ReadExit, Reading
  <2>3. CASE UNCHANGED <<runq_running, runq_complete>>
    BY <2>2, <2>3, StutterMaps
  <2>4. CASE t \notin sq.live /\ ~UNCHANGED <<runq_running, runq_complete>>
    <3>1. t \in runq_running
      BY <2>1, <2>4 DEF Coherent, ProcsRight, InProgress
    <3>2. PICK ok \in BOOLEAN : TaskExit(t, ok)
      BY <1>1, <2>4 DEF ReadExit
    <3>3. runq_running' = runq_running /\ runq_complete' = runq_complete \cup {t}
      BY <2>4, <3>2 DEF TaskExit
    <3>4. t \notin runq_complete
      BY <2>4, <3>3
    <3>5. Execution!Complete(t)
      BY <2>2, <3>1, <3>3, <3>4 DEF Execution!Complete
    <3> QED
      BY <3>5 DEF Execution!Next
  <2>5. CASE t \in sq.live
    BY <1>1, <2>2, <2>5, StutterMaps DEF ReadExit, SetsceneExit
  <2> QED
    BY <2>3, <2>4, <2>5
<1>2. ASSUME NEW t \in Tasks, Scheduled(t)
      PROVE  pc # "end" /\ t \notin runq_running /\ Depends[t] \subseteq runq_complete
  BY <1>2 DEF Scheduled, Schedulable, DependenciesComplete
<1>3. ASSUME NEW t \in Tasks, TaskCovered(t) \/ TaskExisting(t) \/ TaskNoexec(t)
      PROVE  [Execution!Next]_(Execution!vars)
  <2>1. Scheduled(t) /\ \E ran : CompleteAtOnce(t, ran)
    BY <1>3 DEF TaskCovered, TaskExisting, TaskNoexec, MustRun
  <2>2. /\ runq_running' = runq_running \cup {t}
        /\ runq_complete' = runq_complete \cup {t} /\ pc' # "end"
    BY <2>1 DEF CompleteAtOnce
  <2>3. Execution!Skip(t)
    BY <1>2, <2>1, <2>2 DEF Execution!Skip, Execution!Ready
  <2> QED
    BY <2>3 DEF Execution!Next
<1>4. ASSUME NEW t \in Tasks, TaskStart(t) PROVE [Execution!Next]_(Execution!vars)
  <2>1. Scheduled(t) /\ pc' # "end"
    BY <1>4 DEF TaskStart, MustRun
  <2>2. runq_running' = runq_running \cup {t} /\ runq_complete' = runq_complete
    BY <1>4 DEF TaskStart
  <2>3. Execution!Start(t)
    BY <1>2, <2>1, <2>2 DEF Execution!Start, Execution!Ready
  <2> QED
    BY <2>3 DEF Execution!Next
<1>5. CASE Environment
  BY <1>5, StutterMaps
     DEF Environment, TaskSucceeds, TaskFails, TaskEnds, WorkerDies, UserInterrupts
<1>6. CASE ReadUniHash \/ ReadDone
  BY <1>6, StutterMaps DEF ReadUniHash, ReadDone, Reading
<1>7. CASE Loop
  BY <1>7, StutterMaps
     DEF Loop, SceneInit, BeginPass, Finish, Return, Check, TearDown
<1>8. CASE Migration
  BY <1>8, StutterMaps
     DEF Migration, Rehash, NothingToRehash, MigrateDone, MigrateNot, Migrate, MayMigrate,
         Reopen, AbandonBuild
<1>9. CASE Scene
  BY <1>9, StutterMaps
     DEF Scene, SceneNone, SceneSettles, SceneNotNeeded, SceneStaysInvalid,
         SceneOutrightFail, SceneRunInstead, SceneSkip, SceneStart, MustRestore,
         SceneChosen, SceneNext
<1>10. CASE UpdateHoldoff
  BY <1>10, StutterMaps DEF UpdateHoldoff
<1>11. CASE NormalNone \/ WriteCrash \/ \E t \in Tasks : TaskWhitelistFail(t)
  BY <1>11, StutterMaps
     DEF NormalNone, WriteCrash, Crash, TaskWhitelistFail, Scheduled
<1>12. CASE TailEnd
  BY <1>12, StutterMaps DEF TailEnd, TailWait, TailForce, TailDone, Idle
<1>13. CASE Stopped \/ UNCHANGED vars
  BY <1>13 DEF Stopped, Execution!vars
<1> QED
  BY <1>1, <1>3, <1>4, <1>5, <1>6, <1>7, <1>8, <1>9, <1>10, <1>11, <1>12, <1>13
     DEF Next, Read, Normal

(* Every build is a run of TaskExecution: a task is started and completed   *)
(* once at most, in an order the task graph allows, and never after the     *)
(* build has ended, whatever the workers, the cache and the hash server do. *)
THEOREM Refinement == Spec => ImplementsTaskExecution
<1>1. Init => Execution!Init
  BY DEF Init, Execution!Init
<1> QED
  BY <1>1, StepMaps, TypeCorrect, DependenciesCompleteAlways, CoherentAlways, PTL
     DEF Spec, ImplementsTaskExecution, Execution!Spec

-----------------------------------------------------------------------------
(* A process is one of before, perhaps ended since, or one just started.    *)
LEMMA ProcessesComeFrom ==
  ASSUME TypeOK, [Next]_vars, NEW p \in procs'
  PROVE  \/ \E q \in procs : q.task = p.task /\ q.kind = p.kind
         \/ \E t \in Tasks : TaskStart(t) /\ p = Process(t, "task", "run", unihash[t])
         \/ \E t \in Setscene :
              SceneStart(t) /\ p = Process(t, "setscene", "run", unihash[t])
<1> DEFINE FromBefore == \E q \in procs : q.task = p.task /\ q.kind = p.kind
<1>1. p \in procs => FromBefore
  OBVIOUS
<1>2. CASE Environment
  <2>1. ASSUME NEW q \in procs, NEW status, NEW h, TaskEnds(q, status, h) PROVE FromBefore
    <3> DEFINE e == [q EXCEPT !.status = status]
    <3>1. e.task = q.task /\ e.kind = q.kind /\ procs' = (procs \ {q}) \cup {e}
      BY <2>1 DEF TaskEnds, TypeOK, Processes
    <3> HIDE DEF e
    <3> QED
      BY <1>1, <3>1
  <2>2. CASE WorkerDies \/ \E how \in {1, 2} : UserInterrupts(how)
    BY <1>1, <2>2 DEF WorkerDies, UserInterrupts
  <2> QED
    BY <1>2, <2>1, <2>2 DEF Environment, TaskSucceeds, TaskFails
<1>3. CASE Read
  BY <1>1, <1>3 DEF Read, ReadUniHash, ReadExit, ReadDone
<1>4. CASE Loop
  BY <1>1, <1>4 DEF Loop, SceneInit, BeginPass, Finish, Return, Check, TearDown
<1>5. CASE Migration
  BY <1>1, <1>5 DEF Migration, Rehash, NothingToRehash, MigrateDone, MigrateNot, Migrate
<1>6. ASSUME NEW t \in Setscene, SceneStart(t)
      PROVE  FromBefore \/ p = Process(t, "setscene", "run", unihash[t])
  BY <1>1, <1>6 DEF SceneStart
<1>7. CASE SceneNone \/ \E t \in Setscene :
             \/ SceneNotNeeded(t) \/ SceneStaysInvalid(t) \/ SceneOutrightFail(t)
             \/ SceneRunInstead(t) \/ SceneSkip(t)
  BY <1>1, <1>7 DEF SceneNone, SceneSettles, SceneNotNeeded, SceneStaysInvalid,
                    SceneOutrightFail, SceneRunInstead, SceneSkip
<1>8. CASE UpdateHoldoff
  BY <1>1, <1>8 DEF UpdateHoldoff
<1>9. ASSUME NEW t \in Tasks, TaskStart(t)
      PROVE  FromBefore \/ p = Process(t, "task", "run", unihash[t])
  BY <1>1, <1>9 DEF TaskStart
<1>10. CASE NormalNone \/ WriteCrash \/ \E t \in Tasks :
              TaskWhitelistFail(t) \/ TaskCovered(t) \/ TaskExisting(t) \/ TaskNoexec(t)
  BY <1>1, <1>10 DEF NormalNone, WriteCrash, Crash, TaskWhitelistFail, TaskCovered,
                     TaskExisting, TaskNoexec, CompleteAtOnce
<1>11. CASE TailEnd \/ Stopped \/ UNCHANGED vars
  BY <1>1, <1>11 DEF TailEnd, TailWait, TailForce, TailDone, Stopped
<1> QED
  BY <1>2, <1>3, <1>4, <1>5, <1>6, <1>7, <1>8, <1>9, <1>10, <1>11
     DEF Next, Scene, Normal

-----------------------------------------------------------------------------
(* What is settled stays settled, unless a task goes back to the queue.     *)

LEMMA ReconsideredGrows ==
  ASSUME TypeOK, NEW t \in Setscene, NEW q \in {sq, Undeferred(t), Retried(t)},
         NEW S \in SUBSET Setscene
  PROVE  Grows(sq, SqSkipAll(q, S)) /\ Grows(sq, SqFailOutrightAll(q, S))
<1>1. SameDecisions(sq, q)
  BY UndeferredSame DEF SameDecisions, TypeOK
<1>2. Grows(sq, q) /\ q \in SceneQueueType
  BY <1>1, SameDecisionsSound DEF SameDecisions
<1>3. Grows(q, SqSkipAll(q, S)) /\ Grows(q, SqFailOutrightAll(q, S))
  BY <1>2, SqSkipAllSound, SqFailOutrightAllSound
<1> QED
  BY <1>2, <1>3, GrowsTransitive

LEMMA SettledStays ==
  ASSUME TypeOK, Coherent, [Next]_vars, ~SceneInit, \A t \in Setscene : ~Migrate(t)
  PROVE  sq.covered \subseteq sq'.covered /\ sq.notcovered \subseteq sq'.notcovered
<1>1. CASE sq' = sq
  BY <1>1
<1>2. CASE Grows(sq, sq')
  BY <1>2 DEF Grows
<1>3. ASSUME NEW t \in Tasks, ReadExit(t)
      PROVE  sq.covered \subseteq sq'.covered /\ sq.notcovered \subseteq sq'.notcovered
  <2>1. CASE t \in sq.live
    <3>1. migrating = NotMigrating
      BY <1>3 DEF ReadExit, Reading, Coherent, PendingRight
    <3>2. PICK ok \in BOOLEAN : SetsceneExit(t, ok)
      BY <1>3, <2>1 DEF ReadExit
    <3>3. QueueSound(sq, {})
      BY <3>1 DEF Coherent, QueueRight, NotMigrating
    <3> QED
      BY <2>1, <3>2, <3>3, SetsceneExitSettles
  <2>2. CASE t \notin sq.live
    BY <1>1, <1>3, <2>2 DEF ReadExit, TaskExit
  <2> QED
    BY <2>1, <2>2
<1>4. CASE MigrateDone
  BY <1>2, <1>4, MigrateDoneSettles DEF Coherent
<1>5. ASSUME NEW t \in Setscene,
             \/ SceneStaysInvalid(t) \/ SceneOutrightFail(t)
             \/ SceneRunInstead(t) \/ SceneSkip(t)
      PROVE  Grows(sq, sq')
  BY <1>5, ReconsideredGrows
     DEF SceneStaysInvalid, SceneOutrightFail, SceneRunInstead, SceneSkip, SceneSettles
<1>6. ASSUME NEW t \in Setscene, SceneNotNeeded(t)
      PROVE  sq.covered \subseteq sq'.covered /\ sq.notcovered \subseteq sq'.notcovered
  <2> DEFINE r == SqSkipAll(Undeferred(t), {t})
  <2>1. sq' = [r EXCEPT !.notneeded = @ \cup {t}]
    BY <1>6 DEF SceneNotNeeded, SceneSettles
  <2>2. Grows(sq, r)
    BY ReconsideredGrows
  <2> HIDE DEF r
  <2> QED
    BY <2>1, <2>2 DEF Grows, Keeps, SceneQueueType
<1>7. ASSUME NEW t \in Setscene, SceneStart(t)
      PROVE  sq.covered \subseteq sq'.covered /\ sq.notcovered \subseteq sq'.notcovered
  <2> DEFINE q == Retried(t)
  <2>1. SameDecisions(sq, q)
    BY UndeferredSame
  <2>2. sq' = [q EXCEPT !.running = @ \cup {t}, !.live = @ \cup {t}]
    BY <1>7 DEF SceneStart
  <2> HIDE DEF q
  <2> QED
    BY <2>1, <2>2 DEF SameDecisions, SceneQueueType
<1>8. CASE TailForce
  <2> DEFINE t == First(DOMAIN sq.deferred)
             f == sq.deferred[t]
  <2>1. DOMAIN sq.deferred \subseteq Setscene /\ DOMAIN sq.deferred # {}
    BY <1>8 DEF TailForce, TypeOK, SceneQueueType
  <2>2. t \in DOMAIN sq.deferred
    BY <2>1, FirstIsMember
  <2>3. t \in Setscene /\ f \in Setscene
    BY <2>1, <2>2 DEF TypeOK, SceneQueueType
  <2>4. sq' = SqFailOutrightAll(Undeferred(t), {f})
    BY <1>8 DEF TailForce
  <2> HIDE DEF t, f
  <2> QED
    BY <1>2, <2>3, <2>4, ReconsideredGrows
<1>9. CASE Environment
  BY <1>1, <1>9
     DEF Environment, TaskSucceeds, TaskFails, TaskEnds, WorkerDies, UserInterrupts
<1>10. CASE ReadUniHash \/ ReadDone \/ UpdateHoldoff \/ Stopped \/ UNCHANGED vars
  BY <1>1, <1>10 DEF ReadUniHash, ReadDone, UpdateHoldoff, Stopped
<1>11. CASE BeginPass \/ Finish \/ Return \/ Check \/ TearDown
  BY <1>1, <1>11 DEF BeginPass, Finish, Return, Check, TearDown
<1>12. CASE Rehash \/ NothingToRehash \/ SceneNone \/ \E t \in Setscene : MigrateNot(t)
  BY <1>1, <1>12 DEF Rehash, NothingToRehash, SceneNone, MigrateNot
<1>13. CASE Normal
  BY <1>1, <1>13 DEF Normal, NormalNone, WriteCrash, Crash, TaskWhitelistFail, TaskCovered,
                     TaskExisting, TaskNoexec, TaskStart, CompleteAtOnce
<1>14. CASE TailWait \/ TailDone
  BY <1>1, <1>14 DEF TailWait, TailDone
<1> QED
  BY <1>2, <1>3, <1>4, <1>5, <1>6, <1>7, <1>8, <1>9, <1>10, <1>11, <1>12, <1>13, <1>14
     DEF Next, Read, Loop, Migration, Scene, TailEnd

-----------------------------------------------------------------------------
(* Inputs.                                                                  *)

(* The scene queue has decided that t must be built, or it was never to     *)
(* decide about it.                                                         *)
ToBuild(t) == t \in sq.notcovered \cup CoveredBy(sq.notcovered) \cup (Unskippable \ Setscene)

(* What runs had to be built, and stays so: a setscene task above it does   *)
(* not go back to the queue.  What was skipped as covered was not needed by *)
(* the endpoints of the build directly.                                     *)
RunsWhatItMust ==
  /\ \A p \in procs : p.kind = "task" => ToBuild(p.task)
  /\ (runq_complete \ runq_tasksrun) \cap (Unskippable \ Setscene) = {}

LEMMA ToBuildStays ==
  ASSUME TypeOK, Coherent, [Next]_vars, ~SceneInit, NEW t, InProgress(t), ToBuild(t)
  PROVE  ToBuild(t)'
<1>1. ASSUME NEW s \in Setscene, Migrate(s) PROVE ToBuild(t)'
  <2>1. MayMigrate(s) /\ Reopen(s)
    BY <1>1, NothingSkipped DEF Migrate
  <2>2. t # s /\ t \notin SqCoveredTasks[s]
    BY <2>1 DEF MayMigrate, InProgress
  <2>3. sq'.notcovered = sq.notcovered \ {s}
    BY <2>1 DEF Reopen, Unsettled, TypeOK, SceneQueueType
  <2> QED
    BY <2>2, <2>3 DEF ToBuild, CoveredBy
<1>2. CASE \A s \in Setscene : ~Migrate(s)
  <2>1. sq.notcovered \subseteq sq'.notcovered
    BY <1>2, SettledStays
  <2> QED
    BY <2>1 DEF ToBuild, CoveredBy
<1> QED
  BY <1>1, <1>2

LEMMA StartedToBuild ==
  ASSUME TypeOK, Coherent, NEW t \in Tasks, TaskStart(t)
  PROVE  ToBuild(t) /\ sq' = sq
<1>1. /\ pc = "normal" /\ t \in tasks_notcovered
  BY DEF TaskStart, MustRun, Scheduled, Schedulable
<1>2. ~holdoff_need_update /\ migrating = NotMigrating
  BY <1>1 DEF Coherent, EarlyRight, PendingRight
<1> QED
  BY <1>1, <1>2 DEF Coherent, HoldoffFresh, NotMigrating, ToBuild, TaskStart

LEMMA SkippedOnlyCovered ==
  ASSUME TypeOK, Coherent, [Next]_vars, ~SceneInit,
         NEW d \in runq_complete' \ runq_tasksrun'
  PROVE  d \in runq_complete \ runq_tasksrun \/ (d \in tasks_covered /\ pc = "normal")
<1> DEFINE Before == d \in runq_complete \ runq_tasksrun \/ (d \in tasks_covered /\ pc = "normal")
<1>1. UNCHANGED <<runq_complete, runq_tasksrun>> => Before
  OBVIOUS
<1>2. CASE Environment
  BY <1>1, <1>2
     DEF Environment, TaskSucceeds, TaskFails, TaskEnds, WorkerDies, UserInterrupts
<1>3. CASE Read
  BY <1>1, <1>3 DEF Read, ReadUniHash, ReadExit, SetsceneExit, TaskExit, ReadDone
<1>4. CASE Loop
  BY <1>1, <1>4 DEF Loop, BeginPass, Finish, Return, Check, TearDown
<1>5. CASE Migration
  BY <1>1, <1>5 DEF Migration, Rehash, NothingToRehash, MigrateDone, MigrateNot, Migrate
<1>6. CASE Scene
  BY <1>1, <1>6 DEF Scene, SceneNone, SceneSettles, SceneNotNeeded, SceneStaysInvalid,
                    SceneOutrightFail, SceneRunInstead, SceneSkip, SceneStart
<1>7. CASE Normal
  <2>1. ASSUME NEW t \in Tasks, TaskCovered(t) \/ TaskExisting(t) \/ TaskNoexec(t)
        PROVE  Before
    BY <2>1 DEF TaskCovered, TaskExisting, TaskNoexec, MustRun, Scheduled, CompleteAtOnce
  <2> QED
    BY <1>1, <1>7, <2>1
       DEF Normal, NormalNone, WriteCrash, Crash, TaskWhitelistFail, TaskStart
<1>8. CASE UpdateHoldoff \/ TailEnd \/ Stopped \/ UNCHANGED vars
  BY <1>1, <1>8 DEF UpdateHoldoff, TailEnd, TailWait, TailForce, TailDone, Stopped
<1> QED
  BY <1>2, <1>3, <1>4, <1>5, <1>6, <1>7, <1>8 DEF Next

LEMMA RunsWhatItMustStep ==
  TypeOK /\ Coherent /\ RunsWhatItMust /\ [Next]_vars => RunsWhatItMust'
<1> SUFFICES ASSUME TypeOK, Coherent, RunsWhatItMust, [Next]_vars PROVE RunsWhatItMust'
  OBVIOUS
<1>1. CASE SceneInit
  BY <1>1 DEF SceneInit, Coherent, EarlyRight, RunsWhatItMust
<1>2. CASE ~SceneInit
  <2>1. ASSUME NEW p \in procs', p.kind = "task" PROVE ToBuild(p.task)'
    <3>1. ASSUME NEW q \in procs, q.task = p.task, q.kind = p.kind PROVE ToBuild(p.task)'
      BY <1>2, <2>1, <3>1, ToBuildStays DEF RunsWhatItMust, Coherent, ProcsRight
    <3>2. ASSUME NEW t \in Tasks, TaskStart(t), p = Process(t, "task", "run", unihash[t])
          PROVE  ToBuild(p.task)'
      BY <3>2, StartedToBuild DEF ToBuild, Process
    <3>3. CASE \E t \in Setscene : p = Process(t, "setscene", "run", unihash[t])
      BY <2>1, <3>3 DEF Process
    <3> QED
      BY <3>1, <3>2, <3>3, ProcessesComeFrom
  <2>2. ASSUME NEW d \in runq_complete' \ runq_tasksrun' PROVE d \notin Unskippable \ Setscene
    <3>1. CASE d \in tasks_covered /\ pc = "normal"
      BY <3>1 DEF Coherent, EarlyRight, PendingRight, HoldoffFresh, NotMigrating
    <3> QED
      BY <1>2, <2>2, <3>1, SkippedOnlyCovered DEF RunsWhatItMust
  <2> QED
    BY <2>1, <2>2 DEF RunsWhatItMust
<1> QED
  BY <1>1, <1>2

(* A task never runs without its inputs: whatever it depends on has run, or *)
(* has been restored and was not written off as not needed; as long as no   *)
(* setscene task is both covered and not covered, and none is spared in the *)
(* middle of a chain of explicit dependencies.                              *)
THEOREM InputsPresentAlways == NoChainSpared => (Spec => [](CoveredOrNot => InputsPresent))
<1>1. ASSUME NoChainSpared, TypeOK, Coherent, DependenciesComplete, RunsWhatItMust, CoveredOrNot
      PROVE  InputsPresent
  <2> SUFFICES ASSUME NEW p \in procs, p.kind = "task", NEW d \in Depends[p.task],
                      d \notin runq_tasksrun
               PROVE  FromCache(d)
    BY DEF InputsPresent
  <2> DEFINE t == p.task
  <2>1. t \in Tasks /\ t \in runq_running /\ d \in Tasks
    BY <1>1, DependsAssumption DEF Coherent, ProcsRight, InProgress, TypeOK
  <2>2. d \in runq_complete \ runq_tasksrun
    BY <1>1, <2>1 DEF DependenciesComplete
  <2>3. \A s \in Setscene : d \in {s} \cup SqCoveredTasks[s]
          => s \in sq.covered /\ s \notin sq.notcovered
    BY <1>1, <2>2 DEF Coherent, StartedRight, CoveredOrNot
  <2>4. \/ t \in Unskippable \ Setscene
        \/ \E r \in Setscene : r \in sq.notcovered /\ t \in {r} \cup SqCoveredTasks[r]
    BY <1>1 DEF RunsWhatItMust, ToBuild, CoveredBy, TypeOK, SceneQueueType
  <2>5. CASE d \notin Setscene
    <3>1. CASE t \in Unskippable \ Setscene
      BY <1>1, <2>2, <2>5, <3>1, UnskippableClosure DEF RunsWhatItMust
    <3>2. ASSUME NEW r \in Setscene, r \in sq.notcovered, t \in {r} \cup SqCoveredTasks[r]
          PROVE  FALSE
      <4>1. d \in SqCoveredTasks[r]
        BY <2>5, <3>2, CoveredClosure
      <4> QED
        BY <2>3, <3>2, <4>1
    <3> QED
      BY <2>4, <3>1, <3>2
  <2>6. CASE d \in Setscene
    <3>1. d \in sq.covered
      BY <2>3, <2>6
    <3>2. ASSUME d \in sq.notneeded PROVE FALSE
      <4>1. d \notin Unskippable /\ SqRevdeps[d] \subseteq sq.covered /\ HardDeps[d] = {}
        BY <1>1, <2>6, <3>2 DEF NoChainSpared, Coherent, QueueRight, NotNeededRight
      <4>2. SqRevdeps[d] = SquashedRevdeps(d) \cup {e \in Setscene : d \in HardDeps[e]}
        BY <2>6, <4>1 DEF SqRevdeps
      <4>3. CASE t \in Unskippable \ Setscene
        BY <4>1, <4>3, UnskippableClosure
      <4>4. ASSUME NEW r \in Setscene, r \in sq.notcovered, t \in {r} \cup SqCoveredTasks[r]
            PROVE  FALSE
        <5>1. r \in SquashedRevdeps(d)
          BY <4>4 DEF SquashedRevdeps, DependsOfAll
        <5> QED
          BY <1>1, <4>1, <4>2, <4>4, <5>1 DEF CoveredOrNot
      <4> QED
        BY <2>4, <4>3, <4>4
    <3> QED
      BY <3>1, <3>2 DEF FromCache
  <2> QED
    BY <2>5, <2>6
<1> SUFFICES ASSUME NoChainSpared PROVE Spec => [](CoveredOrNot => InputsPresent)
  OBVIOUS
<1>2. TypeOK /\ Coherent /\ DependenciesComplete /\ RunsWhatItMust
        => (CoveredOrNot => InputsPresent)
  BY <1>1
<1>3. Init => RunsWhatItMust
  BY DEF Init, RunsWhatItMust
<1> QED
  BY <1>2, <1>3, RunsWhatItMustStep, CoherentAlways, TypeCorrect, DependenciesCompleteAlways,
     PTL DEF Spec

-----------------------------------------------------------------------------
(* BB_SETSCENE_ENFORCE.                                                     *)

(* The tasks only pretend to run: no hash changes, and no stamp.            *)
NoNews ==
  /\ sent = {} /\ updated_taskhash_queue = {} /\ pending_migrations = {} /\ pc # "migrate"
  /\ \A b \in Bases, h \in Hashes : stamps[b][h] # Fresh

LEMMA NoNewsStep ==
  ASSUME SceneEnforced, TypeOK, Coherent, NoNews, [Next]_vars
  PROVE  /\ NoNews' /\ unihash' = unihash /\ stamps' = stamps
         /\ \A t \in Setscene : ~Migrate(t)
<1>1. pc # "migrate"
  BY DEF NoNews
<1>2. /\ ~Rehash /\ ~MigrateDone
      /\ \A t \in Setscene : ~Migrate(t) /\ ~MigrateNot(t)
  BY <1>1 DEF NoNews, Rehash, MigrateDone, Migrate, MayMigrate, MigrateNot
<1> DEFINE Stays == /\ sent' = {} /\ UNCHANGED hashvars /\ UNCHANGED stamps
                    /\ pc' # "migrate"
<1>3. ASSUME Environment PROVE Stays
  <2>1. \A p \in procs : \A h \in Reports(p) : h = p.hash
    BY DEF Reports, Pretends
  <2>2. ASSUME NEW p \in procs, NEW h \in Reports(p), TaskSucceeds(p, h) PROVE Stays
    <3>1. p.kind # "setscene" => Pretends(p)
      BY DEF Pretends, TypeOK, Processes
    <3> QED
      BY <2>1, <2>2, <3>1 DEF TaskSucceeds, TaskEnds, NoNews
  <2>3. ASSUME NEW p \in procs, NEW h \in Reports(p), TaskFails(p, h) PROVE Stays
    BY <2>1, <2>3 DEF TaskFails, TaskEnds, NoNews
  <2>4. ASSUME WorkerDies \/ \E how \in {1, 2} : UserInterrupts(how) PROVE Stays
    BY <2>4 DEF WorkerDies, UserInterrupts, NoNews
  <2> QED
    BY <1>3, <2>2, <2>3, <2>4 DEF Environment
<1>4. ASSUME Read PROVE Stays
  BY <1>4 DEF Read, ReadUniHash, ReadExit, ReadDone, NoNews
<1>5. ASSUME Loop PROVE Stays
  BY <1>5 DEF Loop, SceneInit, BeginPass, Finish, Return, Check, TearDown, NoNews
<1>6. ASSUME Migration PROVE Stays
  BY <1>2, <1>6 DEF Migration, NothingToRehash, NoNews
<1>7. ASSUME Scene PROVE Stays
  BY <1>7 DEF Scene, SceneNone, SceneSettles, SceneNotNeeded, SceneStaysInvalid,
              SceneOutrightFail, SceneRunInstead, SceneSkip, SceneStart, NoNews
<1>8. ASSUME Normal PROVE Stays
  BY <1>8 DEF Normal, NormalNone, WriteCrash, Crash, TaskWhitelistFail, TaskCovered,
              TaskExisting, TaskNoexec, TaskStart, CompleteAtOnce, NoNews
<1>9. ASSUME UpdateHoldoff \/ TailEnd \/ Stopped \/ UNCHANGED vars PROVE Stays
  BY <1>9 DEF UpdateHoldoff, TailEnd, TailWait, TailForce, TailDone, Stopped, NoNews
<1>10. Stays
  BY <1>3, <1>4, <1>5, <1>6, <1>7, <1>8, <1>9 DEF Next
<1> QED
  BY <1>2, <1>10 DEF NoNews

(* What has run was allowed to, or an earlier build had run it; what was    *)
(* skipped is covered.                                                      *)
EnforcedRight ==
  /\ \A p \in procs : p.kind = "task" => p.task \notin Enforced
  /\ \A t \in runq_tasksrun \cap Enforced : Age(stamps, unihash, t) = Old \/ t \in Noexec
  /\ \A t \in runq_complete \ runq_tasksrun : CoveredInTheEnd(t)

LEMMA RunGrowsBy ==
  ASSUME TypeOK, Coherent, [Next]_vars, NEW t \in runq_tasksrun' \ runq_tasksrun
  PROVE  \/ TaskCurrent(t) \/ t \in Noexec
         \/ \E p \in procs : p.kind = "task" /\ p.task = t
<1> DEFINE Good == \/ TaskCurrent(t) \/ t \in Noexec
                   \/ \E p \in procs : p.kind = "task" /\ p.task = t
<1>1. runq_tasksrun' = runq_tasksrun => Good
  OBVIOUS
<1>2. CASE Environment
  BY <1>1, <1>2
     DEF Environment, TaskSucceeds, TaskFails, TaskEnds, WorkerDies, UserInterrupts
<1>3. ASSUME NEW u \in Tasks, ReadExit(u) PROVE Good
  <2>1. CASE u \in sq.live
    BY <1>1, <1>3, <2>1 DEF ReadExit, SetsceneExit
  <2>2. CASE u \notin sq.live
    <3>1. PICK p \in procs : p.task = u /\ TaskExit(u, p.status = "ok")
      BY <1>3, <2>2 DEF ReadExit
    <3>2. p.kind = "task"
      BY <2>2, <3>1 DEF Coherent, ProcsRight, TypeOK, Processes
    <3>3. t = u
      BY <3>1 DEF TaskExit
    <3> QED
      BY <3>1, <3>2, <3>3
  <2> QED
    BY <2>1, <2>2
<1>4. CASE ReadUniHash \/ ReadDone
  BY <1>1, <1>4 DEF ReadUniHash, ReadDone
<1>5. CASE Loop
  BY <1>1, <1>5 DEF Loop, SceneInit, BeginPass, Finish, Return, Check, TearDown
<1>6. CASE Migration
  BY <1>1, <1>6 DEF Migration, Rehash, NothingToRehash, MigrateDone, MigrateNot, Migrate
<1>7. CASE Scene
  BY <1>1, <1>7 DEF Scene, SceneNone, SceneSettles, SceneNotNeeded, SceneStaysInvalid,
                    SceneOutrightFail, SceneRunInstead, SceneSkip, SceneStart
<1>8. ASSUME NEW u \in Tasks, TaskExisting(u) PROVE Good
  BY <1>8 DEF TaskExisting, CompleteAtOnce
<1>9. ASSUME NEW u \in Tasks, TaskNoexec(u) PROVE Good
  BY <1>9 DEF TaskNoexec, CompleteAtOnce
<1>10. CASE NormalNone \/ WriteCrash \/ \E u \in Tasks :
              TaskWhitelistFail(u) \/ TaskCovered(u) \/ TaskStart(u)
  BY <1>1, <1>10 DEF NormalNone, WriteCrash, Crash, TaskWhitelistFail, TaskCovered,
                     TaskStart, CompleteAtOnce
<1>11. CASE UpdateHoldoff \/ TailEnd \/ Stopped \/ UNCHANGED vars
  BY <1>1, <1>11 DEF UpdateHoldoff, TailEnd, TailWait, TailForce, TailDone, Stopped
<1> QED
  BY <1>2, <1>3, <1>4, <1>5, <1>6, <1>7, <1>8, <1>9, <1>10, <1>11 DEF Next, Read, Normal

LEMMA EnforcedRightStep ==
  ASSUME SceneEnforced, TypeOK, TypeOK', Coherent, NoNews, EnforcedRight, [Next]_vars
  PROVE  EnforcedRight'
<1>1. unihash' = unihash /\ stamps' = stamps /\ \A t \in Setscene : ~Migrate(t)
  BY NoNewsStep
<1>2. ASSUME NEW p \in procs', p.kind = "task" PROVE p.task \notin Enforced
  <2>1. CASE \E q \in procs : q.task = p.task /\ q.kind = p.kind
    BY <1>2, <2>1 DEF EnforcedRight
  <2>2. ASSUME NEW t \in Tasks, TaskStart(t), p = Process(t, "task", "run", unihash[t])
        PROVE  p.task \notin Enforced
    BY <2>2 DEF TaskStart, MustRun, WhitelistFails, Process
  <2>3. CASE \E t \in Setscene : p = Process(t, "setscene", "run", unihash[t])
    BY <1>2, <2>3 DEF Process
  <2> QED
    BY <2>1, <2>2, <2>3, ProcessesComeFrom
<1>3. ASSUME NEW t \in runq_tasksrun' \cap Enforced
      PROVE  Age(stamps, unihash, t)' = Old \/ t \in Noexec
  <2>1. CASE t \in runq_tasksrun
    BY <1>1, <1>3, <2>1 DEF EnforcedRight, Age
  <2>2. CASE TaskCurrent(t)
    <3>1. Age(stamps, unihash, t) # Missing
      BY <2>2 DEF TaskCurrent, StampCurrent
    <3>2. StampBase[t] \in Bases /\ unihash[t] \in Hashes
      BY <1>3, DependsAssumption, StateTypes DEF TypeOK, Bases
    <3>3. Age(stamps, unihash, t) \in {Missing, Old, Fresh} \ {Fresh}
      BY <3>2 DEF Age, NoNews, TypeOK, StampState
    <3> QED
      BY <1>1, <3>1, <3>3 DEF Age
  <2> QED
    BY <1>3, <2>1, <2>2, RunGrowsBy DEF EnforcedRight
<1>4. ASSUME NEW t \in runq_complete' \ runq_tasksrun' PROVE CoveredInTheEnd(t)'
  <2>1. CASE SceneInit
    BY <1>4, <2>1 DEF SceneInit, Coherent, EarlyRight, StartedRight
  <2>2. CASE ~SceneInit
    <3>1. sq.covered \subseteq sq'.covered
      BY <1>1, <2>2, SettledStays
    <3>2. CoveredInTheEnd(t)
      <4>1. CASE t \in runq_complete \ runq_tasksrun
        BY <4>1 DEF EnforcedRight
      <4>2. CASE t \in tasks_covered /\ pc = "normal"
        BY <4>2 DEF Coherent, EarlyRight, PendingRight, HoldoffFresh, NotMigrating,
                    CoveredBy, CoveredInTheEnd
      <4> QED
        BY <1>4, <2>2, <4>1, <4>2, SkippedOnlyCovered
    <3> QED
      BY <3>1, <3>2 DEF CoveredInTheEnd
  <2> QED
    BY <2>1, <2>2
<1> QED
  BY <1>2, <1>3, <1>4 DEF EnforcedRight

(* Marks to fail outright only go while nothing goes back to the queue, and *)
(* what is started has none.                                                *)
LEMMA OutrightFrame ==
  ASSUME NEW q \in SceneQueueType, NEW S \in SUBSET Setscene
  PROVE  /\ SqCompleteAll(q, S).outrightfail = q.outrightfail
         /\ SqFailAll(q, S).outrightfail = q.outrightfail
         /\ SqSkipAll(q, S).outrightfail = q.outrightfail
         /\ SqFailOutrightAll(q, S).outrightfail = q.outrightfail
<1>1. ASSUME NEW u \in SceneQueueType, NEW T
      PROVE  UpdateCounters(u, T).outrightfail = u.outrightfail
  <2> DEFINE more == {d \in UNION {SqDeps[t] : t \in T} : SqRevdeps[d] \subseteq Settled(u)}
  <2>1. UpdateCounters(u, T) = [u EXCEPT !.buildable = @ \cup more, !.done = DoneAfter(@, T)]
    BY DEF UpdateCounters
  <2> HIDE DEF more
  <2> QED
    BY <2>1 DEF SceneQueueType
<1>2. ASSUME NEW u \in SceneQueueType PROVE SqCompleteAll(u, S).outrightfail = u.outrightfail
  <2> DEFINE v == [u EXCEPT !.covered = @ \cup S]
  <2>1. v \in SceneQueueType /\ v.outrightfail = u.outrightfail
    BY DEF SceneQueueType
  <2> QED
    BY <1>1, <2>1 DEF SqCompleteAll
<1>3. ASSUME NEW u \in SceneQueueType PROVE SqFailAll(u, S).outrightfail = u.outrightfail
  <2> DEFINE failed  == HardFailures(u, S)
             dragged == failed \ S
             v == [u EXCEPT !.notcovered = @ \cup failed,
                            !.running    = @ \cup dragged,
                            !.buildable  = @ \cup dragged]
  <2>1. failed \in SUBSET Setscene
    BY HardFailuresClosure
  <2>2. SqFailAll(u, S) = UpdateCounters(v, failed)
    BY DEF SqFailAll
  <2> HIDE DEF failed
  <2>3. v \in SceneQueueType /\ v.outrightfail = u.outrightfail
    BY <2>1 DEF SceneQueueType
  <2> QED
    BY <1>1, <2>2, <2>3
<1> DEFINE marked == [q EXCEPT !.running = @ \cup S, !.buildable = @ \cup S]
<1>4. marked \in SceneQueueType /\ marked.outrightfail = q.outrightfail
  BY DEF SceneQueueType
<1>5. SqSkipAll(q, S) = SqCompleteAll(marked, S) /\ SqFailOutrightAll(q, S) = SqFailAll(marked, S)
  BY DEF SqSkipAll, SqFailOutrightAll
<1> HIDE DEF marked
<1> QED
  BY <1>2, <1>3, <1>4, <1>5

MarksKept ==
  /\ sq'.outrightfail \subseteq sq.outrightfail
  /\ \A s \in sq'.live : s \in sq.live \/ s \notin sq'.outrightfail

LEMMA MarksKeptStep ==
  ASSUME TypeOK, Coherent, [Next]_vars, ~SceneInit, ~MigrateDone, \A t \in Setscene : ~Migrate(t)
  PROVE  MarksKept
<1>1. sq' = sq => MarksKept
  BY DEF MarksKept
<1>2. ASSUME NEW t \in Setscene
      PROVE  /\ Undeferred(t) \in SceneQueueType /\ Retried(t) \in SceneQueueType
             /\ Undeferred(t).outrightfail = sq.outrightfail
             /\ Retried(t).outrightfail \subseteq sq.outrightfail
             /\ Undeferred(t).live = sq.live /\ Retried(t).live = sq.live
             /\ Deferred(t) => t \notin Retried(t).outrightfail
             /\ ~Deferred(t) => Retried(t).outrightfail = sq.outrightfail
  <2>1. Undeferred(t) \in SceneQueueType /\ Retried(t) \in SceneQueueType
    BY UndeferredKeeps DEF Keeps
  <2> QED
    BY <2>1 DEF Retried, Undeferred, TypeOK, SceneQueueType
<1>3. ASSUME NEW q \in SceneQueueType, NEW S \in SUBSET Setscene,
             q.outrightfail \subseteq sq.outrightfail, q.live = sq.live,
             sq' = SqSkipAll(q, S) \/ sq' = SqFailOutrightAll(q, S)
      PROVE  MarksKept
  <2>1. Keeps(q, SqSkipAll(q, S)) /\ Keeps(q, SqFailOutrightAll(q, S))
    BY SqSkipAllKeeps, SqFailOutrightAllKeeps
  <2> QED
    BY <1>3, <2>1, OutrightFrame DEF Keeps, MarksKept
<1>4. ASSUME NEW t \in Tasks, ReadExit(t) PROVE MarksKept
  <2>1. CASE t \in sq.live
    <3> DEFINE r(ok) == IF ok THEN SqCompleteAll(sq, {t}) ELSE SqFailAll(sq, {t})
    <3>1. {t} \in SUBSET Setscene /\ sq \in SceneQueueType
      BY <2>1 DEF TypeOK, SceneQueueType
    <3>2. PICK ok \in BOOLEAN : sq' = [r(ok) EXCEPT !.live = @ \ {t}]
      BY <1>4, <2>1 DEF ReadExit, SetsceneExit
    <3>3. Keeps(sq, r(ok)) /\ r(ok).outrightfail = sq.outrightfail
      BY <3>1, OutrightFrame, SqCompleteAllKeeps, SqFailAllKeeps
    <3> HIDE DEF r
    <3> QED
      BY <3>2, <3>3 DEF Keeps, SceneQueueType, MarksKept
  <2> QED
    BY <1>1, <1>4, <2>1 DEF ReadExit, TaskExit
<1>5. ASSUME NEW t \in Setscene, SceneNotNeeded(t) PROVE MarksKept
  <2> DEFINE r == SqSkipAll(Undeferred(t), {t})
  <2>1. sq' = [r EXCEPT !.notneeded = @ \cup {t}]
    BY <1>5 DEF SceneNotNeeded, SceneSettles
  <2>2. Keeps(Undeferred(t), r) /\ r.outrightfail = sq.outrightfail
    BY <1>2, SqSkipAllKeeps, OutrightFrame
  <2> HIDE DEF r
  <2> QED
    BY <1>2, <2>1, <2>2 DEF Keeps, SceneQueueType, MarksKept
<1>6. ASSUME NEW t \in Setscene, SceneStaysInvalid(t) \/ SceneOutrightFail(t)
                                   \/ SceneRunInstead(t) \/ SceneSkip(t)
      PROVE  MarksKept
  <2>1. sq \in SceneQueueType /\ {t} \in SUBSET Setscene
    BY DEF TypeOK
  <2> QED
    BY <1>2, <1>3, <1>6, <2>1
       DEF SceneStaysInvalid, SceneOutrightFail, SceneRunInstead, SceneSkip, SceneSettles
<1>7. ASSUME NEW t \in Setscene, SceneStart(t) PROVE MarksKept
  <2> DEFINE q == Retried(t)
  <2>1. t \notin q.outrightfail
    BY <1>2, <1>7 DEF SceneStart, MustRestore, SceneChosen
  <2>2. sq' = [q EXCEPT !.running = @ \cup {t}, !.live = @ \cup {t}]
    BY <1>7 DEF SceneStart
  <2>3. q \in SceneQueueType /\ q.outrightfail \subseteq sq.outrightfail /\ q.live = sq.live
    BY <1>2
  <2> HIDE DEF q
  <2> QED
    BY <2>1, <2>2, <2>3 DEF SceneQueueType, MarksKept
<1>8. CASE TailForce
  <2> DEFINE t == First(DOMAIN sq.deferred)
             f == sq.deferred[t]
  <2>1. DOMAIN sq.deferred \subseteq Setscene /\ DOMAIN sq.deferred # {}
    BY <1>8 DEF TailForce, TypeOK, SceneQueueType
  <2>2. t \in DOMAIN sq.deferred
    BY <2>1, FirstIsMember
  <2>3. t \in Setscene /\ f \in Setscene
    BY <2>1, <2>2 DEF TypeOK, SceneQueueType
  <2>4. sq' = SqFailOutrightAll(Undeferred(t), {f})
    BY <1>8 DEF TailForce
  <2> HIDE DEF t, f
  <2> QED
    BY <1>2, <1>3, <2>3, <2>4
<1>9. CASE Environment
  BY <1>1, <1>9
     DEF Environment, TaskSucceeds, TaskFails, TaskEnds, WorkerDies, UserInterrupts
<1>10. CASE ReadUniHash \/ ReadDone \/ UpdateHoldoff \/ Stopped \/ UNCHANGED vars
  BY <1>1, <1>10 DEF ReadUniHash, ReadDone, UpdateHoldoff, Stopped
<1>11. CASE BeginPass \/ Finish \/ Return \/ Check \/ TearDown
  BY <1>1, <1>11 DEF BeginPass, Finish, Return, Check, TearDown
<1>12. CASE Rehash \/ NothingToRehash \/ SceneNone \/ \E t \in Setscene : MigrateNot(t)
  BY <1>1, <1>12 DEF Rehash, NothingToRehash, SceneNone, MigrateNot
<1>13. CASE Normal
  BY <1>1, <1>13 DEF Normal, NormalNone, WriteCrash, Crash, TaskWhitelistFail, TaskCovered,
                     TaskExisting, TaskNoexec, TaskStart, CompleteAtOnce
<1>14. CASE TailWait \/ TailDone
  BY <1>1, <1>14 DEF TailWait, TailDone
<1> QED
  BY <1>4, <1>5, <1>6, <1>7, <1>8, <1>9, <1>10, <1>11, <1>12, <1>13, <1>14
     DEF Next, Read, Loop, Migration, Scene, TailEnd

(* What is complete or has failed stays so.                                 *)
BooksGrow == runq_complete \subseteq runq_complete' /\ failed_tids \subseteq failed_tids'

LEMMA BooksGrowStep == ASSUME [Next]_vars PROVE BooksGrow
<1>1. ASSUME Environment PROVE BooksGrow
  BY <1>1 DEF BooksGrow, Environment, TaskSucceeds, TaskFails, TaskEnds, WorkerDies,
              UserInterrupts
<1>2. ASSUME Read PROVE BooksGrow
  BY <1>2 DEF BooksGrow, Read, ReadUniHash, ReadExit, SetsceneExit, TaskExit, NowFailed,
              ReadDone
<1>3. ASSUME Loop PROVE BooksGrow
  BY <1>3 DEF BooksGrow, Loop, SceneInit, BeginPass, Finish, Return, Check, TearDown
<1>4. ASSUME Migration PROVE BooksGrow
  BY <1>4 DEF BooksGrow, Migration, Rehash, NothingToRehash, MigrateDone, MigrateNot,
              Migrate, AbandonBuild, Reopen
<1>5. ASSUME Scene PROVE BooksGrow
  BY <1>5 DEF BooksGrow, Scene, SceneNone, SceneSettles, SceneNotNeeded, SceneStaysInvalid,
              SceneOutrightFail, SceneRunInstead, SceneSkip, SceneStart
<1>6. ASSUME Normal PROVE BooksGrow
  BY <1>6 DEF BooksGrow, Normal, NormalNone, WriteCrash, Crash, TaskWhitelistFail,
              NowFailed, TaskCovered, TaskExisting, TaskNoexec, TaskStart, CompleteAtOnce
<1>7. ASSUME UpdateHoldoff \/ TailEnd \/ Stopped \/ UNCHANGED vars PROVE BooksGrow
  BY <1>7 DEF BooksGrow, UpdateHoldoff, TailEnd, TailWait, TailForce, TailDone, Stopped
<1> QED
  BY <1>1, <1>2, <1>3, <1>4, <1>5, <1>6, <1>7 DEF Next

(* How such a build ends.  Every failure is of a task that may fail, and it *)
(* only gives up because a task failed, or could not be restored.           *)
FailuresRight ==
  /\ worker # "dead"
  /\ sq.live \cap sq.outrightfail = {}
  /\ \A p \in procs : p.status = "fail" => p.task \in MayFail

HasCause == failed_tids # {} \/ RestoreFailed

EndRight ==
  interrupt = 0 =>
    /\ rqstate = "CleanUp" \/ pc = "finish" => HasCause
    /\ rqstate = "Complete" => runq_complete = Tasks \/ RestoreFailed

LEMMA FailuresRightStep ==
  ASSUME ~WorkerMayDie, TypeOK, Coherent, NoNews, FailuresRight, [Next]_vars,
         \A t \in Setscene : ~Migrate(t)
  PROVE  FailuresRight'
<1>1. sq'.live \cap sq'.outrightfail = {}
  <2>1. CASE SceneInit
    <3>1. sqactive' = 0 /\ Coherent'
      BY <2>1, SceneInitCoherent DEF SceneInit, Coherent, EarlyRight
    <3>2. sq'.live \subseteq Setscene
      BY <3>1, <2>1, LoopType DEF Loop, TypeOK, SceneQueueType
    <3>3. IsFiniteSet(sq'.live) /\ Cardinality(sq'.live) = 0
      BY <3>1, <3>2, SetsceneFinite, FS_Subset DEF Coherent, ProcsRight
    <3> QED
      BY <3>3, FS_EmptySet
  <2>2. CASE ~SceneInit
    BY <2>2, MarksKeptStep DEF MarksKept, FailuresRight, NoNews, MigrateDone
  <2> QED
    BY <2>1, <2>2
<1> DEFINE Known == /\ worker' # "dead"
                    /\ \A p \in procs' : p.status = "fail" => p.task \in MayFail
<1>2. worker' \in {worker, "gone"} /\ procs' \subseteq procs => Known
  BY DEF FailuresRight
<1>3. ASSUME NEW p \in procs, NEW h, TaskSucceeds(p, h) \/ TaskFails(p, h) PROVE Known
  <2>1. ASSUME NEW status \in {"ok", "fail"}, TaskEnds(p, status, h),
               status = "fail" => p.task \in MayFail
        PROVE  Known
    <3> DEFINE e == [p EXCEPT !.status = status]
    <3>1. e.task = p.task /\ e.status = status /\ procs' = (procs \ {p}) \cup {e}
      BY <2>1 DEF TaskEnds, TypeOK, Processes
    <3>2. worker' = worker
      BY <2>1 DEF TaskEnds
    <3> HIDE DEF e
    <3> QED
      BY <2>1, <3>1, <3>2 DEF FailuresRight
  <2> QED
    BY <1>3, <2>1 DEF TaskSucceeds, TaskFails
<1>4. ASSUME Environment PROVE Known
  BY <1>2, <1>3, <1>4 DEF Environment, WorkerDies, UserInterrupts
<1>5. ASSUME Read \/ Migration PROVE Known
  BY <1>2, <1>5 DEF Read, ReadUniHash, ReadExit, ReadDone, Migration, Rehash,
                    NothingToRehash, MigrateDone, MigrateNot, Migrate
<1>6. ASSUME Loop PROVE Known
  BY <1>2, <1>6 DEF Loop, SceneInit, BeginPass, Finish, Return, Check, TearDown
<1>7. ASSUME NEW t \in Tasks, SceneStart(t) \/ TaskStart(t) PROVE Known
  BY <1>7 DEF FailuresRight, SceneStart, TaskStart, Process
<1>8. ASSUME SceneNone \/ \E t \in Setscene :
               \/ SceneNotNeeded(t) \/ SceneStaysInvalid(t) \/ SceneOutrightFail(t)
               \/ SceneRunInstead(t) \/ SceneSkip(t)
      PROVE  Known
  BY <1>2, <1>8 DEF SceneNone, SceneSettles, SceneNotNeeded, SceneStaysInvalid,
                    SceneOutrightFail, SceneRunInstead, SceneSkip
<1>9. ASSUME NormalNone \/ WriteCrash \/ \E t \in Tasks :
               TaskWhitelistFail(t) \/ TaskCovered(t) \/ TaskExisting(t) \/ TaskNoexec(t)
      PROVE  Known
  BY <1>2, <1>9 DEF NormalNone, WriteCrash, Crash, TaskWhitelistFail, TaskCovered,
                    TaskExisting, TaskNoexec, CompleteAtOnce
<1>10. ASSUME UpdateHoldoff \/ TailEnd \/ Stopped \/ UNCHANGED vars PROVE Known
  BY <1>2, <1>10 DEF UpdateHoldoff, TailEnd, TailWait, TailForce, TailDone, Stopped
<1>11. Known
  BY <1>4, <1>5, <1>6, <1>7, <1>8, <1>9, <1>10, SetsceneFinite DEF Next, Scene, Normal
<1> QED
  BY <1>1, <1>11 DEF FailuresRight

LEMMA EndRightStep ==
  ASSUME ~SetsceneOnly, TypeOK, TypeOK', Coherent, NoNews, FailuresRight, EndRight,
         [Next]_vars, \A t \in Setscene : ~Migrate(t)
  PROVE  EndRight'
<1>1. CASE SceneInit
  BY <1>1 DEF SceneInit, EndRight
<1> SUFFICES ASSUME ~SceneInit PROVE EndRight'
  BY <1>1
<1>2. BooksGrow /\ (RestoreFailed => RestoreFailed')
  <2>1. sq.notcovered \subseteq sq'.notcovered
    BY SettledStays
  <2>2. sq'.outrightfail \subseteq sq.outrightfail
    BY MarksKeptStep DEF MarksKept, NoNews, MigrateDone
  <2> QED
    BY <2>1, <2>2, BooksGrowStep DEF RestoreFailed
<1>3. (HasCause => HasCause') /\ (runq_complete = Tasks => runq_complete' = Tasks)
  BY <1>2 DEF HasCause, BooksGrow, TypeOK
<1>4. worker # "dead" /\ \A st : StateOnRead(st) = st
  BY DEF FailuresRight, StateOnRead
<1> DEFINE Same  == interrupt' = interrupt /\ rqstate' = rqstate /\ pc' \in {pc} \cup (Stages \ {"finish"})
           Fails == interrupt' = interrupt /\ rqstate' = "CleanUp" /\ HasCause'
<1>5. Same \/ Fails => EndRight'
  BY <1>2, <1>3 DEF EndRight
<1>6. ASSUME Environment PROVE EndRight'
  <2>1. ASSUME NEW how \in {1, 2}, UserInterrupts(how) PROVE EndRight'
    BY <2>1 DEF UserInterrupts, EndRight
  <2> QED
    BY <1>5, <1>6, <2>1 DEF Environment, TaskSucceeds, TaskFails, TaskEnds, WorkerDies
<1>7. ASSUME NEW t \in Tasks, ReadExit(t) PROVE Same \/ Fails
  <2>1. PICK p \in procs : /\ p.task = t /\ p.status # "run"
                           /\ IF t \in sq.live THEN SetsceneExit(t, p.status = "ok")
                              ELSE TaskExit(t, p.status = "ok")
    BY <1>7 DEF ReadExit
  <2>2. UNCHANGED <<pc, interrupt>>
    BY <1>7 DEF ReadExit
  <2>3. CASE t \notin sq.live
    BY <2>1, <2>2, <2>3 DEF TaskExit, TaskFailState, NowFailed, HasCause
  <2>4. CASE t \in sq.live /\ rqstate' # rqstate
    <3>1. p.status # "ok" /\ t \in Enforced /\ rqstate' = "CleanUp"
      BY <2>1, <2>4 DEF SetsceneExit
    <3>2. t \in MayFail
      BY <2>1, <3>1 DEF FailuresRight, TypeOK, Processes
    <3> DEFINE r == SqFailAll(sq, {t})
    <3>3. sq' = [r EXCEPT !.live = @ \ {t}]
      BY <2>1, <2>4, <3>1 DEF SetsceneExit
    <3>4. {t} \in SUBSET sq.running /\ sq \in SceneQueueType
      <4>1. QueueSound(sq, {})
        BY <1>7 DEF ReadExit, Reading, Coherent, QueueRight, PendingRight, NotMigrating
      <4> QED
        BY <2>4, <4>1 DEF QueueSound, OnBooks, TypeOK
    <3>5. r \in SceneQueueType /\ t \in r.notcovered /\ r.outrightfail = sq.outrightfail
      <4>1. Grows(sq, r) /\ {t} \subseteq r.notcovered
        BY <3>4, SqFailAllSound
      <4>2. r.outrightfail = sq.outrightfail
        BY <3>4, OutrightFrame DEF SceneQueueType
      <4> QED
        BY <4>1, <4>2 DEF Grows, Keeps
    <3> HIDE DEF r
    <3>6. t \in sq'.notcovered /\ t \notin sq'.outrightfail
      BY <2>4, <3>3, <3>5 DEF SceneQueueType, FailuresRight
    <3> QED
      BY <2>2, <3>1, <3>2, <3>6 DEF HasCause, RestoreFailed
  <2> QED
    BY <2>2, <2>3, <2>4
<1>8. ASSUME ReadUniHash \/ ReadDone PROVE Same
  BY <1>8 DEF ReadUniHash, ReadDone, Stages
<1>9. ASSUME BeginPass \/ Return PROVE EndRight'
  BY <1>3, <1>4, <1>9 DEF BeginPass, Return, EndRight, HasCause, RestoreFailed
<1>10. ASSUME Finish PROVE EndRight'
  BY <1>4, <1>10 DEF Finish, EndRight, FinalState, HasCause, RestoreFailed
<1>11. ASSUME Check \/ TearDown PROVE Same
  BY <1>11 DEF Check, TearDown, Stages
<1>12. ASSUME Migration PROVE Same
  BY <1>12 DEF NoNews, Migration, Rehash, NothingToRehash, MigrateDone, MigrateNot, Stages
<1>13. ASSUME Scene PROVE Same
  BY <1>13 DEF Scene, SceneNone, SceneSettles, SceneNotNeeded, SceneStaysInvalid,
               SceneOutrightFail, SceneRunInstead, SceneSkip, SceneStart, Stages
<1>14. ASSUME UpdateHoldoff PROVE EndRight'
  BY <1>2, <1>3, <1>14 DEF UpdateHoldoff, EndRight
<1>15. ASSUME NEW t \in Tasks, TaskWhitelistFail(t) PROVE Same \/ Fails
  BY <1>15 DEF TaskWhitelistFail, TaskFailState, NowFailed, HasCause, Stages
<1>16. ASSUME NormalNone \/ WriteCrash \/ \E t \in Tasks :
                TaskCovered(t) \/ TaskExisting(t) \/ TaskNoexec(t) \/ TaskStart(t)
       PROVE  Same
  BY <1>4, <1>16 DEF NormalNone, WriteCrash, TaskCovered, TaskExisting, TaskNoexec,
                     CompleteAtOnce, TaskStart, Stages
<1>17. ASSUME TailWait \/ TailForce \/ Stopped \/ UNCHANGED vars PROVE Same
  BY <1>4, <1>17 DEF TailWait, TailForce, Stopped, Stages
<1>18. ASSUME TailDone PROVE EndRight'
  BY <1>18 DEF TailDone, EndRight, TypeOK
<1> QED
  BY <1>5, <1>6, <1>7, <1>8, <1>9, <1>10, <1>11, <1>12, <1>13, <1>14, <1>15, <1>16, <1>17,
     <1>18 DEF Next, Read, Loop, Normal, TailEnd

(* Under BB_SETSCENE_ENFORCE what must not be built comes from the cache or *)
(* from an earlier build, whatever fails and in whatever order; and a build *)
(* that comes to Complete without all of its tasks is one in which a        *)
(* restore failed.                                                          *)
THEOREM EnforcementKeptAlways == Spec => []EnforcementKept
<1>1. ASSUME SceneEnforced PROVE Spec => []EnforcedFromCache
  <2>1. Init => NoNews /\ EnforcedRight
    BY DEF Init, NoNews, EnforcedRight, StampsOf, Fresh, Old, Missing
  <2>2. /\ TypeOK /\ TypeOK' /\ Coherent /\ NoNews /\ EnforcedRight /\ [Next]_vars
             => NoNews' /\ EnforcedRight'
    BY <1>1, NoNewsStep, EnforcedRightStep
  <2>3. EnforcedRight => EnforcedFromCache
    BY DEF EnforcedRight, EnforcedFromCache
  <2> QED
    BY <2>1, <2>2, <2>3, TypeCorrect, CoherentAlways, PTL DEF Spec
<1>2. ASSUME SceneEnforced, ~WorkerMayDie, ~SetsceneOnly PROVE Spec => []EnforcedOutcome
  <2>1. Init => NoNews /\ FailuresRight /\ EndRight
    BY DEF Init, NoNews, StampsOf, Fresh, Old, Missing, FailuresRight, EndRight, NewSceneQueue
  <2>2. /\ TypeOK /\ TypeOK' /\ Coherent /\ NoNews /\ FailuresRight /\ EndRight /\ [Next]_vars
             => NoNews' /\ FailuresRight' /\ EndRight'
    BY <1>2, NoNewsStep, FailuresRightStep, EndRightStep
  <2>3. EndRight => EnforcedOutcome
    BY DEF EndRight, EnforcedOutcome
  <2> QED
    BY <2>1, <2>2, <2>3, TypeCorrect, CoherentAlways, PTL DEF Spec
<1>3. Spec => []EnforcedFromCache
  <2>1. ASSUME ~SceneEnforced PROVE Spec => []EnforcedFromCache
    <3>1. EnforcedFromCache
      BY <2>1 DEF EnforcedFromCache
    <3> QED
      BY <3>1, PTL
  <2> QED
    BY <1>1, <2>1
<1>4. Spec => []EnforcedOutcome
  <2>1. ASSUME ~(SceneEnforced /\ ~WorkerMayDie /\ ~SetsceneOnly)
        PROVE  Spec => []EnforcedOutcome
    <3>1. EnforcedOutcome
      BY <2>1 DEF EnforcedOutcome
    <3> QED
      BY <3>1, PTL
  <2> QED
    BY <1>2, <2>1
<1> QED
  BY <1>3, <1>4, PTL DEF EnforcementKept

-----------------------------------------------------------------------------
(* Both covered and not covered.                                            *)

NotBoth(q) == q.covered \cap q.notcovered = {}

LEMMA CountersNotBoth ==
  ASSUME NEW q \in SceneQueueType, NEW S \in SUBSET Setscene
  PROVE  /\ UpdateCounters(q, S).covered = q.covered
         /\ UpdateCounters(q, S).notcovered = q.notcovered
BY UpdateCountersSound

LEMMA CompleteNotBoth ==
  ASSUME NEW q \in SceneQueueType, NEW S \in SUBSET Setscene, S \cap q.notcovered = {}, NotBoth(q)
  PROVE  NotBoth(SqCompleteAll(q, S)) /\ SqCompleteAll(q, S).notcovered = q.notcovered
<1> DEFINE u == [q EXCEPT !.covered = @ \cup S]
<1>1. u \in SceneQueueType /\ u.covered = q.covered \cup S /\ u.notcovered = q.notcovered
  BY DEF SceneQueueType
<1>2. SqCompleteAll(q, S) = UpdateCounters(u, S)
  BY DEF SqCompleteAll
<1> HIDE DEF u
<1> QED
  BY <1>1, <1>2, CountersNotBoth DEF NotBoth

(* A failure takes down what is not settled only.                            *)
LEMMA FailNotBoth ==
  ASSUME NEW q \in SceneQueueType, NEW S \in SUBSET Setscene, S \cap q.covered = {}, NotBoth(q)
  PROVE  NotBoth(SqFailAll(q, S))
<1> DEFINE failed  == HardFailures(q, S)
           dragged == failed \ S
           u == [q EXCEPT !.notcovered = @ \cup failed,
                          !.running    = @ \cup dragged,
                          !.buildable  = @ \cup dragged]
<1>1. failed \subseteq S \cup (Setscene \ Settled(q))
  <2> DEFINE C == S \cup (Setscene \ Settled(q))
  <2>1. C \in SUBSET Setscene /\ S \subseteq C /\ \A f \in C : HardDeps[f] \ Settled(q) \subseteq C
    BY SetsceneAssumption
  <2> HIDE DEF C
  <2>2. HardFailures(q, S) \subseteq C
    BY <2>1, HardFailuresClosure
  <2> QED
    BY <2>2 DEF C
<1>2. SqFailAll(q, S) = UpdateCounters(u, failed)
  BY DEF SqFailAll
<1> HIDE DEF failed
<1>3. failed \in SUBSET Setscene
  BY <1>1
<1>4. u \in SceneQueueType /\ u.covered = q.covered /\ u.notcovered = q.notcovered \cup failed
  BY <1>3 DEF SceneQueueType
<1> HIDE DEF u
<1> QED
  BY <1>1, <1>2, <1>3, <1>4, CountersNotBoth DEF NotBoth, Settled

LEMMA OutrightNotBoth ==
  ASSUME NEW q \in SceneQueueType, NEW S \in SUBSET Setscene, NotBoth(q)
  PROVE  /\ S \cap q.notcovered = {} =>
              NotBoth(SqSkipAll(q, S)) /\ SqSkipAll(q, S).notcovered = q.notcovered
         /\ S \cap q.covered = {} => NotBoth(SqFailOutrightAll(q, S))
<1> DEFINE u == [q EXCEPT !.running = @ \cup S, !.buildable = @ \cup S]
<1>1. /\ u \in SceneQueueType /\ u.covered = q.covered /\ u.notcovered = q.notcovered
      /\ SqSkipAll(q, S) = SqCompleteAll(u, S) /\ SqFailOutrightAll(q, S) = SqFailAll(u, S)
  BY DEF SceneQueueType, SqSkipAll, SqFailOutrightAll
<1> HIDE DEF u
<1> QED
  BY <1>1, CompleteNotBoth, FailNotBoth DEF NotBoth

LEMMA UpdatedScenesNotBoth ==
  ASSUME NEW q \in SceneQueueType, NEW tids \in SUBSET Setscene, NEW r \in UpdatedScenes(q, tids),
         tids \cap q.notcovered = {}, NotBoth(q)
  PROVE  NotBoth(r)
<1> DEFINE stamped == AlreadyStamped(tids)
           noexec  == Noexec \cap Setscene
           skip    == tids \cap (noexec \cup stamped)
<1>1. PICK found \in SUBSET ((tids \cap Cached) \ (Noexec \cup stamped)) :
        r = UpdateSceneQueueData(q, tids, noexec, stamped, found, unihash)
  BY DEF UpdatedScenes
<1> HIDE DEF stamped, noexec
<1> DEFINE cleared == [q EXCEPT
                         !.stamppresent = (@ \ tids) \cup (tids \cap (stamped \ noexec)),
                         !.valid        = (@ \ tids) \cup found]
           skipped == SqSkipAll(cleared, skip)
<1>2. SameDecisions(q, cleared)
  BY DEF SameDecisions, SceneQueueType
<1>3. r = Reconsider(skipped, noexec, unihash)
  BY <1>1 DEF UpdateSceneQueueData
<1> HIDE DEF cleared
<1>4. skip \in SUBSET Setscene /\ cleared \in SceneQueueType /\ NotBoth(cleared)
      /\ skip \cap cleared.notcovered = {}
  BY <1>2 DEF SameDecisions, NotBoth
<1>5. NotBoth(skipped) /\ skipped \in SceneQueueType
  BY <1>4, OutrightNotBoth, SqSkipAllSound DEF Grows, Keeps
<1>6. SameDecisions(skipped, r)
  BY <1>3, <1>5, ReconsiderSame
<1> QED
  BY <1>5, <1>6 DEF SameDecisions, NotBoth

(* What has gone back in a round of migrations is not settled yet.           *)
UpdateFresh == migrating.update \cap sq.notcovered = {}

(* The two steps that fail a task that is covered: the one that breaks a     *)
(* deadlock fails the task the deferred one waits for (execute), and at the  *)
(* end of the migrations a task fails because one it explicitly depends on   *)
(* has failed, even if update_scenequeue_data has found its stamp.           *)
FailsCovered ==
  \/ TailForce /\ sq.deferred[First(DOMAIN sq.deferred)] \in sq.covered
  \/ MigrateDone /\ migrating.harddepfail \cap sq'.covered # {}

LEMMA TakenUpNotBoth ==
  ASSUME TypeOK, Coherent, CoveredOrNot, NEW t \in Setscene, SceneNext(t),
         NEW q \in {sq, Undeferred(t), Retried(t)},
         sq' = SqSkipAll(q, {t}) \/ sq' = SqFailOutrightAll(q, {t})
  PROVE  CoveredOrNot'
<1>1. SameDecisions(sq, q)
  BY UndeferredSame DEF SameDecisions, TypeOK
<1>2. q \in SceneQueueType /\ NotBoth(q) /\ {t} \cap q.covered = {} /\ {t} \cap q.notcovered = {}
  BY <1>1, SceneNextFresh DEF SameDecisions, NotBoth, CoveredOrNot, Settled
<1>3. NotBoth(SqSkipAll(q, {t})) /\ NotBoth(SqFailOutrightAll(q, {t}))
  BY <1>2, OutrightNotBoth
<1>4. NotBoth(sq')
  BY <1>3
<1> QED
  BY <1>4 DEF NotBoth, CoveredOrNot

LEMMA MigrateDoneNotBoth ==
  ASSUME TypeOK, Coherent, UpdateFresh, CoveredOrNot, MigrateDone, ~FailsCovered
  PROVE  CoveredOrNot'
<1> DEFINE U == migrating.update
           X == migrating.harddepfail
<1>1. /\ sq \in SceneQueueType /\ U \in SUBSET Setscene /\ X \in SUBSET Setscene
      /\ X \subseteq U /\ U \cap sq.notcovered = {} /\ NotBoth(sq)
  BY DEF TypeOK, Coherent, PendingRight, UpdateFresh, CoveredOrNot, NotBoth
<1>2. CASE U = {}
  BY <1>2 DEF MigrateDone, CoveredOrNot
<1>3. CASE U # {}
  <2>1. PICK q \in UpdatedScenes(sq, U) : sq' = IF X = {} THEN q ELSE SqFailOutrightAll(q, X)
    BY <1>3 DEF MigrateDone
  <2>2. NotBoth(q) /\ q \in SceneQueueType
    BY <1>1, <2>1, UpdatedScenesNotBoth, UpdatedScenesSound DEF Grows, Keeps
  <2>3. CASE X = {}
    <3>1. NotBoth(sq')
      BY <2>1, <2>2, <2>3
    <3> QED
      BY <3>1 DEF NotBoth, CoveredOrNot
  <2>4. CASE X # {}
    <3> DEFINE r == SqFailOutrightAll(q, X)
    <3>1. sq' = r /\ r.covered = q.covered
      BY <1>1, <2>1, <2>2, <2>4, SqFailOutrightAllSound
    <3> HIDE DEF r
    <3>2. X \cap q.covered = {}
      BY <3>1 DEF FailsCovered
    <3>3. NotBoth(SqFailOutrightAll(q, X))
      BY <1>1, <2>2, <3>2, OutrightNotBoth
    <3>4. NotBoth(sq')
      BY <3>1, <3>3 DEF r
    <3> QED
      BY <3>4 DEF NotBoth, CoveredOrNot
  <2> QED
    BY <2>3, <2>4
<1> QED
  BY <1>2, <1>3

LEMMA NotBothStep ==
  TypeOK /\ Coherent /\ UpdateFresh /\ CoveredOrNot /\ [Next]_vars /\ ~FailsCovered
    => CoveredOrNot'
<1> SUFFICES ASSUME TypeOK, Coherent, UpdateFresh, CoveredOrNot, [Next]_vars, ~FailsCovered
             PROVE  CoveredOrNot'
  OBVIOUS
<1> sq \in SceneQueueType /\ NotBoth(sq)
  BY DEF TypeOK, CoveredOrNot, NotBoth
<1>1. CASE sq' = sq
  BY <1>1 DEF CoveredOrNot
<1>2. CASE SceneInit
  <2> DEFINE names == [s \in Setscene |-> StampName(s, "setscene", unihash[s])]
             new   == NewSceneQueue(names)
  <2>1. new \in SceneQueueType
    BY ClosureTypes, StampNameType, NewSceneQueueType DEF TypeOK
  <2>2. NotBoth(new) /\ Setscene \cap new.notcovered = {} /\ Setscene \in SUBSET Setscene
    BY DEF NewSceneQueue, NotBoth
  <2>3. sq' \in UpdatedScenes(new, Setscene)
    BY <1>2 DEF SceneInit
  <2> HIDE DEF new
  <2>4. NotBoth(sq')
    BY <2>1, <2>2, <2>3, UpdatedScenesNotBoth
  <2> QED
    BY <2>4 DEF NotBoth, CoveredOrNot
<1>3. ASSUME NEW t \in Tasks, ReadExit(t)
      PROVE  CoveredOrNot'
  <2>1. CASE t \in sq.live
    <3>1. migrating = NotMigrating
      BY <1>3 DEF ReadExit, Reading, Coherent, PendingRight
    <3>2. PICK ok \in BOOLEAN : SetsceneExit(t, ok)
      BY <1>3, <2>1 DEF ReadExit
    <3>3. {t} \in SUBSET Setscene /\ {t} \cap sq.covered = {} /\ {t} \cap sq.notcovered = {}
      BY <2>1 DEF Coherent, QueueRight, QueueSound, OnBooks, Settled, SceneQueueType
    <3> DEFINE r == IF ok THEN SqCompleteAll(sq, {t}) ELSE SqFailAll(sq, {t})
    <3>4. NotBoth(r) /\ r \in SceneQueueType
      BY <3>3, CompleteNotBoth, FailNotBoth, SqCompleteAllKeeps, SqFailAllKeeps DEF Keeps
    <3>5. sq' = [r EXCEPT !.live = @ \ {t}]
      BY <3>2 DEF SetsceneExit
    <3> HIDE DEF r
    <3> QED
      BY <3>4, <3>5 DEF NotBoth, CoveredOrNot, SceneQueueType
  <2>2. CASE t \notin sq.live
    BY <1>1, <1>3, <2>2 DEF ReadExit, TaskExit
  <2> QED
    BY <2>1, <2>2
<1>4. CASE MigrateDone
  BY <1>4, MigrateDoneNotBoth
<1>5. ASSUME NEW t \in Setscene,
             \/ SceneStaysInvalid(t) \/ SceneOutrightFail(t)
             \/ SceneRunInstead(t) \/ SceneSkip(t)
      PROVE  CoveredOrNot'
  BY <1>5, TakenUpNotBoth
     DEF SceneStaysInvalid, SceneOutrightFail, SceneRunInstead, SceneSkip, SceneSettles,
         SceneChosen
<1>6. ASSUME NEW t \in Setscene, SceneNotNeeded(t)
      PROVE  CoveredOrNot'
  <2> DEFINE q == Undeferred(t)
             r == SqSkipAll(q, {t})
  <2>1. sq' = [r EXCEPT !.notneeded = @ \cup {t}] /\ SceneNext(t)
    BY <1>6 DEF SceneNotNeeded, SceneSettles
  <2>2. SameDecisions(sq, q)
    BY UndeferredSame
  <2> HIDE DEF q
  <2>3. /\ q \in SceneQueueType /\ NotBoth(q) /\ {t} \in SUBSET Setscene
        /\ {t} \cap q.notcovered = {}
    BY <2>1, <2>2, SceneNextFresh DEF SameDecisions, NotBoth, Settled
  <2>4. NotBoth(r) /\ r \in SceneQueueType
    BY <2>3, OutrightNotBoth, SqSkipAllSound DEF Grows, Keeps
  <2> HIDE DEF r
  <2> QED
    BY <2>1, <2>4 DEF NotBoth, CoveredOrNot, SceneQueueType
<1>7. ASSUME NEW t \in Setscene, SceneStart(t)
      PROVE  CoveredOrNot'
  <2> DEFINE q == Retried(t)
  <2>1. SameDecisions(sq, q)
    BY UndeferredSame
  <2>2. sq' = [q EXCEPT !.running = @ \cup {t}, !.live = @ \cup {t}]
    BY <1>7 DEF SceneStart
  <2> HIDE DEF q
  <2> QED
    BY <2>1, <2>2 DEF SameDecisions, SceneQueueType, CoveredOrNot
<1>8. CASE TailForce
  <2> DEFINE t == First(DOMAIN sq.deferred)
             f == sq.deferred[t]
             q == Undeferred(t)
  <2>1. DOMAIN sq.deferred \subseteq Setscene /\ DOMAIN sq.deferred # {}
    BY <1>8 DEF TailForce, TypeOK, SceneQueueType
  <2>2. t \in DOMAIN sq.deferred
    BY <2>1, FirstIsMember
  <2>3. t \in Setscene /\ f \in Setscene
    BY <2>1, <2>2 DEF TypeOK, SceneQueueType
  <2>4. sq' = SqFailOutrightAll(q, {f}) /\ f \notin sq.covered
    BY <1>8 DEF TailForce, FailsCovered
  <2>5. SameDecisions(sq, q)
    BY <2>3, UndeferredSame
  <2> HIDE DEF t, f, q
  <2>6. q \in SceneQueueType /\ NotBoth(q) /\ {f} \in SUBSET Setscene /\ {f} \cap q.covered = {}
    BY <2>3, <2>4, <2>5 DEF SameDecisions, NotBoth
  <2>7. NotBoth(SqFailOutrightAll(q, {f}))
    BY <2>6, OutrightNotBoth
  <2>8. NotBoth(sq')
    BY <2>4, <2>7
  <2> QED
    BY <2>8 DEF NotBoth, CoveredOrNot
<1>9. ASSUME NEW t \in Setscene, Migrate(t)
      PROVE  CoveredOrNot'
  <2>1. Reopen(t)
    BY <1>9, NothingSkipped DEF Migrate
  <2>2. sq'.covered = sq.covered \ {t} /\ sq'.notcovered = sq.notcovered \ {t}
    BY <2>1 DEF Reopen, Unsettled, SceneQueueType
  <2> QED
    BY <2>2 DEF CoveredOrNot
<1>10. CASE Environment
  BY <1>1, <1>10
     DEF Environment, TaskSucceeds, TaskFails, TaskEnds, WorkerDies, UserInterrupts
<1>11. CASE ReadUniHash \/ ReadDone \/ UpdateHoldoff \/ Stopped \/ UNCHANGED vars
  BY <1>1, <1>11 DEF ReadUniHash, ReadDone, UpdateHoldoff, Stopped
<1>12. CASE BeginPass \/ Finish \/ Return \/ Check \/ TearDown
  BY <1>1, <1>12 DEF BeginPass, Finish, Return, Check, TearDown
<1>13. CASE Rehash \/ NothingToRehash \/ SceneNone \/ \E t \in Setscene : MigrateNot(t)
  BY <1>1, <1>13 DEF Rehash, NothingToRehash, SceneNone, MigrateNot
<1>14. CASE Normal
  BY <1>1, <1>14 DEF Normal, NormalNone, WriteCrash, Crash, TaskWhitelistFail, TaskCovered,
                     TaskExisting, TaskNoexec, TaskStart, CompleteAtOnce
<1>15. CASE TailWait \/ TailDone
  BY <1>1, <1>15 DEF TailWait, TailDone
<1> QED
  BY <1>2, <1>3, <1>4, <1>5, <1>6, <1>7, <1>8, <1>9, <1>10, <1>11, <1>12, <1>13, <1>14, <1>15
     DEF Next, Read, Loop, Migration, Scene, TailEnd

LEMMA UpdateFreshStep ==
  TypeOK /\ Coherent /\ UpdateFresh /\ [Next]_vars /\ Coherent' => UpdateFresh'
<1> SUFFICES ASSUME TypeOK, Coherent, UpdateFresh, [Next]_vars, Coherent' PROVE UpdateFresh'
  OBVIOUS
<1>1. CASE pc' \notin {"migrate", "end"}
  BY <1>1 DEF Coherent, PendingRight, NotMigrating, UpdateFresh
<1>2. CASE migrating'.update = {}
  BY <1>2 DEF UpdateFresh
<1>3. CASE sq' = sq /\ migrating'.update = migrating.update
  BY <1>3 DEF UpdateFresh
<1>4. CASE Environment
  BY <1>3, <1>4
     DEF Environment, TaskSucceeds, TaskFails, TaskEnds, WorkerDies, UserInterrupts
<1>5. CASE Read \/ Loop
  BY <1>1, <1>3, <1>5
     DEF Read, Loop, ReadUniHash, ReadExit, ReadDone, Reading, SceneInit, BeginPass, Finish, Return,
         Check, TearDown
<1>6. CASE Migration
  <2>1. CASE Rehash
    BY <1>2, <2>1 DEF Rehash
  <2>2. CASE NothingToRehash \/ MigrateDone
    BY <1>1, <2>2 DEF NothingToRehash, MigrateDone
  <2>3. ASSUME NEW t \in Setscene, MigrateNot(t) PROVE UpdateFresh'
    BY <1>3, <2>3 DEF MigrateNot, TypeOK
  <2>4. ASSUME NEW t \in Setscene, Migrate(t) PROVE UpdateFresh'
    <3>1. Reopen(t)
      BY <2>4, NothingSkipped DEF Migrate
    <3>2. /\ sq'.notcovered = sq.notcovered \ {t}
          /\ migrating'.update = migrating.update \cup {t}
      BY <3>1 DEF Reopen, Unsettled, TypeOK, SceneQueueType
    <3> QED
      BY <3>2 DEF UpdateFresh
  <2> QED
    BY <1>6, <2>1, <2>2, <2>3, <2>4 DEF Migration
<1>7. CASE Scene
  BY <1>1, <1>7
     DEF Scene, SceneNone, SceneNotNeeded, SceneStaysInvalid, SceneOutrightFail, SceneRunInstead,
         SceneSkip, SceneStart, SceneSettles
<1>8. CASE UpdateHoldoff \/ TailEnd
  BY <1>1, <1>8 DEF UpdateHoldoff, TailEnd, TailWait, TailForce, TailDone
<1>9. CASE Normal
  BY <1>1, <1>3, <1>9 DEF Normal, NormalNone, WriteCrash, Crash, TaskWhitelistFail, TaskCovered,
                    TaskExisting, TaskNoexec, TaskStart, CompleteAtOnce
<1>10. CASE Stopped \/ UNCHANGED vars
  BY <1>3, <1>10 DEF Stopped
<1> QED
  BY <1>4, <1>5, <1>6, <1>7, <1>8, <1>9, <1>10 DEF Next

(* What the scene queue has decided fits together as long as neither of the  *)
(* two steps that fail a task regardless meets a covered one: no other step  *)
(* of any build puts a setscene task on both books.                          *)
THEOREM SceneQueueSoundAlways ==
  NoChainSpared => (Spec /\ [][~FailsCovered]_vars => []SceneQueueSound)
<1> SUFFICES ASSUME NoChainSpared PROVE Spec /\ [][~FailsCovered]_vars => []SceneQueueSound
  OBVIOUS
<1>1. Init => UpdateFresh /\ CoveredOrNot
  BY DEF Init, UpdateFresh, CoveredOrNot, NotMigrating, NewSceneQueue
<1>2. TypeOK /\ Coherent /\ UpdateFresh /\ CoveredOrNot /\ [Next]_vars /\ [~FailsCovered]_vars
      /\ Coherent' => (UpdateFresh /\ CoveredOrNot)'
  <2>1. UNCHANGED vars /\ CoveredOrNot => CoveredOrNot'
    BY DEF CoveredOrNot
  <2> QED
    BY <2>1, NotBothStep, UpdateFreshStep
<1>3. Spec => []HardDepsRestored
  BY HardDepsRestoredAlways
<1>4. CoveredOrNot /\ HardDepsRestored => SceneQueueSound
  BY DEF SceneQueueSound
<1> QED
  BY <1>1, <1>2, <1>3, <1>4, TypeCorrect, CoherentAlways, PTL DEF Spec

-----------------------------------------------------------------------------
(* Limits.                                                                  *)

ProcsOf(kind) == {p \in procs : p.kind = kind}

(* While the worker lives, the processes are counted, and not too many; a   *)
(* dead one has left none running.                                          *)
Counted ==
  /\ IsFiniteSet(procs)
  /\ worker = "up" =>
       /\ active = Cardinality(ProcsOf("task"))
       /\ sqactive = Cardinality(ProcsOf("setscene"))
       /\ active + sqactive <= NumberTasks
  /\ worker # "up" => \A p \in procs : p.status # "run"

LEMMA CountedFrame ==
  ASSUME Counted, UNCHANGED <<procs, active, sqactive>>, worker' = worker
  PROVE  Counted'
BY DEF Counted, ProcsOf

(* Exchanging an element of a finite set for one that is not in it.         *)
LEMMA SwapCardinality ==
  ASSUME NEW S, IsFiniteSet(S), NEW p \in S, NEW e, e \notin S \ {p}
  PROVE  Cardinality((S \ {p}) \cup {e}) = Cardinality(S)
<1>1. IsFiniteSet(S \ {p}) /\ Cardinality(S \ {p}) = Cardinality(S) - 1
  BY FS_RemoveElement
<1>2. Cardinality((S \ {p}) \cup {e}) = Cardinality(S \ {p}) + 1
  BY <1>1, FS_AddElement
<1>3. Cardinality(S) \in Nat
  BY FS_CardinalityType
<1> QED
  BY <1>1, <1>2, <1>3

LEMMA TaskEndsCounted ==
  ASSUME TypeOK, Coherent, Counted, NEW p \in procs, p.status = "run",
         NEW status, status # "run", NEW h, TaskEnds(p, status, h)
  PROVE  Counted'
<1> DEFINE e == [p EXCEPT !.status = status]
<1>1. /\ e.task = p.task /\ e.kind = p.kind /\ e.status = status
      /\ procs' = (procs \ {p}) \cup {e} /\ UNCHANGED <<active, sqactive, worker>>
  BY DEF TaskEnds, TypeOK, Processes
<1> HIDE DEF e
<1>2. worker = "up"
  BY DEF Counted
<1>3. e \notin procs \ {p}
  BY <1>1 DEF Coherent, ProcsRight, OneProcessPerTask
<1>4. IsFiniteSet(procs')
  BY <1>1, FS_RemoveElement, FS_AddElement DEF Counted
<1>5. ASSUME NEW k PROVE Cardinality(ProcsOf(k)') = Cardinality(ProcsOf(k))
  <2>1. IsFiniteSet(ProcsOf(k))
    BY FS_Subset DEF Counted, ProcsOf
  <2>2. CASE p.kind = k
    <3>1. ProcsOf(k)' = (ProcsOf(k) \ {p}) \cup {e} /\ p \in ProcsOf(k) /\ e \notin ProcsOf(k) \ {p}
      BY <1>1, <1>3, <2>2 DEF ProcsOf
    <3> QED
      BY <2>1, <3>1, SwapCardinality
  <2>3. CASE p.kind # k
    <3>1. ProcsOf(k)' = ProcsOf(k)
      BY <1>1, <2>3 DEF ProcsOf
    <3> QED
      BY <3>1
  <2> QED
    BY <2>2, <2>3
<1> QED
  BY <1>1, <1>2, <1>4, <1>5 DEF Counted

(* What the server takes the end of a process for is what it is.            *)
LEMMA KindIsKnown ==
  ASSUME TypeOK, Coherent, NEW p \in procs
  PROVE  p.task \in sq.live <=> p.kind = "setscene"
<1>1. ASSUME p.kind # "setscene", p.task \in sq.live PROVE FALSE
  <2>1. p.task \in Setscene /\ p.task \notin Settled(sq)
    BY <1>1 DEF TypeOK, SceneQueueType, Coherent, QueueRight, QueueSound, OnBooks
  <2>2. p.task \in runq_running
    BY <1>1 DEF Coherent, ProcsRight, InProgress
  <2> QED
    BY <2>1, <2>2 DEF Coherent, StartedRight
<1> QED
  BY <1>1 DEF Coherent, ProcsRight

LEMMA ReadExitCounted ==
  ASSUME TypeOK, Coherent, Counted, NEW t \in Tasks, ReadExit(t)
  PROVE  Counted'
<1>1. PICK p \in procs : p.task = t /\ procs' = procs \ {p}
  BY DEF ReadExit
<1>2. IsFiniteSet(procs') /\ worker' = worker
  BY <1>1, FS_RemoveElement DEF Counted, ReadExit
<1>3. /\ ProcsOf(p.kind)' = ProcsOf(p.kind) \ {p} /\ p \in ProcsOf(p.kind)
      /\ \A k : k # p.kind => ProcsOf(k)' = ProcsOf(k)
  BY <1>1 DEF ProcsOf
<1>4. \A k : IsFiniteSet(ProcsOf(k))
  BY FS_Subset DEF Counted, ProcsOf
<1>5. Cardinality(ProcsOf(p.kind)') = Cardinality(ProcsOf(p.kind)) - 1
  BY <1>3, <1>4, FS_RemoveElement
<1>6. \A k : k # p.kind => Cardinality(ProcsOf(k)') = Cardinality(ProcsOf(k))
  BY <1>3
<1>7. CASE p.kind = "setscene"
  <2>1. active' = active /\ sqactive' = sqactive - 1
    BY <1>1, <1>7, KindIsKnown DEF ReadExit, SetsceneExit
  <2> QED
    BY <1>1, <1>2, <1>5, <1>6, <1>7, <2>1, NumberTasksAssumption DEF Counted, TypeOK
<1>8. CASE p.kind = "task"
  <2>1. active' = active - 1 /\ sqactive' = sqactive
    BY <1>1, <1>8, KindIsKnown DEF ReadExit, TaskExit
  <2> QED
    BY <1>1, <1>2, <1>5, <1>6, <1>8, <2>1, NumberTasksAssumption DEF Counted, TypeOK
<1> QED
  BY <1>7, <1>8 DEF TypeOK, Processes

(* A process is only started for a task that has none, and below the limit. *)
LEMMA StartedCounted ==
  ASSUME TypeOK, Counted, worker = "up", worker' = worker, NEW new, NEW t,
         new.task = t, \A p \in procs : p.task # t,
         procs' = procs \cup {new}, active + sqactive < NumberTasks,
         \/ new.kind = "task" /\ active' = active + 1 /\ sqactive' = sqactive
         \/ new.kind = "setscene" /\ active' = active /\ sqactive' = sqactive + 1
  PROVE  Counted'
<1>1. new \notin procs /\ IsFiniteSet(procs')
  BY FS_AddElement DEF Counted
<1>2. /\ ProcsOf(new.kind)' = ProcsOf(new.kind) \cup {new} /\ new \notin ProcsOf(new.kind)
      /\ \A k : k # new.kind => ProcsOf(k)' = ProcsOf(k)
  BY <1>1 DEF ProcsOf
<1>3. \A k : IsFiniteSet(ProcsOf(k))
  BY FS_Subset DEF Counted, ProcsOf
<1>4. /\ Cardinality(ProcsOf(new.kind)') = Cardinality(ProcsOf(new.kind)) + 1
      /\ \A k : k # new.kind => Cardinality(ProcsOf(k)') = Cardinality(ProcsOf(k))
  BY <1>2, <1>3, FS_AddElement
<1> QED
  BY <1>1, <1>4, NumberTasksAssumption DEF Counted, TypeOK

LEMMA CountedStep ==
  ~SceneEnforced /\ TypeOK /\ Coherent /\ Counted /\ [Next]_vars => Counted'
<1> SUFFICES ASSUME ~SceneEnforced, TypeOK, Coherent, Counted, [Next]_vars PROVE Counted'
  OBVIOUS
<1>1. CASE Environment
  <2>1. CASE WorkerDies
    <3>1. procs' \in SUBSET procs /\ worker' = "dead" /\ \A p \in procs' : p.status # "run"
      BY <2>1 DEF WorkerDies
    <3>2. IsFiniteSet(procs')
      BY <3>1, FS_Subset DEF Counted
    <3> QED
      BY <3>1, <3>2 DEF Counted
  <2>2. CASE \E how \in {1, 2} : UserInterrupts(how)
    BY <2>2, CountedFrame DEF UserInterrupts
  <2> QED
    BY <1>1, <2>1, <2>2, TaskEndsCounted DEF Environment, TaskSucceeds, TaskFails
<1>2. CASE Read
  BY <1>2, ReadExitCounted, CountedFrame DEF Read, ReadUniHash, ReadDone
<1>3. CASE Loop
  <2>1. CASE TearDown
    BY <2>1, FS_EmptySet DEF TearDown, Counted
  <2> QED
    BY <1>3, <2>1, CountedFrame DEF Loop, SceneInit, BeginPass, Finish, Return, Check
<1>4. CASE Migration
  BY <1>4, CountedFrame DEF Migration, Rehash, NothingToRehash, MigrateDone, MigrateNot, Migrate
<1>5. ASSUME NEW t \in Setscene, SceneStart(t) PROVE Counted'
  <2> DEFINE new == Process(t, "setscene", "run", unihash[t])
  <2>1. SceneNext(t)
    BY <1>5 DEF SceneStart, MustRestore, SceneChosen
  <2>2. t \notin Settled(sq) \cup sq.live
    BY <2>1, SceneNextFresh
  <2>3. \A p \in procs : p.task # t
    BY <2>2 DEF Coherent, ProcsRight, InProgress, StartedRight
  <2>4. active + sqactive < NumberTasks
    BY <2>1 DEF SceneNext, CanStart
  <2>5. /\ new.task = t /\ new.kind = "setscene" /\ procs' = procs \cup {new}
        /\ worker = "up" /\ worker' = worker /\ active' = active /\ sqactive' = sqactive + 1
    BY <1>5 DEF SceneStart, Process
  <2> HIDE DEF new
  <2> QED
    BY <2>3, <2>4, <2>5, StartedCounted
<1>6. CASE SceneNone \/ \E t \in Setscene :
             \/ SceneNotNeeded(t) \/ SceneStaysInvalid(t) \/ SceneOutrightFail(t)
             \/ SceneRunInstead(t) \/ SceneSkip(t)
  BY <1>6, CountedFrame
     DEF SceneNone, SceneSettles, SceneNotNeeded, SceneStaysInvalid, SceneOutrightFail,
         SceneRunInstead, SceneSkip
<1>7. ASSUME NEW t \in Tasks, TaskStart(t) PROVE Counted'
  <2> DEFINE new == Process(t, "task", "run", unihash[t])
  <2>1. Scheduled(t)
    BY <1>7 DEF TaskStart, MustRun
  <2>2. \A p \in procs : p.task # t
    BY <2>1, ScheduledSettled
  <2>3. active + sqactive < NumberTasks
    BY <2>1 DEF Scheduled, Schedulable, CanStart
  <2>4. /\ new.task = t /\ new.kind = "task" /\ procs' = procs \cup {new}
        /\ worker = "up" /\ worker' = worker /\ active' = active + 1 /\ sqactive' = sqactive
    BY <1>7 DEF TaskStart, Process
  <2> HIDE DEF new
  <2> QED
    BY <2>2, <2>3, <2>4, StartedCounted
<1>8. CASE WriteCrash
  BY <1>8, FS_EmptySet DEF WriteCrash, Crash, Counted
<1>9. CASE NormalNone \/ \E t \in Tasks :
              TaskWhitelistFail(t) \/ TaskCovered(t) \/ TaskExisting(t) \/ TaskNoexec(t)
  BY <1>9, CountedFrame DEF NormalNone, TaskWhitelistFail, WhitelistFails, TaskCovered,
                            TaskExisting, TaskNoexec, CompleteAtOnce
<1>10. CASE UpdateHoldoff \/ TailEnd \/ Stopped \/ UNCHANGED vars
  BY <1>10, CountedFrame DEF UpdateHoldoff, TailEnd, TailWait, TailForce, TailDone, Stopped
<1> QED
  BY <1>1, <1>2, <1>3, <1>4, <1>5, <1>6, <1>7, <1>8, <1>9, <1>10 DEF Next, Scene, Normal

LEMMA CountedInit == Init => Counted
<1> SUFFICES ASSUME Init PROVE Counted
  OBVIOUS
<1>1. procs = {} /\ active = 0 /\ sqactive = 0 /\ ProcsOf("task") = {} /\ ProcsOf("setscene") = {}
  BY DEF Init, ProcsOf
<1>2. Cardinality({}) = 0 /\ IsFiniteSet({})
  BY FS_EmptySet
<1> QED
  BY <1>1, <1>2, NumberTasksAssumption DEF Counted

LEMMA CountedAlways == ~SceneEnforced => (Spec => []Counted)
<1> SUFFICES ASSUME ~SceneEnforced PROVE Spec => []Counted
  OBVIOUS
<1>1. TypeOK /\ Coherent /\ Counted /\ [Next]_vars => Counted'
  BY CountedStep
<1> QED
  BY <1>1, CountedInit, CoherentAlways, TypeCorrect, PTL DEF Spec

(* The tasks of one name in progress are no more than number_threads says.  *)
ThreadsRight ==
  \A n \in {TaskName[t] : t \in Tasks} :
    NumberThreads[n] # 0 => Cardinality(InProgressNamed(n)) <= NumberThreads[n]

(* A task is in progress only from its start on.                            *)
LEMMA ProgressStarts ==
  ASSUME TypeOK, Coherent, [Next]_vars, NEW r \in Tasks, InProgress(r)'
  PROVE  InProgress(r) \/ TaskStart(r)
<1>1. UNCHANGED <<runq_running, runq_complete>> => InProgress(r)
  BY DEF InProgress
<1>2. CASE Environment
  BY <1>1, <1>2
     DEF Environment, TaskSucceeds, TaskFails, TaskEnds, WorkerDies, UserInterrupts
<1>3. CASE Read
  BY <1>3 DEF Read, ReadUniHash, ReadExit, SetsceneExit, TaskExit, ReadDone, InProgress
<1>4. CASE Loop
  BY <1>1, <1>4 DEF Loop, SceneInit, BeginPass, Finish, Return, Check, TearDown
<1>5. CASE Migration
  BY <1>1, <1>5 DEF Migration, Rehash, NothingToRehash, MigrateDone, MigrateNot, Migrate
<1>6. CASE Scene
  BY <1>1, <1>6 DEF Scene, SceneNone, SceneSettles, SceneNotNeeded, SceneStaysInvalid,
                    SceneOutrightFail, SceneRunInstead, SceneSkip, SceneStart
<1>7. CASE Normal
  <2>1. ASSUME NEW t \in Tasks, TaskCovered(t) \/ TaskExisting(t) \/ TaskNoexec(t)
        PROVE  InProgress(r)
    BY <2>1 DEF TaskCovered, TaskExisting, TaskNoexec, MustRun, CompleteAtOnce, InProgress
  <2>2. ASSUME NEW t \in Tasks, TaskStart(t)
        PROVE  InProgress(r) \/ r = t
    BY <2>2 DEF TaskStart, InProgress
  <2> QED
    BY <1>1, <1>7, <2>1, <2>2
       DEF Normal, NormalNone, WriteCrash, Crash, TaskWhitelistFail
<1>8. CASE UpdateHoldoff \/ TailEnd \/ Stopped \/ UNCHANGED vars
  BY <1>1, <1>8 DEF UpdateHoldoff, TailEnd, TailWait, TailForce, TailDone, Stopped
<1> QED
  BY <1>2, <1>3, <1>4, <1>5, <1>6, <1>7, <1>8 DEF Next

LEMMA ThreadsStep == TypeOK /\ Coherent /\ ThreadsRight /\ [Next]_vars => ThreadsRight'
<1> SUFFICES ASSUME TypeOK, Coherent, ThreadsRight, [Next]_vars,
                    NEW u \in Tasks, NumberThreads[TaskName[u]] # 0
             PROVE  Cardinality(InProgressNamed(TaskName[u])') <= NumberThreads[TaskName[u]]
  BY DEF ThreadsRight
<1> DEFINE n == TaskName[u]
           A == InProgressNamed(n)
           B == InProgressNamed(n)'
<1>1. A \subseteq Tasks /\ B \subseteq Tasks /\ IsFiniteSet(A) /\ IsFiniteSet(B)
  BY DependsAssumption, FS_Subset DEF InProgressNamed
<1>2. Cardinality(A) \in Nat /\ Cardinality(B) \in Nat /\ NumberThreads[n] \in Nat
  BY <1>1, FS_CardinalityType, NumberThreadsAssumption
<1>3. Cardinality(A) <= NumberThreads[n]
  BY DEF ThreadsRight
<1>4. CASE B \subseteq A
  <2>1. Cardinality(B) <= Cardinality(A)
    BY <1>1, <1>4, FS_Subset
  <2> QED
    BY <1>2, <1>3, <2>1
<1>5. CASE ~(B \subseteq A)
  <2>1. PICK r \in Tasks : InProgress(r)' /\ TaskName[r] = n /\ ~InProgress(r)
    BY <1>5 DEF InProgressNamed
  <2>2. TaskStart(r)
    BY <2>1, ProgressStarts
  <2>3. Cardinality(A) < NumberThreads[n]
    BY <2>1, <2>2 DEF TaskStart, MustRun, Scheduled, Schedulable, ThreadFree
  <2>4. runq_running' = runq_running \cup {r} /\ runq_complete' = runq_complete
    BY <2>2 DEF TaskStart
  <2>5. B \subseteq A \cup {r}
    BY <2>4 DEF InProgressNamed, InProgress
  <2> HIDE DEF A, B, n
  <2>6. IsFiniteSet(A \cup {r}) /\ Cardinality(A \cup {r}) <= Cardinality(A) + 1
    <3>1. /\ IsFiniteSet(A \cup {r})
          /\ Cardinality(A \cup {r}) = IF r \in A THEN Cardinality(A) ELSE Cardinality(A) + 1
      BY <1>1, FS_AddElement
    <3> QED
      BY <1>2, <3>1
  <2>7. Cardinality(B) <= Cardinality(A \cup {r})
    BY <2>5, <2>6, FS_Subset
  <2>8. Cardinality(A \cup {r}) \in Nat
    BY <2>6, FS_CardinalityType
  <2>9. Cardinality(B) <= NumberThreads[n]
    BY <1>2, <2>3, <2>6, <2>7, <2>8
  <2> QED
    BY <2>9 DEF B, n
<1> QED
  BY <1>4, <1>5

(* No more than number_threads tasks of one name run, whatever hashes,      *)
(* setscene tasks and failures do meanwhile (next_buildable_task).          *)
THEOREM ThreadLimitAlways == Spec => []ThreadLimit
<1>1. Init => ThreadsRight
  <2> SUFFICES ASSUME Init, NEW t \in Tasks, NumberThreads[TaskName[t]] # 0
               PROVE  Cardinality(InProgressNamed(TaskName[t])) <= NumberThreads[TaskName[t]]
    BY DEF ThreadsRight
  <2>1. InProgressNamed(TaskName[t]) = {} /\ Cardinality({}) = 0
    BY FS_EmptySet DEF Init, InProgressNamed, InProgress
  <2> QED
    BY <2>1, NumberThreadsAssumption
<1>2. TypeOK /\ Coherent /\ ThreadsRight => ThreadLimit
  <2> SUFFICES ASSUME TypeOK, Coherent, ThreadsRight,
                      NEW t \in Tasks, NumberThreads[TaskName[t]] # 0
               PROVE  Cardinality({p \in procs : p.kind = "task" /\ TaskName[p.task] = TaskName[t]})
                        <= NumberThreads[TaskName[t]]
    BY DEF ThreadLimit
  <2> DEFINE n == TaskName[t]
             P == {p \in procs : p.kind = "task" /\ TaskName[p.task] = n}
             A == InProgressNamed(n)
             f == [p \in P |-> p.task]
  <2>1. IsFiniteSet(A)
    BY DependsAssumption, FS_Subset DEF InProgressNamed
  <2>2. f \in Injection(P, A)
    <3>1. \A p \in P : p.task \in A
      BY DEF TypeOK, Processes, Coherent, ProcsRight, InProgressNamed
    <3>2. \A p, q \in P : p.task = q.task => p = q
      BY DEF Coherent, ProcsRight, OneProcessPerTask
    <3> HIDE DEF P, A
    <3> QED
      BY <3>1, <3>2 DEF Injection, IsInjective
  <2>3. IsFiniteSet(P) /\ Cardinality(P) <= Cardinality(A)
    BY <2>1, <2>2, FS_Injection
  <2>4. Cardinality(A) <= NumberThreads[n]
    BY DEF ThreadsRight
  <2>5. Cardinality(P) \in Nat /\ Cardinality(A) \in Nat /\ NumberThreads[n] \in Nat
    BY <2>1, <2>3, FS_CardinalityType, NumberThreadsAssumption
  <2> HIDE DEF P, A, n
  <2>6. Cardinality(P) <= NumberThreads[n]
    BY <2>3, <2>4, <2>5
  <2> QED
    BY <2>6 DEF P, n
<1> QED
  BY <1>1, <1>2, ThreadsStep, CoherentAlways, TypeCorrect, PTL DEF Spec

(* Without BB_SETSCENE_ENFORCE, whose failures are counted as the ends of   *)
(* processes there never were, no limit is exceeded, and the counters       *)
(* can_start_task goes by are the processes there are.                      *)
THEOREM LimitsKeptAlways == ~SceneEnforced => (Spec => []LimitsKept)
<1> SUFFICES ASSUME ~SceneEnforced PROVE Spec => []LimitsKept
  OBVIOUS
<1>1. Counted => ActiveCountsProcesses
  BY DEF Counted, ProcsOf, ActiveCountsProcesses
<1>2. TypeOK /\ Counted => ParallelLimit
  <2> SUFFICES ASSUME TypeOK, Counted PROVE ParallelLimit
    OBVIOUS
  <2> DEFINE R == {p \in procs : p.status = "run"}
             T == ProcsOf("task")
             S == ProcsOf("setscene")
  <2>1. CASE worker = "up"
    <3>1. IsFiniteSet(T) /\ IsFiniteSet(S)
      BY FS_Subset DEF Counted, ProcsOf
    <3>2. T \cap S = {} /\ R \subseteq T \cup S
      BY DEF ProcsOf, TypeOK, Processes
    <3>3. IsFiniteSet(T \cup S) /\ Cardinality(T \cup S) = Cardinality(T) + Cardinality(S)
      <4>1. Cardinality(T \cap S) = 0
        BY <3>2, FS_EmptySet
      <4>2. Cardinality(T) \in Nat /\ Cardinality(S) \in Nat
        BY <3>1, FS_CardinalityType
      <4>3. /\ IsFiniteSet(T \cup S)
            /\ Cardinality(T \cup S) = Cardinality(T) + Cardinality(S) - Cardinality(T \cap S)
        BY <3>1, FS_Union
      <4> QED
        BY <4>1, <4>2, <4>3
    <3>4. Cardinality(T) + Cardinality(S) <= NumberTasks
      BY <2>1 DEF Counted
    <3>5. IsFiniteSet(R) /\ Cardinality(R) <= Cardinality(T \cup S)
      BY <3>2, <3>3, FS_Subset
    <3>6. Cardinality(R) \in Nat /\ Cardinality(T \cup S) \in Nat
      BY <3>3, <3>5, FS_CardinalityType
    <3> QED
      BY <3>3, <3>4, <3>5, <3>6, NumberTasksAssumption DEF ParallelLimit
  <2>2. CASE worker # "up"
    <3>1. R = {} /\ Cardinality({}) = 0
      BY <2>2, FS_EmptySet DEF Counted
    <3> QED
      BY <3>1, NumberTasksAssumption DEF ParallelLimit
  <2> QED
    BY <2>1, <2>2
<1>3. Spec => []Counted
  BY CountedAlways
<1>4. TypeOK /\ Counted /\ ThreadLimit => LimitsKept
  BY <1>1, <1>2 DEF LimitsKept
<1> QED
  BY <1>3, <1>4, ThreadLimitAlways, TypeCorrect, PTL

=============================================================================
