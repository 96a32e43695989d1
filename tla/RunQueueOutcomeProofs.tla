------------------------ MODULE RunQueueOutcomeProofs ------------------------
(***************************************************************************)
(* What a build comes to, for every task graph and every setting of the     *)
(* constants: one that stops waits for what it started, one that is         *)
(* Complete has built all, one that fails does so for a task, and the       *)
(* stamps of earlier builds are trusted only when they may be.              *)
(* Everything here rests on Coherent, the invariant of RunQueueSafetyProofs.*)
(***************************************************************************)
EXTENDS RunQueueSafetyProofs

USE DEF procvars, stampvars, sqvars, holdvars, runqvars, hashvars, vars

-----------------------------------------------------------------------------
(* The scene queue loses track of no task.                                  *)

(* Of the tasks of a set, one is needed by none of the others.              *)
LEMMA TopmostTask ==
  ASSUME NEW S \in SUBSET Tasks, S # {}
  PROVE  \E t \in S : Revdeps(t) \cap S = {}
<1> DEFINE F == {U \in SUBSET S : U # S /\ \A u \in U : Depends[u] \cap S \subseteq U}
<1>1. PICK U \in F : \A E \in F : U \subseteq E => E = U
  <2>1. F \subseteq SUBSET S /\ {} \in F /\ IsFiniteSet(S)
    BY DependsAssumption, FS_Subset
  <2> HIDE DEF F
  <2> QED
    BY <2>1, LargestSubset
<1>2. PICK t \in S \ U : Depends[t] \cap (S \ U) = {}
  BY <1>1, AcyclicAssumption
<1>3. S = U \cup {t}
  <2>1. \A u \in U \cup {t} : Depends[u] \cap S \subseteq U \cup {t}
    BY <1>1, <1>2
  <2>2. U \cup {t} # S => U \cup {t} \in F
    BY <1>1, <1>2, <2>1
  <2> QED
    BY <1>1, <1>2, <2>2
<1>4. ASSUME NEW r \in Revdeps(t) \cap S PROVE FALSE
  BY <1>1, <1>2, <1>3, <1>4 DEF Revdeps
<1> QED
  BY <1>2, <1>4

(* A plain task that the queue is not done with is used by one that it is   *)
(* not done with either.                                                    *)
WaysOpen(done) == \A d \in Tasks \ (Setscene \cup done) : Revdeps(d) \ done # {}

LEMMA DoneAfterOpen ==
  ASSUME NEW done \in SUBSET Tasks, NEW S \in SUBSET Tasks
  PROVE  /\ done \cup S \subseteq DoneAfter(done, S)
         /\ WaysOpen(done) => WaysOpen(DoneAfter(done, S))
<1> DEFINE below(R) == {d \in DependsOfAll(R) \ (Setscene \cup done) : Revdeps(d) \subseteq done \cup R}
           m == [R \in SUBSET Tasks |-> below(R)]
           sweep[R \in SUBSET Tasks] ==
             LET more == {d \in DependsOfAll(R) \ (Setscene \cup done) :
                             Revdeps(d) \subseteq done \cup R}
             IN  IF more \subseteq R THEN R ELSE sweep[R \cup more]
           Is(f) == f = [R \in SUBSET Tasks |->
                           LET more == {d \in DependsOfAll(R) \ (Setscene \cup done) :
                                           Revdeps(d) \subseteq done \cup R}
                           IN  IF more \subseteq R THEN R ELSE f[R \cup more]]
<1>1. /\ \A R \in SUBSET Tasks : below(R) \in SUBSET Tasks
      /\ \A D, E \in SUBSET Tasks : D \subseteq E => below(D) \subseteq below(E)
  BY DependsAssumption DEF DependsOfAll
<1>2. DoneAfter(done, S) = done \cup {t \in Tasks : t \in sweep[S]}
  BY DEF DoneAfter
<1>3. ASSUME NEW f PROVE GrowsBy(Tasks, m, f) <=> Is(f)
  <2> DEFINE one   == [D \in SUBSET Tasks |-> IF m[D] \subseteq D THEN D ELSE f[D \cup m[D]]]
             other == [R \in SUBSET Tasks |->
                         LET more == {d \in DependsOfAll(R) \ (Setscene \cup done) :
                                         Revdeps(d) \subseteq done \cup R}
                         IN  IF more \subseteq R THEN R ELSE f[R \cup more]]
  <2>1. DOMAIN one = DOMAIN other /\ \A D \in SUBSET Tasks : one[D] = other[D]
    OBVIOUS
  <2>2. one = other
    BY <2>1
  <2> QED
    BY <2>2 DEF GrowsBy
<1>4. /\ m \in [SUBSET Tasks -> SUBSET Tasks]
      /\ \A D, E \in SUBSET Tasks : D \subseteq E => m[D] \subseteq m[E]
  BY <1>1
<1>5. \A R \in SUBSET Tasks : m[R] = below(R)
  OBVIOUS
<1> HIDE DEF m
<1>6. GrowsBy(Tasks, m, sweep)
  <2> HIDE DEF Is
  <2>1. GrowsBy(Tasks, m, LeastFixed(Tasks, m))
    BY <1>4, GrowthDefined
  <2>2. \E f : Is(f)
    BY <1>3, <2>1
  <2>3. Is(sweep)
    BY <2>2 DEF Is
  <2> HIDE DEF sweep
  <2> QED
    BY <1>3, <2>3
<1> HIDE DEF sweep
<1>7. S \subseteq sweep[S] /\ sweep[S] \in SUBSET Tasks /\ m[sweep[S]] \subseteq sweep[S]
  <2>1. IsFiniteSet(Tasks) /\ S \in SUBSET Tasks
    BY DependsAssumption
  <2>2. m \in [SUBSET Tasks -> SUBSET Tasks]
    BY <1>4
  <2>3. \A D, E \in SUBSET Tasks : D \subseteq E => m[D] \subseteq m[E]
    BY <1>4
  <2>4. S \subseteq sweep[S] /\ sweep[S] \subseteq Tasks /\ m[sweep[S]] \subseteq sweep[S]
    BY ONLY <1>6, <2>1, <2>2, <2>3, GrowthEnds, SMTT(60)
  <2> QED
    BY <2>4
<1>8. DoneAfter(done, S) = done \cup sweep[S]
  BY <1>2, <1>7
<1>9. ASSUME WaysOpen(done), NEW d \in Tasks \ (Setscene \cup DoneAfter(done, S)),
             Revdeps(d) \subseteq DoneAfter(done, S)
      PROVE  FALSE
  <2>1. d \notin done /\ d \notin Setscene /\ d \notin sweep[S]
    BY <1>8
  <2>2. PICK r \in Revdeps(d) : r \notin done
    BY <1>9, <2>1 DEF WaysOpen
  <2>3. r \in sweep[S] /\ Revdeps(d) \subseteq done \cup sweep[S]
    BY <1>8, <1>9, <2>2
  <2>4. d \in below(sweep[S])
    BY <2>1, <2>2, <2>3 DEF DependsOfAll, Revdeps
  <2> QED
    BY <1>5, <1>7, <2>1, <2>4
<1> QED
  BY <1>7, <1>8, <1>9 DEF WaysOpen

(* What is settled or live is on the list of what may be started; what has  *)
(* been started, but for the tasks of S, is settled or live; a task whose    *)
(* users are all settled is on that list, unless it is one of X, which are   *)
(* to fail yet; the queue is done with what is settled, and loses track of  *)
(* no task.                                                                 *)
Listed(q, X) ==
  \A s \in Setscene \ (Settled(q) \cup X) : SqRevdeps[s] \subseteq Settled(q) => s \in q.buildable
WholeBut(q, S, X) ==
  /\ Settled(q) \cup q.live \subseteq q.buildable
  /\ q.running \subseteq Settled(q) \cup q.live \cup S
  /\ Listed(q, X)
  /\ Settled(q) \subseteq q.done
  /\ WaysOpen(q.done)
Whole(q, X) == WholeBut(q, {}, X)

(* A queue u with S settled on top of q, before and after the counters are  *)
(* updated.                                                                 *)
LEMMA UpdateCountersWhole ==
  ASSUME NEW q, NEW S \in SUBSET Setscene, NEW X, WholeBut(q, S, X), NEW u \in SceneQueueType,
         Settled(u) = Settled(q) \cup S, u.live = q.live, u.done = q.done,
         S \subseteq u.buildable, q.buildable \subseteq u.buildable,
         u.running \subseteq q.running \cup S
  PROVE  Whole(UpdateCounters(u, S), X)
<1> DEFINE more == {d \in UNION {SqDeps[t] : t \in S} : SqRevdeps[d] \subseteq Settled(u)}
           r    == UpdateCounters(u, S)
<1>1. r = [u EXCEPT !.buildable = @ \cup more, !.done = DoneAfter(@, S)]
  BY DEF UpdateCounters
<1>2. \A s \in Setscene : SqRevdeps[s] \subseteq Settled(u) /\ SqRevdeps[s] \cap S # {} => s \in more
  BY ClosureTypes DEF SqDeps
<1> HIDE DEF more
<1>3. /\ r.covered = u.covered /\ r.notcovered = u.notcovered /\ r.live = u.live
      /\ r.running = u.running
      /\ r.buildable = u.buildable \cup more /\ r.done = DoneAfter(u.done, S)
  BY <1>1 DEF SceneQueueType
<1>4. u.done \cup S \subseteq r.done /\ WaysOpen(r.done)
  BY <1>3, SetsceneFinite, DoneAfterOpen DEF SceneQueueType, WholeBut
<1> HIDE DEF r
<1>5. Settled(r) = Settled(q) \cup S
  BY <1>3 DEF Settled
<1>6. Listed(r, X)
  <2> SUFFICES ASSUME NEW s \in Setscene \ (Settled(r) \cup X), SqRevdeps[s] \subseteq Settled(r)
               PROVE  s \in r.buildable
    BY DEF Listed
  <2>1. CASE SqRevdeps[s] \cap S # {}
    BY <1>2, <1>3, <1>5, <2>1
  <2>2. CASE SqRevdeps[s] \cap S = {}
    BY <1>3, <1>5, <2>2 DEF WholeBut, Listed
  <2> QED
    BY <2>1, <2>2
<1>7. Whole(r, X)
  BY <1>3, <1>4, <1>5, <1>6 DEF Whole, WholeBut
<1> QED
  BY <1>7 DEF r

LEMMA SqCompleteAllWhole ==
  ASSUME NEW q \in SceneQueueType, NEW S \in SUBSET q.buildable, NEW X, WholeBut(q, S, X)
  PROVE  Whole(SqCompleteAll(q, S), X)
<1> DEFINE u == [q EXCEPT !.covered = @ \cup S]
<1>1. S \in SUBSET Setscene /\ u \in SceneQueueType
  BY DEF SceneQueueType
<1>2. /\ Settled(u) = Settled(q) \cup S /\ u.live = q.live /\ u.buildable = q.buildable
      /\ u.done = q.done /\ u.running = q.running
  BY DEF SceneQueueType, Settled
<1>3. SqCompleteAll(q, S) = UpdateCounters(u, S)
  BY DEF SqCompleteAll
<1> HIDE DEF u
<1> QED
  BY <1>1, <1>2, <1>3, UpdateCountersWhole

LEMMA SqFailAllWhole ==
  ASSUME NEW q \in SceneQueueType, NEW S \in SUBSET q.buildable, NEW X, WholeBut(q, S, X)
  PROVE  Whole(SqFailAll(q, S), X)
<1> DEFINE failed  == HardFailures(q, S)
           dragged == failed \ S
           u == [q EXCEPT !.notcovered = @ \cup failed,
                          !.running    = @ \cup dragged,
                          !.buildable  = @ \cup dragged]
<1>1. S \in SUBSET Setscene
  BY DEF SceneQueueType
<1>2. S \subseteq failed /\ failed \in SUBSET Setscene
  BY <1>1, HardFailuresClosure
<1>3. SqFailAll(q, S) = UpdateCounters(u, failed)
  BY DEF SqFailAll
<1> HIDE DEF failed
<1>4. /\ Settled(u) = Settled(q) \cup failed /\ u.live = q.live /\ u.done = q.done
      /\ u.buildable = q.buildable \cup dragged /\ u.running = q.running \cup dragged
      /\ u \in SceneQueueType
  BY <1>2 DEF SceneQueueType, Settled
<1>5. WholeBut(q, failed, X)
  BY <1>2 DEF WholeBut
<1> HIDE DEF u
<1> QED
  BY <1>2, <1>3, <1>4, <1>5, UpdateCountersWhole

LEMMA MarkedWhole ==
  ASSUME NEW q \in SceneQueueType, NEW S \in SUBSET Setscene, NEW X, Whole(q, X)
  PROVE  Whole(SqSkipAll(q, S), X) /\ Whole(SqFailOutrightAll(q, S), X)
<1> DEFINE u == [q EXCEPT !.running = @ \cup S, !.buildable = @ \cup S]
<1>1. /\ u.covered = q.covered /\ u.notcovered = q.notcovered /\ u.live = q.live
      /\ u.buildable = q.buildable \cup S /\ u.running = q.running \cup S
      /\ u.done = q.done /\ u \in SceneQueueType
  BY DEF SceneQueueType
<1>2. SqSkipAll(q, S) = SqCompleteAll(u, S) /\ SqFailOutrightAll(q, S) = SqFailAll(u, S)
  BY DEF SqSkipAll, SqFailOutrightAll
<1> HIDE DEF u
<1>3. WholeBut(u, S, X) /\ S \in SUBSET u.buildable
  BY <1>1 DEF Whole, WholeBut, Settled, Listed
<1> QED
  BY <1>1, <1>2, <1>3, SqCompleteAllWhole, SqFailAllWhole

LEMMA SameDecisionsWhole ==
  ASSUME NEW q, NEW r, SameDecisions(q, r), NEW X, Whole(q, X)
  PROVE  Whole(r, X)
BY DEF SameDecisions, Whole, WholeBut, Listed, Settled

LEMMA UpdatedScenesWhole ==
  ASSUME NEW q \in SceneQueueType, NEW tids \in SUBSET Setscene,
         NEW r \in UpdatedScenes(q, tids), NEW X, Whole(q, X)
  PROVE  Whole(r, X)
<1> DEFINE stamped == AlreadyStamped(tids)
           noexec  == Noexec \cap Setscene
           skip    == tids \cap (noexec \cup stamped)
<1>1. PICK found \in SUBSET ((tids \cap Cached) \ (Noexec \cup stamped)) :
        r = UpdateSceneQueueData(q, tids, noexec, stamped, found, unihash)
  BY DEF UpdatedScenes
<1> HIDE DEF stamped, noexec
<1> DEFINE cleared == [q EXCEPT
                         !.stamppresent = (@ \ tids) \cup (tids \cap (stamped \ noexec)),
                         !.valid        = (@ \ tids) \cup found]
           skipped == SqSkipAll(cleared, skip)
<1>2. SameDecisions(q, cleared)
  BY DEF SameDecisions, SceneQueueType
<1>3. r = Reconsider(skipped, noexec, unihash)
  BY <1>1 DEF UpdateSceneQueueData
<1> HIDE DEF cleared
<1>4. Whole(cleared, X) /\ cleared \in SceneQueueType
  BY <1>2, SameDecisionsWhole DEF SameDecisions
<1>5. Whole(skipped, X) /\ skipped \in SceneQueueType
  BY <1>4, MarkedWhole, SqSkipAllSound DEF Grows, Keeps
<1>6. SameDecisions(skipped, r)
  BY <1>3, <1>5, ReconsiderSame
<1> HIDE DEF skipped
<1> QED
  BY <1>5, <1>6, SameDecisionsWhole

(* At first the queue is done with what the endpoints need directly.        *)
LEMMA NewSceneQueueWhole ==
  ASSUME NEW names PROVE Whole(NewSceneQueue(names), {})
<1>1. WaysOpen(Unskippable \ Setscene)
  <2> SUFFICES ASSUME NEW d \in Tasks \ Setscene, d \notin Unskippable,
                      Revdeps(d) \subseteq Unskippable \ Setscene
               PROVE  FALSE
    BY DEF WaysOpen
  <2>1. PICK r \in Revdeps(d) : TRUE
    BY UnskippableClosure DEF Endpoints
  <2>2. d \in Depends[r] /\ r \in Unskippable \ Setscene
    BY <2>1 DEF Revdeps
  <2> QED
    BY <2>2, UnskippableClosure
<1> QED
  BY <1>1 DEF Whole, WholeBut, Listed, NewSceneQueue, Settled

(* What a setscene task covers is next to it or to another task it covers.  *)
LEMMA CoveredFrom ==
  ASSUME NEW s \in Setscene, NEW d \in SqCoveredTasks[s]
  PROVE  d \in Depends[s] \/ \E e \in SqCoveredTasks[s] : d \in Depends[e]
<1> DEFINE next == [t \in Tasks |-> Depends[t] \ Setscene]
           S == Depends[s] \ Setscene
           C == {c \in SqCoveredTasks[s] :
                   c \in Depends[s] \/ \E e \in SqCoveredTasks[s] : c \in Depends[e]}
<1>1. next \in [Tasks -> SUBSET Tasks] /\ S \in SUBSET Tasks /\ IsFiniteSet(Tasks)
  BY DependsAssumption, SetsceneFinite
<1>2. SqCoveredTasks[s] = Closure(next, S)
  BY DEF SqCoveredTasks, PlainClosure
<1>3. C \in SUBSET Tasks /\ S \subseteq C /\ \A t \in C : next[t] \subseteq C
  BY CoveredClosure
<1> HIDE DEF next, S, C
<1>4. Closure(next, S) \subseteq C
  BY <1>1, <1>3, ClosureIsLeast
<1> QED
  BY <1>2, <1>4 DEF C

(* A task that goes back to the queue takes with it what it would cover,    *)
(* except what is complete or is needed anyhow, and so leaves no hole: what *)
(* such a task depends on is complete, or needed anyhow, too.               *)
QueueWhole == Whole(sq, migrating.harddepfail)

LEMMA MigrateWhole ==
  ASSUME TypeOK, Coherent, DependenciesComplete, QueueWhole, NEW t \in Setscene, Migrate(t)
  PROVE  QueueWhole'
<1>1. MayMigrate(t) /\ t \notin sq.covered /\ Reopen(t)
  BY NothingSkipped DEF Migrate
<1> DEFINE gone == {t} \cup Redecided(t)
<1>2. /\ sq'.covered = sq.covered /\ sq'.notcovered = sq.notcovered \ {t}
      /\ sq'.live = sq.live /\ sq.buildable \ {t} \subseteq sq'.buildable
      /\ sq'.done = sq.done \ gone /\ t \notin sq.live /\ sq'.running = sq.running \ {t}
  BY <1>1 DEF Reopen, Unsettled, TypeOK, SceneQueueType, MayMigrate
<1>3. Redecided(t) \cap Setscene = {} /\ Redecided(t) \subseteq Tasks
  BY CoveredClosure DEF Redecided
<1>4. Settled(sq') \cup sq'.live \subseteq sq'.buildable /\ Settled(sq') \subseteq sq'.done
  BY <1>1, <1>2, <1>3 DEF QueueWhole, Whole, WholeBut, Settled, TypeOK, SceneQueueType
<1>5. ASSUME NEW d \in Tasks \ Setscene, d \notin sq'.done, Revdeps(d) \subseteq sq'.done
      PROVE  FALSE
  <2>1. CASE d \notin sq.done
    BY <1>2, <1>5, <2>1 DEF QueueWhole, Whole, WholeBut, WaysOpen
  <2>2. CASE d \in sq.done
    <3>1. d \in SqCoveredTasks[t] /\ d \notin runq_complete /\ d \notin Unskippable
      BY <1>2, <1>5, <2>2 DEF Redecided
    <3>2. t \notin sq'.done
      BY <1>2
    <3>3. CASE d \in Depends[t]
      BY <1>5, <3>2, <3>3, SetsceneFinite DEF Revdeps
    <3>4. ASSUME NEW e \in SqCoveredTasks[t], d \in Depends[e] PROVE FALSE
      <4>1. e \in Tasks \ Setscene
        BY CoveredClosure
      <4>2. e \notin Unskippable
        BY <3>1, <3>4, <4>1, UnskippableClosure
      <4>3. e \notin runq_complete
        BY <3>1, <3>4 DEF DependenciesComplete, Coherent, StartedRight
      <4>4. e \in gone
        BY <4>2, <4>3 DEF Redecided
      <4> QED
        BY <1>2, <1>5, <3>4, <4>1, <4>4 DEF Revdeps
    <3> QED
      BY <3>1, <3>3, <3>4, CoveredFrom
  <2> QED
    BY <2>1, <2>2
<1>6. Settled(sq') = Settled(sq) \ {t}
  BY <1>1, <1>2 DEF Settled
<1>7. Listed(sq', migrating'.harddepfail)
  <2> SUFFICES ASSUME NEW s \in Setscene \ (Settled(sq') \cup migrating'.harddepfail),
                      SqRevdeps[s] \subseteq Settled(sq')
               PROVE  s \in sq'.buildable
    BY DEF Listed
  <2>1. CASE s # t
    <3>1. s \notin Settled(sq) \cup migrating.harddepfail
      BY <1>1, <1>6, <2>1 DEF Reopen
    <3> QED
      BY <1>2, <1>6, <2>1, <3>1 DEF QueueWhole, Whole, WholeBut, Listed
  <2>2. CASE s = t
    <3>1. ~\E d \in sq.notcovered : t \in HardDeps[d]
      BY <1>1, <2>2 DEF Reopen
    <3> QED
      BY <1>1, <1>6, <2>2, <3>1 DEF Reopen, Unsettled, TypeOK, SceneQueueType
  <2> QED
    BY <2>1, <2>2
<1>8. sq'.running \subseteq Settled(sq') \cup sq'.live
  BY <1>2, <1>6 DEF QueueWhole, Whole, WholeBut
<1> QED
  BY <1>4, <1>5, <1>7, <1>8 DEF QueueWhole, Whole, WholeBut, WaysOpen

LEMMA ReconsideredWhole ==
  ASSUME TypeOK, NEW X, Whole(sq, X), NEW t \in Setscene,
         NEW q \in {sq, Undeferred(t), Retried(t)}, NEW S \in SUBSET Setscene
  PROVE  Whole(SqSkipAll(q, S), X) /\ Whole(SqFailOutrightAll(q, S), X)
<1>1. SameDecisions(sq, q)
  BY UndeferredSame DEF SameDecisions, TypeOK
<1>2. Whole(q, X) /\ q \in SceneQueueType
  BY <1>1, SameDecisionsWhole DEF SameDecisions
<1> QED
  BY <1>2, MarkedWhole

LEMMA ReadExitWhole ==
  ASSUME TypeOK, Coherent, QueueWhole, NEW t \in Tasks, ReadExit(t)
  PROVE  QueueWhole'
<1> DEFINE X == migrating.harddepfail
<1>1. CASE t \in sq.live
  <2>1. PICK ok \in BOOLEAN : SetsceneExit(t, ok)
    BY <1>1 DEF ReadExit
  <2> DEFINE q == IF ok THEN SqCompleteAll(sq, {t}) ELSE SqFailAll(sq, {t})
  <2>2. sq' = [q EXCEPT !.live = @ \ {t}]
    BY <2>1 DEF SetsceneExit
  <2>3. {t} \in SUBSET sq.buildable /\ {t} \in SUBSET Setscene /\ sq \in SceneQueueType
    BY <1>1 DEF QueueWhole, Whole, WholeBut, TypeOK, SceneQueueType
  <2>4. WholeBut(sq, {t}, X)
    BY DEF QueueWhole, Whole, WholeBut
  <2>5. Whole(q, X) /\ q \in SceneQueueType /\ t \in Settled(q)
    <3>1. Keeps(sq, SqCompleteAll(sq, {t})) /\ Keeps(sq, SqFailAll(sq, {t}))
      BY <2>3, SqCompleteAllKeeps, SqFailAllKeeps
    <3>2. Whole(SqCompleteAll(sq, {t}), X) /\ Whole(SqFailAll(sq, {t}), X)
      BY <2>3, <2>4, SqCompleteAllWhole, SqFailAllWhole
    <3>3. t \in Settled(SqCompleteAll(sq, {t})) /\ t \in Settled(SqFailAll(sq, {t}))
      <4>1. {t} \in SUBSET sq.running
        BY <1>1 DEF Coherent, QueueRight, QueueSound, OnBooks
      <4> DEFINE c == SqCompleteAll(sq, {t})
                 f == SqFailAll(sq, {t})
      <4>2. c.covered = sq.covered \cup {t} /\ {t} \subseteq f.notcovered
        BY <2>3, <4>1, SqCompleteAllSound, SqFailAllSound
      <4> QED
        BY <4>2 DEF Settled
    <3> QED
      BY <3>1, <3>2, <3>3 DEF Keeps
  <2> HIDE DEF q
  <2>6. /\ sq'.covered = q.covered /\ sq'.notcovered = q.notcovered /\ sq'.done = q.done
        /\ sq'.buildable = q.buildable /\ sq'.live = q.live \ {t} /\ sq'.running = q.running
    BY <2>2, <2>5 DEF SceneQueueType
  <2>7. migrating' = migrating
    BY DEF ReadExit
  <2> QED
    BY <2>5, <2>6, <2>7 DEF QueueWhole, Whole, WholeBut, Listed, Settled
<1>2. CASE t \notin sq.live
  BY <1>2 DEF ReadExit, TaskExit, QueueWhole
<1> QED
  BY <1>1, <1>2

LEMMA MigrateDoneWhole ==
  ASSUME TypeOK, Coherent, QueueWhole, MigrateDone
  PROVE  QueueWhole'
<1> DEFINE U == migrating.update
           X == migrating.harddepfail
<1>1. sq \in SceneQueueType /\ U \in SUBSET Setscene /\ X \in SUBSET Setscene /\ X \subseteq U
  BY DEF TypeOK, Coherent, PendingRight
<1>2. migrating'.harddepfail = {}
  BY DEF MigrateDone, NotMigrating
<1>3. CASE U = {}
  BY <1>1, <1>2, <1>3 DEF MigrateDone, QueueWhole
<1>4. CASE U # {}
  <2>1. PICK q \in UpdatedScenes(sq, U) : sq' = IF X = {} THEN q ELSE SqFailOutrightAll(q, X)
    BY <1>4 DEF MigrateDone
  <2>2. Whole(q, X) /\ q \in SceneQueueType
    BY <1>1, <2>1, UpdatedScenesWhole, UpdatedScenesSound DEF QueueWhole, Grows, Keeps
  <2>3. CASE X = {}
    BY <1>2, <2>1, <2>2, <2>3 DEF QueueWhole
  <2>4. CASE X # {}
    <3>1. Whole(sq', X)
      BY <1>1, <2>1, <2>2, <2>4, MarkedWhole
    <3> DEFINE f == SqFailOutrightAll(q, X)
    <3>2. X \subseteq f.notcovered
      BY <1>1, <2>2, SqFailOutrightAllSound
    <3> HIDE DEF f
    <3>3. X \subseteq Settled(sq')
      BY <2>1, <2>4, <3>2 DEF f, Settled
    <3> QED
      BY <1>2, <3>1, <3>3 DEF QueueWhole, Whole, WholeBut, Listed
  <2> QED
    BY <2>3, <2>4
<1> QED
  BY <1>3, <1>4

LEMMA WholeStep ==
  ASSUME TypeOK, Coherent, DependenciesComplete, QueueWhole, [Next]_vars
  PROVE  QueueWhole'
<1> DEFINE X == migrating.harddepfail
<1>1. CASE sq' = sq /\ migrating'.harddepfail = migrating.harddepfail
  BY <1>1 DEF QueueWhole
<1>2. CASE SceneInit
  <2> DEFINE names == [s \in Setscene |-> StampName(s, "setscene", unihash[s])]
  <2>1. sq' \in UpdatedScenes(NewSceneQueue(names), Setscene)
    BY <1>2 DEF SceneInit
  <2>2. NewSceneQueue(names) \in SceneQueueType
    BY ClosureTypes, StampNameType, NewSceneQueueType DEF TypeOK
  <2> HIDE DEF names
  <2>3. X = {} /\ migrating' = migrating
    BY <1>2 DEF SceneInit, Coherent, PendingRight, NotMigrating
  <2> HIDE DEF X
  <2>4. Whole(sq', X)
    BY <2>1, <2>2, <2>3, NewSceneQueueWhole, UpdatedScenesWhole
  <2> QED
    BY <2>3, <2>4 DEF QueueWhole, X
<1>3. ASSUME NEW t \in Setscene,
             \/ SceneStaysInvalid(t) \/ SceneOutrightFail(t)
             \/ SceneRunInstead(t) \/ SceneSkip(t)
      PROVE  QueueWhole'
  BY <1>3, ReconsideredWhole
     DEF QueueWhole, SceneStaysInvalid, SceneOutrightFail, SceneRunInstead, SceneSkip, SceneSettles
<1>4. ASSUME NEW t \in Setscene, SceneNotNeeded(t) PROVE QueueWhole'
  <2> DEFINE r == SqSkipAll(Undeferred(t), {t})
  <2>1. sq' = [r EXCEPT !.notneeded = @ \cup {t}]
    BY <1>4 DEF SceneNotNeeded, SceneSettles
  <2>2. Whole(r, X) /\ Grows(sq, r)
    BY ReconsideredWhole, ReconsideredGrows DEF QueueWhole
  <2> HIDE DEF r
  <2>3. /\ sq'.covered = r.covered /\ sq'.notcovered = r.notcovered /\ sq'.done = r.done
        /\ sq'.buildable = r.buildable /\ sq'.live = r.live /\ sq'.running = r.running
    BY <2>1, <2>2 DEF Grows, Keeps, SceneQueueType
  <2>4. migrating' = migrating
    BY <1>4 DEF SceneNotNeeded, SceneSettles
  <2> QED
    BY <2>2, <2>3, <2>4 DEF QueueWhole, Whole, WholeBut, Listed, Settled
<1>5. ASSUME NEW t \in Setscene, SceneStart(t) PROVE QueueWhole'
  <2> DEFINE q == Retried(t)
  <2>1. SameDecisions(sq, q)
    BY UndeferredSame
  <2>2. sq' = [q EXCEPT !.running = @ \cup {t}, !.live = @ \cup {t}]
    BY <1>5 DEF SceneStart
  <2>3. t \in sq.buildable
    BY <1>5, SceneNextFresh DEF SceneStart, MustRestore, SceneChosen
  <2>4. migrating' = migrating
    BY <1>5 DEF SceneStart
  <2> HIDE DEF q
  <2>5. /\ sq'.covered = sq.covered /\ sq'.notcovered = sq.notcovered /\ sq'.done = sq.done
        /\ sq'.buildable = sq.buildable /\ sq'.live = sq.live \cup {t}
        /\ sq'.running = sq.running \cup {t}
    BY <2>1, <2>2 DEF SameDecisions, SceneQueueType
  <2> QED
    BY <2>3, <2>4, <2>5 DEF QueueWhole, Whole, WholeBut, Listed, Settled
<1>6. CASE TailForce
  <2> DEFINE t == First(DOMAIN sq.deferred)
             f == sq.deferred[t]
  <2>1. DOMAIN sq.deferred \subseteq Setscene /\ DOMAIN sq.deferred # {}
    BY <1>6 DEF TailForce, TypeOK, SceneQueueType
  <2>2. t \in DOMAIN sq.deferred
    BY <2>1, FirstIsMember
  <2>3. t \in Setscene /\ f \in Setscene
    BY <2>1, <2>2 DEF TypeOK, SceneQueueType
  <2>4. sq' = SqFailOutrightAll(Undeferred(t), {f})
    BY <1>6 DEF TailForce
  <2>5. migrating' = migrating
    BY <1>6 DEF TailForce
  <2> HIDE DEF t, f
  <2> QED
    BY <2>3, <2>4, <2>5, ReconsideredWhole DEF QueueWhole
<1>7. CASE Environment \/ UpdateHoldoff \/ Stopped \/ UNCHANGED vars
  BY <1>1, <1>7
     DEF Environment, TaskSucceeds, TaskFails, TaskEnds, WorkerDies, UserInterrupts,
         UpdateHoldoff, Stopped
<1>8. CASE ReadUniHash \/ ReadDone \/ BeginPass \/ Finish \/ Return \/ Check \/ TearDown
  BY <1>1, <1>8 DEF ReadUniHash, ReadDone, BeginPass, Finish, Return, Check, TearDown
<1>9. CASE Rehash \/ NothingToRehash \/ SceneNone \/ \E t \in Setscene : MigrateNot(t)
  <2>1. sq' = sq
    BY <1>9 DEF Rehash, NothingToRehash, SceneNone, MigrateNot
  <2>2. CASE Rehash
    <3>1. migrating'.harddepfail = {}
      BY <2>2 DEF Rehash
    <3>2. migrating.harddepfail = {}
      BY <2>2 DEF Rehash, Coherent, PendingRight, NotMigrating
    <3> QED
      BY <1>1, <2>1, <3>1, <3>2
  <2>3. ASSUME NEW t \in Setscene, MigrateNot(t) PROVE QueueWhole'
    <3>1. migrating'.harddepfail = migrating.harddepfail
      BY <2>3 DEF MigrateNot, TypeOK
    <3> QED
      BY <1>1, <2>1, <3>1
  <2>4. CASE NothingToRehash \/ SceneNone
    BY <1>1, <2>1, <2>4 DEF NothingToRehash, SceneNone
  <2> QED
    BY <1>9, <2>2, <2>3, <2>4
<1>10. CASE Normal
  BY <1>1, <1>10 DEF Normal, NormalNone, WriteCrash, Crash, TaskWhitelistFail, TaskCovered,
                     TaskExisting, TaskNoexec, TaskStart, CompleteAtOnce
<1>11. CASE TailWait \/ TailDone
  BY <1>1, <1>11 DEF TailWait, TailDone
<1> QED
  BY <1>2, <1>3, <1>4, <1>5, <1>6, <1>7, <1>8, <1>9, <1>10, <1>11,
     ReadExitWhole, MigrateWhole, MigrateDoneWhole
     DEF Next, Read, Loop, Migration, Scene, TailEnd

LEMMA WholeAlways == Spec => []QueueWhole
<1>1. Init => QueueWhole
  BY NewSceneQueueWhole DEF Init, QueueWhole, NotMigrating
<1>2. TypeOK /\ Coherent /\ DependenciesComplete /\ QueueWhole /\ [Next]_vars => QueueWhole'
  BY WholeStep
<1> QED
  BY <1>1, <1>2, CoherentAlways, TypeCorrect, DependenciesCompleteAlways, PTL DEF Spec

-----------------------------------------------------------------------------
(* What update_holdofftasks computed last is exactly what it would compute   *)
(* now, until the queue changes.                                            *)
HoldoffExact ==
  ~holdoff_need_update /\ ~migrating.changed =>
    /\ tasks_covered = NewCovered /\ tasks_notcovered = NewNotCovered
    /\ {t \in tasks_covered \cup tasks_notcovered : Depends[t] = {}} \subseteq runq_buildable
    /\ Setscene \subseteq Settled(sq) => holdoff_tasks = {}

LEMMA ExactFrame ==
  ASSUME HoldoffExact, UNCHANGED holdvars, sq'.covered = sq.covered,
         sq'.notcovered = sq.notcovered, sq'.done = sq.done,
         runq_buildable \subseteq runq_buildable', migrating.changed => migrating'.changed
  PROVE  HoldoffExact'
<1>1. NewCovered' = NewCovered /\ NewNotCovered' = NewNotCovered /\ Settled(sq') = Settled(sq)
  BY DEF NewCovered, NewNotCovered, CoveredBy, Settled
<1> QED
  BY <1>1 DEF HoldoffExact

LEMMA HoldoffExactStep == TypeOK /\ Coherent /\ HoldoffExact /\ [Next]_vars => HoldoffExact'
<1> SUFFICES ASSUME TypeOK, Coherent, HoldoffExact, [Next]_vars PROVE HoldoffExact'
  OBVIOUS
<1>1. (holdoff_need_update' = TRUE \/ migrating'.changed) => HoldoffExact'
  BY DEF HoldoffExact
<1>2. CASE Environment
  BY <1>2, ExactFrame
     DEF Environment, TaskSucceeds, TaskFails, TaskEnds, WorkerDies, UserInterrupts
<1>3. CASE Read
  <2>1. ASSUME NEW t \in Tasks, ReadExit(t) PROVE HoldoffExact'
    BY <1>1, <2>1, ExactFrame DEF ReadExit, SetsceneExit, TaskExit
  <2> QED
    BY <1>3, <2>1, ExactFrame DEF Read, ReadUniHash, ReadDone
<1>4. CASE SceneInit
  BY <1>1, <1>4 DEF SceneInit, Coherent, EarlyRight
<1>5. CASE BeginPass \/ Finish \/ Return \/ Check \/ TearDown
  BY <1>5, ExactFrame DEF BeginPass, Finish, Return, Check, TearDown
<1>6. CASE Rehash
  <2>1. ~migrating.changed
    BY <1>6 DEF Rehash, Coherent, PendingRight, NotMigrating
  <2> QED
    BY <1>6, <2>1, ExactFrame DEF Rehash
<1>7. CASE NothingToRehash
  BY <1>7, ExactFrame DEF NothingToRehash
<1>8. ASSUME NEW t \in Setscene, MigrateNot(t) PROVE HoldoffExact'
  <2>1. migrating'.changed = migrating.changed
    BY <1>8 DEF MigrateNot, TypeOK
  <2> QED
    BY <1>8, <2>1, ExactFrame DEF MigrateNot
<1>9. ASSUME NEW t \in Setscene, Migrate(t) PROVE HoldoffExact'
  <2>1. Reopen(t)
    BY <1>9, NothingSkipped DEF Migrate
  <2> QED
    BY <1>1, <2>1 DEF Reopen
<1>10. CASE MigrateDone
  <2>1. holdoff_need_update' = HoldoffStale
    BY <1>10 DEF MigrateDone
  <2>2. CASE HoldoffStale
    BY <1>1, <2>1, <2>2 DEF HoldoffStale, TypeOK
  <2>3. CASE ~HoldoffStale
    <3>1. migrating.update = {} /\ ~holdoff_need_update /\ ~migrating.changed
      BY <2>3 DEF HoldoffStale, Coherent, PendingRight
    <3>2. holdoff_need_update' = holdoff_need_update
      BY <2>1, <2>3, <3>1 DEF TypeOK, HoldoffStale
    <3> QED
      BY <1>10, <3>1, <3>2, ExactFrame DEF MigrateDone
  <2> QED
    BY <2>2, <2>3
<1>11. CASE SceneNone
  BY <1>11, ExactFrame DEF SceneNone
<1>12. ASSUME NEW t \in Setscene, SceneStart(t) PROVE HoldoffExact'
  <2> DEFINE q == Retried(t)
  <2>1. SameDecisions(sq, q)
    BY UndeferredSame
  <2>2. sq' = [q EXCEPT !.running = @ \cup {t}, !.live = @ \cup {t}]
    BY <1>12 DEF SceneStart
  <2> HIDE DEF q
  <2>3. sq'.covered = sq.covered /\ sq'.notcovered = sq.notcovered /\ sq'.done = sq.done
    BY <2>1, <2>2 DEF SameDecisions, SceneQueueType
  <2> QED
    BY <1>12, <2>3, ExactFrame DEF SceneStart
<1>13. ASSUME NEW t \in Setscene,
              \/ SceneNotNeeded(t) \/ SceneStaysInvalid(t) \/ SceneOutrightFail(t)
              \/ SceneRunInstead(t) \/ SceneSkip(t)
       PROVE  HoldoffExact'
  BY <1>1, <1>13 DEF SceneNotNeeded, SceneStaysInvalid, SceneOutrightFail, SceneRunInstead,
                     SceneSkip, SceneSettles
<1>14. CASE UpdateHoldoff
  <2>1. NewCovered' = NewCovered /\ NewNotCovered' = NewNotCovered /\ Settled(sq') = Settled(sq)
    BY <1>14 DEF UpdateHoldoff, NewCovered, NewNotCovered, CoveredBy, Settled
  <2>2. CASE holdoff_need_update
    <3>1. /\ tasks_notcovered' = NewNotCovered /\ tasks_covered' = NewCovered
          /\ holdoff_tasks' = NewHoldoff
          /\ runq_buildable' = runq_buildable \cup {t \in NewNotCovered \cup NewCovered :
                                                      Depends[t] \subseteq runq_complete}
      BY <1>14, <2>2 DEF UpdateHoldoff
    <3>2. Setscene \subseteq Settled(sq) => NewHoldoff = {}
      BY DEF NewHoldoff, CoveredBy
    <3> QED
      BY <2>1, <3>1, <3>2 DEF HoldoffExact
  <2>3. CASE ~holdoff_need_update
    <3>1. /\ UNCHANGED <<holdoff_tasks, tasks_covered, tasks_notcovered, sq, migrating>>
          /\ runq_buildable \subseteq runq_buildable'
      BY <1>14, <2>3 DEF UpdateHoldoff
    <3> QED
      BY <2>1, <2>3, <3>1 DEF HoldoffExact
  <2> QED
    BY <2>2, <2>3
<1>15. CASE Normal
  BY <1>15, ExactFrame DEF Normal, NormalNone, WriteCrash, Crash, TaskWhitelistFail, TaskCovered,
                           TaskExisting, TaskNoexec, TaskStart, CompleteAtOnce
<1>16. CASE TailForce
  BY <1>1, <1>16 DEF TailForce
<1>17. CASE TailWait \/ TailDone \/ Stopped \/ UNCHANGED vars
  BY <1>17, ExactFrame DEF TailWait, TailDone, Stopped
<1> QED
  BY <1>2, <1>3, <1>4, <1>5, <1>6, <1>7, <1>8, <1>9, <1>10, <1>11, <1>12, <1>13, <1>14, <1>15,
     <1>16, <1>17 DEF Next, Loop, Migration, Scene, TailEnd

LEMMA HoldoffExactAlways == Spec => []HoldoffExact
<1>1. Init => HoldoffExact
  BY DEF Init, HoldoffExact
<1> QED
  BY <1>1, HoldoffExactStep, CoherentAlways, TypeCorrect, PTL DEF Spec

(* A plain task the endpoints do not need directly is covered by a setscene *)
(* task.                                                                    *)
LEMMA PlainReached ==
  ASSUME NEW d \in Tasks \ (Setscene \cup Unskippable)
  PROVE  \E s \in Setscene : d \in SqCoveredTasks[s]
<1> DEFINE S == {t \in Tasks \ (Setscene \cup Unskippable) :
                   \A s \in Setscene : t \notin SqCoveredTasks[s]}
<1>1. SUFFICES ASSUME S # {} PROVE FALSE
  OBVIOUS
<1>2. PICK t \in S : Revdeps(t) \cap S = {}
  <2>1. S \in SUBSET Tasks
    OBVIOUS
  <2> HIDE DEF S
  <2> QED
    BY <1>1, <2>1, TopmostTask
<1>3. PICK r \in Revdeps(t) : TRUE
  BY UnskippableClosure DEF Endpoints
<1>4. t \in Depends[r] /\ t \notin Setscene /\ t \notin Unskippable /\ r \in Tasks /\ r \notin S
  BY <1>2, <1>3 DEF Revdeps
<1>5. r \notin Setscene
  BY <1>4, CoveredClosure
<1>6. r \notin Unskippable
  BY <1>4, <1>5, UnskippableClosure
<1>7. PICK s \in Setscene : r \in SqCoveredTasks[s]
  BY <1>4, <1>5, <1>6
<1> QED
  BY <1>4, <1>7, CoveredClosure

(* A queue that has settled everything is done with everything.             *)
LEMMA AllDone ==
  ASSUME NEW q \in SceneQueueType, NEW X, Whole(q, X), Setscene \subseteq Settled(q)
  PROVE  Tasks \subseteq q.done
<1> DEFINE S == Tasks \ q.done
<1>1. SUFFICES ASSUME S # {} PROVE FALSE
  OBVIOUS
<1>2. PICK t \in S : Revdeps(t) \cap S = {}
  BY <1>1, TopmostTask
<1>3. t \notin Setscene /\ Revdeps(t) \subseteq q.done
  BY <1>2 DEF Whole, WholeBut, Revdeps
<1> QED
  BY <1>2, <1>3 DEF Whole, WholeBut, WaysOpen

(* Then every task is covered or not covered.                               *)
LEMMA AllDecided ==
  ASSUME TypeOK, QueueWhole, Setscene \subseteq Settled(sq)
  PROVE  Tasks \subseteq NewCovered \cup NewNotCovered
<1>1. sq.done = Tasks
  BY AllDone DEF QueueWhole, TypeOK, SceneQueueType
<1>2. ASSUME NEW t \in Tasks
      PROVE  \/ t \in sq.covered \cup CoveredBy(sq.covered)
             \/ t \in sq.notcovered \cup CoveredBy(sq.notcovered) \cup (Unskippable \ Setscene)
  <2>1. CASE t \in Setscene \/ t \in Unskippable
    BY <2>1 DEF Settled
  <2>2. CASE t \notin Setscene /\ t \notin Unskippable
    <3>1. PICK s \in Setscene : t \in SqCoveredTasks[s]
      BY <2>2, PlainReached
    <3> QED
      BY <3>1 DEF Settled, CoveredBy
  <2> QED
    BY <2>1, <2>2
<1> QED
  BY <1>1, <1>2 DEF NewCovered, NewNotCovered

(* When the scene queue is through, summarise_scenequeue_errors finds none. *)
LEMMA NoSceneErrors ==
  ASSUME TypeOK, Coherent, QueueWhole, HoldoffExact, UpdateHoldoff, ScenesThrough(holdoff_tasks')
  PROVE  ~SceneErrors(tasks_covered', tasks_notcovered', runq_buildable', holdoff_tasks')
<1>1. migrating = NotMigrating /\ ~migrating.changed
  BY DEF UpdateHoldoff, Coherent, PendingRight, NotMigrating
<1>2. /\ NewHoldoff \subseteq holdoff_tasks' /\ holdoff_tasks' = {}
      /\ tasks_covered' = NewCovered /\ tasks_notcovered' = NewNotCovered
      /\ {t \in tasks_covered' \cup tasks_notcovered' : Depends[t] = {}} \subseteq runq_buildable'
      /\ DOMAIN sq.deferred = {} /\ updated_taskhash_queue = {}
  <2>1. CASE holdoff_need_update
    BY <2>1 DEF UpdateHoldoff, ScenesThrough
  <2>2. CASE ~holdoff_need_update
    BY <1>1, <2>2 DEF UpdateHoldoff, ScenesThrough, HoldoffExact, Coherent, HoldoffFresh
  <2> QED
    BY <2>1, <2>2
<1>3. Setscene \subseteq Settled(sq)
  BY <1>2 DEF NewHoldoff
<1>4. Settled(sq) \subseteq sq.running /\ Settled(sq) \subseteq sq.buildable
  BY DEF Coherent, QueueRight, QueueSound, OnBooks, QueueWhole, Whole, WholeBut
<1>5. Tasks \subseteq sq.done /\ Tasks \subseteq NewCovered \cup NewNotCovered
  BY <1>3, AllDone, AllDecided DEF QueueWhole, TypeOK
<1> QED
  BY <1>2, <1>3, <1>4, <1>5 DEF SceneErrors

-----------------------------------------------------------------------------
(* How a build ends.                                                        *)

(* While the worker lives and nobody forces an end: the outcome is only     *)
(* settled with nothing running, "Complete" with everything complete, and   *)
(* only a failure makes an undisturbed build stop early.                    *)
EndsRight ==
  /\ SetsceneOnly => runq_running = {}
  /\ worker = "up" /\ interrupt # 2 =>
       /\ rqstate \in {"Failed", "Complete"} \/ pc = "teardown" =>
            procs = {} /\ pc \in {"return", "check", "teardown", "end"}
       /\ interrupt = 0 /\ ~SetsceneOnly =>
            /\ rqstate = "Complete" => runq_complete = Tasks
            /\ rqstate = "CleanUp" \/ pc = "finish" => failed_tids # {}

(* A step that does not touch what it speaks of.                            *)
LEMMA EndsFrame ==
  ASSUME EndsRight, UNCHANGED <<rqstate, interrupt, worker, procs>>,
         runq_running' = runq_running \/ ~SetsceneOnly, runq_complete' = runq_complete,
         failed_tids \subseteq failed_tids',
         \/ pc' = pc
         \/ /\ pc \notin {"return", "check", "teardown", "end"}
            /\ pc' \notin {"finish", "teardown", "end"}
  PROVE  EndsRight'
BY DEF EndsRight

(* Nothing is counted when nothing runs.                                    *)
LEMMA NothingActive ==
  ASSUME TypeOK, Counted, worker = "up", active + sqactive <= 0
  PROVE  procs = {} /\ active = 0 /\ sqactive = 0
<1>1. /\ IsFiniteSet(ProcsOf("task")) /\ IsFiniteSet(ProcsOf("setscene"))
  BY FS_Subset DEF Counted, ProcsOf
<1>2. active = Cardinality(ProcsOf("task")) /\ sqactive = Cardinality(ProcsOf("setscene"))
  BY DEF Counted
<1>3. active \in Nat /\ sqactive \in Nat
  BY <1>1, <1>2, FS_CardinalityType
<1>4. active = 0 /\ sqactive = 0
  BY <1>3
<1>5. ProcsOf("task") = {} /\ ProcsOf("setscene") = {}
  BY <1>1, <1>2, <1>4, FS_EmptySet
<1> QED
  BY <1>4, <1>5 DEF ProcsOf, TypeOK, Processes

LEMMA EndsStep ==
  ASSUME ~SceneEnforced, TypeOK, Coherent, Counted, QueueWhole, HoldoffExact, EndsRight,
         [Next]_vars
  PROVE  EndsRight'
<1>1. /\ \A st : worker = "up" => StateOnRead(st) = st
      /\ FinalState = "Complete" <=> failed_tids = {}
      /\ FinalState \in {"Failed", "Complete"}
  BY DEF StateOnRead, FinalState
<1>2. CASE Environment
  <2>1. ASSUME NEW p \in procs, p.status = "run", NEW status, NEW h, TaskEnds(p, status, h)
        PROVE  EndsRight'
    BY <2>1 DEF TaskEnds, EndsRight
  <2>2. CASE WorkerDies
    BY <2>2 DEF WorkerDies, EndsRight
  <2>3. ASSUME NEW how \in {1, 2}, UserInterrupts(how) PROVE EndsRight'
    BY <2>3 DEF UserInterrupts, EndsRight, TypeOK
  <2> QED
    BY <1>2, <2>1, <2>2, <2>3 DEF Environment, TaskSucceeds, TaskFails
<1>3. CASE Read
  <2>1. ASSUME NEW t \in Tasks, ReadExit(t) PROVE EndsRight'
    <3>1. procs # {} /\ pc' = pc /\ pc # "finish"
      BY <2>1 DEF ReadExit, Reading
    <3>2. UNCHANGED <<interrupt, worker, runq_running>>
      BY <2>1 DEF ReadExit, SetsceneExit, TaskExit
    <3>3. \/ rqstate' = rqstate /\ failed_tids' = failed_tids
          \/ rqstate' \in {rqstate, "CleanUp"} /\ failed_tids' # {}
      BY <2>1 DEF ReadExit, SetsceneExit, TaskExit, TaskFailState, NowFailed
    <3> QED
      BY <3>1, <3>2, <3>3 DEF EndsRight
  <2> QED
    BY <1>3, <2>1, EndsFrame DEF Read, ReadUniHash, ReadDone
<1>4. CASE SceneInit
  BY <1>4 DEF SceneInit, EndsRight
<1>5. CASE BeginPass
  BY <1>1, <1>5 DEF BeginPass, EndsRight, Coherent, EarlyRight
<1>6. CASE Finish
  <2>1. CASE ActiveNow > 0
    BY <1>1, <1>6, <2>1 DEF Finish, EndsRight
  <2>2. CASE ~(ActiveNow > 0)
    <3>1. active + sqactive <= 0
      BY <2>2 DEF ActiveNow, TypeOK
    <3>2. worker = "up" => procs = {}
      BY <3>1, NothingActive
    <3>3. /\ rqstate' = FinalState /\ pc = "finish" /\ pc' = "check"
          /\ UNCHANGED <<interrupt, procvars, runqvars>>
      BY <1>6, <2>2 DEF Finish
    <3> QED
      BY <1>1, <3>2, <3>3 DEF EndsRight
  <2> QED
    BY <2>1, <2>2
<1>7. CASE Return \/ Check
  BY <1>7 DEF Return, Check, EndsRight
<1>8. CASE TearDown \/ WriteCrash
  BY <1>8 DEF TearDown, WriteCrash, Crash, EndsRight
<1>9. CASE Rehash \/ NothingToRehash \/ MigrateDone \/ \E t \in Setscene : MigrateNot(t)
  BY <1>9, EndsFrame DEF Rehash, NothingToRehash, MigrateDone, MigrateNot
<1>10. ASSUME NEW t \in Setscene, Migrate(t) PROVE EndsRight'
  <2>1. Reopen(t) /\ MayMigrate(t)
    BY <1>10, NothingSkipped DEF Migrate
  <2> QED
    BY <1>10, <2>1, EndsFrame DEF Migrate, Reopen, MayMigrate
<1>11. CASE SceneNone \/ \E t \in Setscene :
              \/ SceneNotNeeded(t) \/ SceneStaysInvalid(t) \/ SceneOutrightFail(t)
              \/ SceneRunInstead(t) \/ SceneSkip(t)
  <2>1. pc = "scene" /\ pc' \in {"holdoff", "return"}
    BY <1>11 DEF SceneNone, SceneSettles, SceneNotNeeded, SceneStaysInvalid, SceneOutrightFail,
                 SceneRunInstead, SceneSkip, SceneChosen, SceneNext
  <2>2. UNCHANGED <<rqstate, interrupt, procvars, runqvars>>
    BY <1>11 DEF SceneNone, SceneSettles, SceneNotNeeded, SceneStaysInvalid, SceneOutrightFail,
                 SceneRunInstead, SceneSkip
  <2> QED
    BY <2>1, <2>2, EndsFrame
<1>12. ASSUME NEW t \in Setscene, SceneStart(t) PROVE EndsRight'
  <2>1. /\ pc = "scene" /\ pc' \in {"return", "holdoff"}
        /\ UNCHANGED <<rqstate, interrupt, worker, runqvars>>
    BY <1>12 DEF SceneStart, MustRestore, SceneChosen, SceneNext
  <2> QED
    BY <2>1 DEF EndsRight
<1>13. CASE UpdateHoldoff
  <2>1. /\ pc = "holdoff" /\ pc' \in {"return", "normal"}
        /\ UNCHANGED <<interrupt, procvars, runq_running, runq_complete, failed_tids>>
    BY <1>13 DEF UpdateHoldoff
  <2>2. rqstate' = rqstate \/ (sq.live = {} /\ SetsceneOnly /\ pc' = "return")
    <3>1. \/ rqstate' = rqstate
          \/ /\ ScenesThrough(holdoff_tasks') /\ pc' = "return"
             /\ \/ SceneErrors(tasks_covered', tasks_notcovered', runq_buildable', holdoff_tasks')
                \/ SetsceneOnly
      BY <1>13 DEF UpdateHoldoff
    <3> QED
      BY <1>13, <3>1, NoSceneErrors DEF ScenesThrough
  <2>3. sq.live = {} /\ SetsceneOnly => procs = {}
    BY DEF EndsRight, Coherent, ProcsRight, InProgress
  <2> QED
    BY <2>1, <2>2, <2>3 DEF EndsRight
<1>14. ASSUME NEW t \in Tasks,
              TaskCovered(t) \/ TaskExisting(t) \/ TaskNoexec(t) \/ TaskStart(t)
       PROVE  EndsRight'
  <2>1. Scheduled(t)
    BY <1>14 DEF TaskCovered, TaskExisting, TaskNoexec, TaskStart, MustRun
  <2>2. pc = "normal" /\ ~SetsceneOnly
    BY <2>1 DEF Scheduled
  <2>3. /\ pc' \in {"return", "tail"} /\ UNCHANGED <<rqstate, interrupt, worker, failed_tids>>
    BY <1>14 DEF TaskCovered, TaskExisting, TaskNoexec, TaskStart, CompleteAtOnce
  <2> QED
    BY <2>2, <2>3 DEF EndsRight
<1>15. CASE NormalNone \/ TailForce \/ Stopped \/ UNCHANGED vars
  BY <1>15, EndsFrame DEF NormalNone, TailForce, Idle, Stopped
<1>16. \A t \in Tasks : ~TaskWhitelistFail(t)
  BY DEF TaskWhitelistFail, WhitelistFails
<1>17. CASE TailWait
  BY <1>1, <1>17 DEF TailWait, EndsRight
<1>18. CASE TailDone
  <2>1. active + sqactive <= 0 /\ pc' = "return"
    BY <1>18 DEF TailDone, Idle, TypeOK
  <2>2. worker = "up" => procs = {}
    BY <2>1, NothingActive
  <2>3. /\ rqstate' \in {"Failed", "Complete"}
        /\ rqstate' = "Complete" => Tasks \subseteq runq_complete
        /\ UNCHANGED <<interrupt, procvars, runqvars>>
    BY <1>18 DEF TailDone
  <2> QED
    BY <2>1, <2>2, <2>3 DEF EndsRight, TypeOK
<1> QED
  BY <1>2, <1>3, <1>4, <1>5, <1>6, <1>7, <1>8, <1>9, <1>10, <1>11, <1>12, <1>13, <1>14, <1>15,
     <1>16, <1>17, <1>18 DEF Next, Loop, Migration, Scene, Normal, TailEnd

LEMMA EndsAlways == ~SceneEnforced => (Spec => []EndsRight)
<1> SUFFICES ASSUME ~SceneEnforced PROVE Spec => []EndsRight
  OBVIOUS
<1>1. Init => EndsRight
  BY DEF Init, EndsRight
<1>2. /\ TypeOK /\ Coherent /\ Counted /\ QueueWhole /\ HoldoffExact /\ EndsRight /\ [Next]_vars
      => EndsRight'
  BY EndsStep
<1>3. Spec => []Counted
  BY CountedAlways
<1> QED
  BY <1>1, <1>2, <1>3, TypeCorrect, CoherentAlways, WholeAlways, HoldoffExactAlways, PTL DEF Spec

(* Without BB_SETSCENE_ENFORCE, whose failures lower the count of what is   *)
(* active below what runs: a build that nobody interrupted, and whose       *)
(* worker lives, is only Complete when every task is complete and nothing   *)
(* is left running, whatever was restored, reconsidered or deferred on the  *)
(* way (the end of execute, finish, the branch that abandons a build).      *)
THEOREM CompleteMeansBuiltAlways == ~SceneEnforced => (Spec => []CompleteMeansBuilt)
<1> SUFFICES ASSUME ~SceneEnforced PROVE Spec => []CompleteMeansBuilt
  OBVIOUS
<1>1. EndsRight => CompleteMeansBuilt
  BY DEF EndsRight, CompleteMeansBuilt, Undisturbed
<1>2. Spec => []EndsRight
  BY EndsAlways
<1> QED
  BY <1>1, <1>2, PTL

(* Nor does a build that stops, for a failure, at the user's first request  *)
(* or because all is done, leave what it has started unwaited for (finish,  *)
(* execute_runqueue).                                                       *)
THEOREM StopWaitsAlways == ~SceneEnforced => (Spec => []StopWaits)
<1> SUFFICES ASSUME ~SceneEnforced PROVE Spec => []StopWaits
  OBVIOUS
<1>1. EndsRight => StopWaits
  BY DEF EndsRight, StopWaits
<1>2. Spec => []EndsRight
  BY EndsAlways
<1> QED
  BY <1>1, <1>2, PTL

-----------------------------------------------------------------------------
(* A failure does what it must and no more.                                 *)

(* The metadata does not have setscene tasks depend explicitly on each other *)
(* in a circle.                                                             *)
HardDepsAcyclic ==
  \A S \in SUBSET Setscene : S # {} => \E s \in S : \A d \in S : s \notin HardDeps[d]

(* Then, because a task that others explicitly depend upon loses its other   *)
(* reverse dependencies (build_scenequeue_data), some undecided setscene     *)
(* task waits for no other one, however the two kinds are mixed.             *)
LEMMA SomeSceneFirst ==
  ASSUME HardDepsAcyclic, NEW S \in SUBSET Setscene, S # {}
  PROVE  \E s \in S : SqRevdeps[s] \cap S = {}
<1> DEFINE H == {s \in S : HardDeps[s] # {}}
<1>1. CASE H # {}
  <2>1. PICK s \in H : \A d \in H : s \notin HardDeps[d]
    BY <1>1 DEF HardDepsAcyclic
  <2>2. SqRevdeps[s] = {d \in Setscene : s \in HardDeps[d]}
    BY <2>1 DEF SqRevdeps
  <2> QED
    BY <2>1, <2>2
<1>2. CASE H = {}
  <2> DEFINE T == S \cup CoveredBy(S)
  <2>1. T \in SUBSET Tasks /\ T # {}
    BY ClosureTypes DEF CoveredBy
  <2>2. PICK t \in T : Revdeps(t) \cap T = {}
    BY <2>1, TopmostTask
  <2>3. t \in S
    <3>1. ASSUME NEW s \in S, t \in SqCoveredTasks[s] PROVE FALSE
      <4>1. PICK r \in {s} \cup SqCoveredTasks[s] : t \in Depends[r]
        BY <3>1, CoveredFrom
      <4> QED
        BY <2>1, <2>2, <4>1 DEF Revdeps, CoveredBy
    <3> QED
      BY <3>1 DEF CoveredBy
  <2>4. ASSUME NEW r \in S, r \in SqRevdeps[t] PROVE FALSE
    <3>1. r \in SquashedRevdeps(t)
      BY <1>2, <2>3, <2>4 DEF SqRevdeps
    <3>2. PICK x \in {r} \cup SqCoveredTasks[r] : t \in Depends[x]
      BY <3>1 DEF SquashedRevdeps, DependsOfAll
    <3> QED
      BY <2>1, <2>2, <2>4, <3>2 DEF Revdeps, CoveredBy
  <2> QED
    BY <2>3, <2>4
<1> QED
  BY <1>1, <1>2

(* What is live only changes when a setscene task is started or its end read.*)
LEMMA LiveStays ==
  ASSUME TypeOK, Coherent, [Next]_vars,
         \A t \in Tasks : ~ReadExit(t), \A t \in Setscene : ~SceneStart(t)
  PROVE  sq'.live = sq.live
<1>1. CASE sq' = sq
  BY <1>1
<1>2. CASE Grows(sq, sq')
  BY <1>2 DEF Grows, Keeps
<1>3. CASE SceneInit
  <2> DEFINE names == [s \in Setscene |-> StampName(s, "setscene", unihash[s])]
             new   == NewSceneQueue(names)
  <2>1. sq' \in UpdatedScenes(new, Setscene)
    BY <1>3 DEF SceneInit
  <2>2. new \in SceneQueueType
    BY ClosureTypes, StampNameType, NewSceneQueueType DEF TypeOK
  <2>3. new.live = {}
    BY DEF NewSceneQueue
  <2>4. sq.live = {}
    <3>1. sqactive = 0
      BY <1>3 DEF SceneInit, Coherent, EarlyRight
    <3>2. IsFiniteSet(sq.live)
      BY SetsceneFinite, FS_Subset DEF TypeOK, SceneQueueType
    <3> QED
      BY <3>1, <3>2, FS_EmptySet DEF Coherent, ProcsRight
  <2> HIDE DEF new
  <2>5. Grows(new, sq')
    BY <2>1, <2>2, UpdatedScenesSound
  <2> QED
    BY <2>3, <2>4, <2>5 DEF Grows, Keeps
<1>4. ASSUME NEW t \in Setscene, Migrate(t) PROVE sq'.live = sq.live
  <2>1. Reopen(t)
    BY <1>4, NothingSkipped DEF Migrate
  <2> QED
    BY <2>1 DEF Reopen, Unsettled, TypeOK, SceneQueueType
<1>5. CASE MigrateDone
  BY <1>2, <1>5, MigrateDoneSettles DEF Coherent
<1>6. ASSUME NEW t \in Setscene,
             \/ SceneStaysInvalid(t) \/ SceneOutrightFail(t)
             \/ SceneRunInstead(t) \/ SceneSkip(t)
      PROVE  Grows(sq, sq')
  BY <1>6, ReconsideredGrows
     DEF SceneStaysInvalid, SceneOutrightFail, SceneRunInstead, SceneSkip, SceneSettles
<1>7. ASSUME NEW t \in Setscene, SceneNotNeeded(t) PROVE sq'.live = sq.live
  <2> DEFINE r == SqSkipAll(Undeferred(t), {t})
  <2>1. sq' = [r EXCEPT !.notneeded = @ \cup {t}]
    BY <1>7 DEF SceneNotNeeded, SceneSettles
  <2>2. Grows(sq, r)
    BY ReconsideredGrows
  <2> HIDE DEF r
  <2> QED
    BY <2>1, <2>2 DEF Grows, Keeps, SceneQueueType
<1>8. CASE TailForce
  <2> DEFINE t == First(DOMAIN sq.deferred)
             f == sq.deferred[t]
  <2>1. DOMAIN sq.deferred \subseteq Setscene /\ DOMAIN sq.deferred # {}
    BY <1>8 DEF TailForce, TypeOK, SceneQueueType
  <2>2. t \in DOMAIN sq.deferred
    BY <2>1, FirstIsMember
  <2>3. t \in Setscene /\ f \in Setscene
    BY <2>1, <2>2 DEF TypeOK, SceneQueueType
  <2>4. sq' = SqFailOutrightAll(Undeferred(t), {f})
    BY <1>8 DEF TailForce
  <2> HIDE DEF t, f
  <2> QED
    BY <1>2, <2>3, <2>4, ReconsideredGrows
<1>9. CASE Environment
  BY <1>1, <1>9
     DEF Environment, TaskSucceeds, TaskFails, TaskEnds, WorkerDies, UserInterrupts
<1>10. CASE ReadUniHash \/ ReadDone \/ UpdateHoldoff \/ Stopped \/ UNCHANGED vars
  BY <1>1, <1>10 DEF ReadUniHash, ReadDone, UpdateHoldoff, Stopped
<1>11. CASE BeginPass \/ Finish \/ Return \/ Check \/ TearDown
  BY <1>1, <1>11 DEF BeginPass, Finish, Return, Check, TearDown
<1>12. CASE Rehash \/ NothingToRehash \/ SceneNone \/ \E t \in Setscene : MigrateNot(t)
  BY <1>1, <1>12 DEF Rehash, NothingToRehash, SceneNone, MigrateNot
<1>13. CASE Normal
  BY <1>1, <1>13 DEF Normal, NormalNone, WriteCrash, Crash, TaskWhitelistFail, TaskCovered,
                     TaskExisting, TaskNoexec, TaskStart, CompleteAtOnce
<1>14. CASE TailWait \/ TailDone
  BY <1>1, <1>14 DEF TailWait, TailDone
<1> QED
  BY <1>2, <1>3, <1>4, <1>5, <1>6, <1>7, <1>8, <1>9, <1>10, <1>11, <1>12, <1>13, <1>14
     DEF Next, Read, Loop, Migration, Scene, TailEnd

(* The tasks that have been started and have neither ended nor failed.      *)
Ongoing == {t \in Tasks : InProgress(t) /\ t \notin failed_tids}

(* A task that failed stays in progress; what else is in progress is counted *)
(* as active, whether the worker lives or not, and its stamp is remembered   *)
(* for no longer than it is, or its setscene variant is live.                *)
AccountsRight ==
  /\ failed_tids \subseteq {t \in Tasks : InProgress(t)}
  /\ active = Cardinality(Ongoing)
  /\ \A p \in procs : p.kind = "task" => p.task \in Ongoing
  /\ DOMAIN build_stamps \subseteq Ongoing \cup sq.live

LEMMA OngoingFinite == IsFiniteSet(Ongoing)
BY DependsAssumption, FS_Subset DEF Ongoing

LEMMA AccountsFrame ==
  ASSUME AccountsRight, UNCHANGED <<active, failed_tids, runq_running, runq_complete>>,
         \A p \in procs' : \E q \in procs : q.task = p.task /\ q.kind = p.kind,
         DOMAIN build_stamps' \subseteq DOMAIN build_stamps, sq.live \subseteq sq'.live
  PROVE  AccountsRight'
<1>1. Ongoing' = Ongoing
  BY DEF Ongoing, InProgress
<1> QED
  BY <1>1 DEF AccountsRight, InProgress

LEMMA ReadExitAccounts ==
  ASSUME TypeOK, Coherent, AccountsRight, NEW t \in Tasks, ReadExit(t)
  PROVE  AccountsRight'
<1>1. PICK p \in procs : p.task = t /\ procs' = procs \ {p}
  BY DEF ReadExit
<1>2. DOMAIN build_stamps' = DOMAIN build_stamps \ {t}
  BY DEF ReadExit, Without
<1>3. \A q \in procs' : q \in procs /\ q.task # t
  BY <1>1 DEF Coherent, ProcsRight, OneProcessPerTask
<1>4. CASE t \in sq.live
  <2>1. PICK ok \in BOOLEAN : SetsceneExit(t, ok)
    BY <1>4 DEF ReadExit
  <2>2. QueueSound(sq, {})
    BY DEF ReadExit, Reading, Coherent, PendingRight, NotMigrating, QueueRight
  <2>3. sq'.live = sq.live \ {t}
    BY <1>4, <2>1, <2>2, SetsceneExitSettles
  <2>4. UNCHANGED runqvars
    BY <2>1 DEF SetsceneExit
  <2>5. Ongoing' = Ongoing
    BY <2>4 DEF Ongoing, InProgress
  <2> QED
    BY <1>2, <1>3, <2>3, <2>4, <2>5 DEF AccountsRight, InProgress
<1>5. CASE t \notin sq.live
  <2>1. PICK ok \in BOOLEAN : TaskExit(t, ok)
    BY <1>5 DEF ReadExit
  <2>2. t \in Ongoing
    <3>1. p.kind = "task"
      BY <1>1, <1>5, KindIsKnown DEF TypeOK, Processes
    <3> QED
      BY <1>1, <3>1 DEF AccountsRight
  <2>3. /\ active' = active - 1 /\ UNCHANGED <<sq, runq_running>>
        /\ \/ runq_complete' = runq_complete \cup {t} /\ failed_tids' = failed_tids
           \/ runq_complete' = runq_complete /\ failed_tids' = failed_tids \cup {t}
    BY <2>1 DEF TaskExit, NowFailed
  <2>4. Ongoing' = Ongoing \ {t}
    BY <2>3 DEF Ongoing, InProgress
  <2>5. Cardinality(Ongoing \ {t}) = Cardinality(Ongoing) - 1
    BY <2>2, OngoingFinite, FS_RemoveElement
  <2>6. failed_tids' \subseteq {u \in Tasks : InProgress(u)}'
    BY <2>2, <2>3 DEF AccountsRight, Ongoing, InProgress
  <2> QED
    BY <1>2, <1>3, <2>3, <2>4, <2>5, <2>6 DEF AccountsRight
<1> QED
  BY <1>4, <1>5

LEMMA AccountsStep ==
  ASSUME ~SceneEnforced, TypeOK, Coherent, AccountsRight, [Next]_vars
  PROVE  AccountsRight'
<1>1. CASE (\A t \in Tasks : ~ReadExit(t)) /\ (\A t \in Setscene : ~SceneStart(t))
  <2>1. sq'.live = sq.live
    BY <1>1, LiveStays
  <2>2. CASE Environment
    <3>1. ASSUME NEW p \in procs, NEW status, NEW h, TaskEnds(p, status, h)
          PROVE  \A q \in procs' : \E r \in procs : r.task = q.task /\ r.kind = q.kind
      <4> DEFINE e == [p EXCEPT !.status = status]
      <4>1. e.task = p.task /\ e.kind = p.kind /\ procs' = (procs \ {p}) \cup {e}
        BY <3>1 DEF TaskEnds, TypeOK, Processes
      <4> HIDE DEF e
      <4> QED
        BY <4>1
    <3>2. \A q \in procs' : \E r \in procs : r.task = q.task /\ r.kind = q.kind
      BY <2>2, <3>1 DEF Environment, TaskSucceeds, TaskFails, WorkerDies, UserInterrupts
    <3>3. UNCHANGED <<active, failed_tids, runq_running, runq_complete, build_stamps>>
      BY <2>2
         DEF Environment, TaskSucceeds, TaskFails, TaskEnds, WorkerDies, UserInterrupts
    <3> QED
      BY <2>1, <3>2, <3>3, AccountsFrame
  <2>3. CASE Read
    BY <1>1, <2>1, <2>3, AccountsFrame DEF Read, ReadUniHash, ReadDone
  <2>4. CASE Loop
    BY <2>1, <2>4, AccountsFrame
       DEF Loop, SceneInit, BeginPass, Finish, Return, Check, TearDown
  <2>5. CASE Migration
    <3>1. ASSUME NEW t \in Setscene, Migrate(t) PROVE AccountsRight'
      <4>1. Reopen(t)
        BY <3>1, NothingSkipped DEF Migrate
      <4>2. DOMAIN build_stamps' \subseteq DOMAIN build_stamps /\ failed_tids' = failed_tids
        BY <4>1 DEF Reopen, Without
      <4> QED
        BY <2>1, <3>1, <4>2, AccountsFrame DEF Migrate
    <3> QED
      BY <2>1, <2>5, <3>1, AccountsFrame
         DEF Migration, Rehash, NothingToRehash, MigrateDone, MigrateNot
  <2>6. CASE Scene
    BY <1>1, <2>1, <2>6, AccountsFrame
       DEF Scene, SceneNone, SceneSettles, SceneNotNeeded, SceneStaysInvalid,
           SceneOutrightFail, SceneRunInstead, SceneSkip
  <2>7. ASSUME NEW t \in Tasks, TaskCovered(t) \/ TaskExisting(t) \/ TaskNoexec(t)
        PROVE  AccountsRight'
    <3>1. Scheduled(t) /\ \E ran : CompleteAtOnce(t, ran)
      BY <2>7 DEF TaskCovered, TaskExisting, TaskNoexec, MustRun
    <3>2. t \notin runq_running
      BY <3>1 DEF Scheduled, Schedulable
    <3>3. /\ runq_running' = runq_running \cup {t} /\ runq_complete' = runq_complete \cup {t}
          /\ UNCHANGED <<procs, failed_tids, active, build_stamps>>
      BY <3>1 DEF CompleteAtOnce
    <3>4. Ongoing' = Ongoing
      BY <3>2, <3>3 DEF Ongoing, InProgress
    <3>5. failed_tids' \subseteq {u \in Tasks : InProgress(u)}'
      BY <3>2, <3>3 DEF AccountsRight, InProgress
    <3> QED
      BY <2>1, <3>3, <3>4, <3>5 DEF AccountsRight
  <2>8. ASSUME NEW t \in Tasks, TaskStart(t) PROVE AccountsRight'
    <3>1. Scheduled(t)
      BY <2>8 DEF TaskStart, MustRun
    <3>2. t \notin runq_running /\ t \notin runq_complete
      BY <3>1 DEF Scheduled, Schedulable, Coherent, StartedRight
    <3>3. t \notin failed_tids
      BY <3>2 DEF AccountsRight, InProgress
    <3>4. /\ procs' = procs \cup {Process(t, "task", "run", unihash[t])}
          /\ runq_running' = runq_running \cup {t} /\ active' = active + 1
          /\ UNCHANGED <<runq_complete, failed_tids>>
          /\ DOMAIN build_stamps' = DOMAIN build_stamps \cup {t}
      BY <2>8 DEF TaskStart, With
    <3>5. Ongoing' = Ongoing \cup {t} /\ t \notin Ongoing
      BY <3>2, <3>3, <3>4 DEF Ongoing, InProgress
    <3>6. Cardinality(Ongoing \cup {t}) = Cardinality(Ongoing) + 1
      BY <3>5, OngoingFinite, FS_AddElement
    <3>7. \A p \in procs' : p.kind = "task" => p.task \in Ongoing'
      BY <3>4, <3>5 DEF AccountsRight, Process
    <3>8. failed_tids' \subseteq {u \in Tasks : InProgress(u)}'
      BY <3>2, <3>4 DEF AccountsRight, InProgress
    <3> QED
      BY <2>1, <3>4, <3>5, <3>6, <3>7, <3>8 DEF AccountsRight
  <2>9. CASE NormalNone \/ WriteCrash
    BY <2>1, <2>9, AccountsFrame DEF NormalNone, WriteCrash, Crash
  <2>10. \A t \in Tasks : ~TaskWhitelistFail(t)
    BY DEF TaskWhitelistFail, WhitelistFails
  <2>11. CASE UpdateHoldoff \/ TailEnd \/ Stopped \/ UNCHANGED vars
    BY <2>1, <2>11, AccountsFrame
       DEF UpdateHoldoff, TailEnd, TailWait, TailForce, TailDone, Stopped
  <2> QED
    BY <2>2, <2>3, <2>4, <2>5, <2>6, <2>7, <2>8, <2>9, <2>10, <2>11 DEF Next, Normal
<1>2. ASSUME NEW t \in Setscene, SceneStart(t) PROVE AccountsRight'
  <2> DEFINE q == Retried(t)
  <2>1. SameDecisions(sq, q)
    BY UndeferredSame
  <2>2. sq' = [q EXCEPT !.running = @ \cup {t}, !.live = @ \cup {t}]
    BY <1>2 DEF SceneStart
  <2> HIDE DEF q
  <2>3. sq'.live = sq.live \cup {t}
    BY <2>1, <2>2 DEF SameDecisions, SceneQueueType
  <2>4. /\ UNCHANGED runqvars /\ DOMAIN build_stamps' = DOMAIN build_stamps \cup {t}
        /\ procs' = procs \cup {Process(t, "setscene", "run", unihash[t])}
    BY <1>2 DEF SceneStart, With
  <2>5. Ongoing' = Ongoing
    BY <2>4 DEF Ongoing, InProgress
  <2> QED
    BY <2>3, <2>4, <2>5 DEF AccountsRight, Process, InProgress
<1> QED
  BY <1>1, <1>2, ReadExitAccounts

LEMMA AccountsAlways == ~SceneEnforced => (Spec => []AccountsRight)
<1> SUFFICES ASSUME ~SceneEnforced PROVE Spec => []AccountsRight
  OBVIOUS
<1>1. Init => AccountsRight
  <2> SUFFICES ASSUME Init PROVE AccountsRight
    OBVIOUS
  <2>1. Ongoing = {} /\ Cardinality({}) = 0
    BY FS_EmptySet DEF Init, Ongoing, InProgress
  <2> QED
    BY <2>1 DEF Init, AccountsRight
<1>2. TypeOK /\ Coherent /\ AccountsRight /\ [Next]_vars => AccountsRight'
  BY AccountsStep
<1> QED
  BY <1>1, <1>2, TypeCorrect, CoherentAlways, PTL DEF Spec

(* What the scene queue has decided about, and nothing keeps from running,  *)
(* is offered to the scheduler.                                             *)
OfferedRight ==
  /\ runq_running \subseteq runq_buildable
  /\ \A t \in tasks_covered \cup tasks_notcovered :
       Depends[t] \subseteq runq_complete => t \in runq_buildable
  /\ rqstate = "SceneInit" => tasks_covered \cup tasks_notcovered = {}

LEMMA OfferedFrame ==
  ASSUME OfferedRight, UNCHANGED <<runq_running, runq_complete, tasks_covered, tasks_notcovered>>,
         runq_buildable \subseteq runq_buildable',
         rqstate' = "SceneInit" => rqstate = "SceneInit"
  PROVE  OfferedRight'
BY DEF OfferedRight

(* The end of a task offers all that waited for it alone.                   *)
LEMMA OfferedOnCompletion ==
  ASSUME TypeOK, OfferedRight, NEW t \in Tasks,
         runq_complete' = runq_complete \cup {t},
         runq_running' \in {runq_running, runq_running \cup {t}},
         runq_running' \subseteq runq_buildable',
         runq_buildable \cup Unblocked(t, runq_complete', runq_running')
           \subseteq runq_buildable',
         UNCHANGED <<rqstate, tasks_covered, tasks_notcovered>>
  PROVE  OfferedRight'
<1>1. ASSUME NEW u \in tasks_covered \cup tasks_notcovered, Depends[u] \subseteq runq_complete'
      PROVE  u \in runq_buildable'
  <2>1. CASE t \in Depends[u] /\ u \notin runq_running'
    <3>1. u \in Unblocked(t, runq_complete', runq_running')
      BY <1>1, <2>1 DEF Unblocked, Revdeps, TypeOK
    <3> QED
      BY <3>1
  <2>2. CASE t \notin Depends[u]
    BY <1>1, <2>2 DEF OfferedRight
  <2> QED
    BY <2>1, <2>2
<1> QED
  BY <1>1 DEF OfferedRight

LEMMA OfferedStep ==
  ASSUME TypeOK, Coherent, DependenciesComplete, OfferedRight, [Next]_vars
  PROVE  OfferedRight'
<1>1. CASE Environment
  BY <1>1, OfferedFrame
     DEF Environment, TaskSucceeds, TaskFails, TaskEnds, WorkerDies, UserInterrupts
<1>2. CASE Read
  <2>1. ASSUME NEW t \in Tasks, ReadExit(t) PROVE OfferedRight'
    <3>1. CASE t \in sq.live
      BY <2>1, <3>1, OfferedFrame DEF ReadExit, SetsceneExit
    <3>2. ASSUME TaskExit(t, FALSE) PROVE OfferedRight'
      BY <3>2, OfferedFrame, StatesAreLater DEF TaskExit
    <3>3. ASSUME TaskExit(t, TRUE) PROVE OfferedRight'
      BY <3>3, OfferedOnCompletion DEF TaskExit, OfferedRight
    <3> QED
      BY <2>1, <3>1, <3>2, <3>3 DEF ReadExit
  <2> QED
    BY <1>2, <2>1, OfferedFrame DEF Read, ReadUniHash, ReadDone
<1>3. CASE SceneInit
  <2>1. runq_running = {} /\ runq_complete = {} /\ tasks_covered = {}
    BY <1>3 DEF SceneInit, Coherent, EarlyRight, StartedRight, OfferedRight
  <2>2. /\ tasks_notcovered' \subseteq Tasks
        /\ tasks_notcovered' # {} => {t \in Tasks : Depends[t] = {}} \subseteq runq_buildable'
        /\ rqstate' = "Running"
        /\ UNCHANGED <<tasks_covered, runq_running, runq_complete>>
    BY <1>3 DEF SceneInit
  <2> QED
    BY <2>1, <2>2 DEF OfferedRight
<1>4. CASE BeginPass \/ Finish \/ Return \/ Check \/ TearDown
  BY <1>4, OfferedFrame, StatesAreLater
     DEF BeginPass, Finish, Return, Check, TearDown
<1>5. CASE Migration
  <2>1. ASSUME NEW t \in Setscene, Migrate(t) PROVE OfferedRight'
    BY <2>1, NothingSkipped, OfferedFrame DEF Migrate, Reopen
  <2> QED
    BY <1>5, <2>1, OfferedFrame DEF Migration, Rehash, NothingToRehash, MigrateDone, MigrateNot
<1>6. CASE Scene
  BY <1>6, OfferedFrame
     DEF Scene, SceneNone, SceneSettles, SceneNotNeeded, SceneStaysInvalid,
         SceneOutrightFail, SceneRunInstead, SceneSkip, SceneStart
<1>7. CASE UpdateHoldoff
  <2>1. /\ rqstate' # "SceneInit" /\ UNCHANGED <<runq_running, runq_complete>>
        /\ runq_buildable \subseteq runq_buildable'
    BY <1>7 DEF UpdateHoldoff, Coherent, EarlyRight
  <2>2. CASE holdoff_need_update
    <3>1. /\ tasks_notcovered' = NewNotCovered /\ tasks_covered' = NewCovered
          /\ runq_buildable' = runq_buildable \cup {t \in NewNotCovered \cup NewCovered :
                                                      Depends[t] \subseteq runq_complete}
      BY <1>7, <2>2 DEF UpdateHoldoff
    <3> QED
      BY <2>1, <3>1 DEF OfferedRight
  <2>3. CASE ~holdoff_need_update
    BY <1>7, <2>1, <2>3 DEF UpdateHoldoff, OfferedRight
  <2> QED
    BY <2>2, <2>3
<1>8. ASSUME NEW t \in Tasks, TaskCovered(t) \/ TaskExisting(t) \/ TaskNoexec(t)
      PROVE  OfferedRight'
  <2>1. \E ran : CompleteAtOnce(t, ran)
    BY <1>8 DEF TaskCovered, TaskExisting, TaskNoexec
  <2>2. /\ runq_running' = runq_running \cup {t} /\ runq_complete' = runq_complete \cup {t}
        /\ runq_buildable' = runq_buildable \cup {t}
                               \cup Unblocked(t, runq_complete', runq_running')
        /\ UNCHANGED <<rqstate, tasks_covered, tasks_notcovered>>
    BY <2>1 DEF CompleteAtOnce
  <2>3. runq_running' \subseteq runq_buildable'
    BY <2>2 DEF OfferedRight
  <2> QED
    BY <2>2, <2>3, OfferedOnCompletion
<1>9. ASSUME NEW t \in Tasks, TaskStart(t) PROVE OfferedRight'
  BY <1>9 DEF TaskStart, MustRun, Scheduled, Schedulable, OfferedRight
<1>10. CASE NormalNone \/ WriteCrash \/ \E t \in Tasks : TaskWhitelistFail(t)
  BY <1>10, OfferedFrame, StatesAreLater
     DEF NormalNone, WriteCrash, Crash, TaskWhitelistFail
<1>11. CASE TailEnd \/ Stopped \/ UNCHANGED vars
  BY <1>11, OfferedFrame, StatesAreLater DEF TailEnd, TailWait, TailForce, TailDone, Stopped
<1> QED
  BY <1>1, <1>2, <1>3, <1>4, <1>5, <1>6, <1>7, <1>8, <1>9, <1>10, <1>11
     DEF Next, Loop, Normal

LEMMA OfferedAlways == Spec => []OfferedRight
<1>1. Init => OfferedRight
  BY DEF Init, OfferedRight
<1> QED
  BY <1>1, OfferedStep, TypeCorrect, CoherentAlways, DependenciesCompleteAlways, PTL DEF Spec

(* The stages of a pass in which no task is completed or fails.             *)
InPass == pc \in {"migrate", "scene", "holdoff", "normal", "tail"}

(* What each stage of a pass has left for the next: a new hash of a task     *)
(* that is in progress waits for its end; a setscene task was taken up if    *)
(* one could be, and so was a task; and with --setscene-only, the build was  *)
(* not through.                                                              *)
PassRight ==
  /\ InPass => \A m \in updated_taskhash_queue : InProgress(m[1])
  /\ pc \in {"holdoff", "normal", "tail"} =>
       \/ active > 0 \/ sqactive > 0 \/ sqdone
       \/ ~CanStart(active + sqactive) \/ SceneCandidates = {}
  /\ pc \in {"normal", "tail"} =>
       ~holdoff_need_update /\ (SetsceneOnly => ~ScenesThrough(holdoff_tasks))
  /\ pc = "tail" =>
       active > 0 \/ sqactive > 0 \/ SetsceneOnly \/ \A t \in Tasks : ~Schedulable(t)

LEMMA PassOver == ASSUME ~InPass' PROVE PassRight'
BY DEF InPass, PassRight

(* What a stage leaves alone stays as the stages before it have left it.    *)
LEMMA PassFrame ==
  ASSUME PassRight, UNCHANGED <<sq, sqdone, active, sqactive, build_stamps, runqvars, holdvars>>,
         UNCHANGED updated_taskhash_queue
  PROVE  /\ pc' = pc => PassRight'
         /\ SceneCandidates' = SceneCandidates
         /\ \A t \in Tasks : Schedulable(t)' = Schedulable(t)
         /\ ScenesThrough(holdoff_tasks)' = ScenesThrough(holdoff_tasks)
<1>1. BuildStamps' = BuildStamps
  BY DEF BuildStamps
<1>2. SceneCandidates' = SceneCandidates
  BY <1>1 DEF SceneCandidates, SceneBuildable, NotNeeded, Deferred
<1>3. \A t \in Tasks : Schedulable(t)' = Schedulable(t)
  BY <1>1 DEF Schedulable, ThreadFree, InProgressNamed, InProgress, CanStart
<1>4. ScenesThrough(holdoff_tasks)' = ScenesThrough(holdoff_tasks)
  BY DEF ScenesThrough
<1>5. \A t : InProgress(t)' = InProgress(t)
  BY DEF InProgress
<1>6. pc' = pc => PassRight'
  BY <1>2, <1>3, <1>4, <1>5 DEF PassRight, InPass, CanStart
<1> QED
  BY <1>2, <1>3, <1>4, <1>6

LEMMA PassStep ==
  ASSUME ~SceneEnforced, TypeOK, Coherent, AccountsRight, PassRight, [Next]_vars
  PROVE  PassRight'
<1>1. active >= 0 /\ sqactive >= 0 /\ active \in Int /\ sqactive \in Int
  <2>1. IsFiniteSet(sq.live)
    BY SetsceneFinite, FS_Subset DEF TypeOK, SceneQueueType
  <2>2. Cardinality(sq.live) \in Nat /\ Cardinality(Ongoing) \in Nat
    BY <2>1, OngoingFinite, FS_CardinalityType
  <2> QED
    BY <2>2 DEF AccountsRight, Coherent, ProcsRight
<1>2. CASE Environment \/ Stopped \/ UNCHANGED vars
  BY <1>2, PassFrame
     DEF Environment, TaskSucceeds, TaskFails, TaskEnds, WorkerDies, UserInterrupts, Stopped
<1>3. CASE Read \/ Loop
  BY <1>3, PassOver
     DEF Read, ReadUniHash, ReadExit, ReadDone, Reading, Loop, SceneInit, BeginPass, Finish,
         Return, Check, TearDown, InPass
<1>4. CASE Rehash
  <2>1. \A m \in updated_taskhash_queue' : InProgress(m[1])
    BY <1>4 DEF Rehash
  <2>2. UNCHANGED runqvars /\ pc' = "migrate"
    BY <1>4 DEF Rehash
  <2> QED
    BY <2>1, <2>2 DEF PassRight, InProgress
<1>5. CASE NothingToRehash
  BY <1>5 DEF NothingToRehash, PassRight
<1>6. CASE MigrateDone \/ \E t \in Setscene : MigrateNot(t) \/ Migrate(t)
  <2>1. pc = "migrate" /\ pc' \in {"migrate", "scene"}
    BY <1>6, NothingSkipped DEF MigrateDone, MigrateNot, MayMigrate, Migrate, Reopen
  <2>2. UNCHANGED <<updated_taskhash_queue, runq_running, runq_complete>>
    BY <1>6 DEF MigrateDone, MigrateNot, Migrate
  <2> QED
    BY <2>1, <2>2 DEF PassRight, InPass, InProgress
<1>7. CASE SceneNone
  <2>1. /\ UNCHANGED <<sq, sqdone, active, sqactive, build_stamps, runqvars, holdvars>>
        /\ UNCHANGED updated_taskhash_queue /\ pc = "scene" /\ pc' = "holdoff"
        /\ sqdone \/ ~CanStart(active + sqactive) \/ SceneCandidates = {}
    BY <1>7 DEF SceneNone
  <2>2. SceneCandidates' = SceneCandidates
    BY <2>1, PassFrame
  <2> QED
    BY <2>1, <2>2 DEF PassRight, InPass, InProgress, CanStart
<1>8. ASSUME NEW t \in Setscene, SceneStart(t) PROVE PassRight'
  <2>1. /\ UNCHANGED <<updated_taskhash_queue, runqvars>> /\ sqactive' > 0
        /\ pc = "scene" /\ pc' \in {"return", "holdoff"}
    BY <1>1, <1>8 DEF SceneStart, MustRestore, SceneChosen, SceneNext
  <2> QED
    BY <2>1 DEF PassRight, InPass, InProgress
<1>9. ASSUME NEW t \in Setscene,
             \/ SceneNotNeeded(t) \/ SceneStaysInvalid(t) \/ SceneOutrightFail(t)
             \/ SceneRunInstead(t) \/ SceneSkip(t)
      PROVE  PassRight'
  BY <1>9, PassOver DEF SceneNotNeeded, SceneStaysInvalid, SceneOutrightFail, SceneRunInstead,
                        SceneSkip, SceneSettles, InPass
<1>10. CASE UpdateHoldoff
  <2>1. CASE pc' = "return"
    BY <2>1, PassOver DEF InPass
  <2>2. CASE pc' = "normal"
    <3>1. /\ UNCHANGED <<sq, active, sqactive, build_stamps, runq_running, runq_complete,
                         updated_taskhash_queue>>
          /\ pc = "holdoff" /\ holdoff_need_update' = FALSE
      BY <1>10 DEF UpdateHoldoff
    <3>2. SceneCandidates' = SceneCandidates
      BY <3>1 DEF SceneCandidates, SceneBuildable, BuildStamps, NotNeeded, Deferred
    <3>3. sqdone => sqdone'
      BY <1>10 DEF UpdateHoldoff
    <3>4. SetsceneOnly => ~ScenesThrough(holdoff_tasks') /\ sqdone' = sqdone
      BY <1>10, <2>2 DEF UpdateHoldoff, TypeOK
    <3>5. SetsceneOnly => ~ScenesThrough(holdoff_tasks)'
      BY <3>1, <3>4 DEF ScenesThrough
    <3> QED
      BY <2>2, <3>1, <3>2, <3>3, <3>5 DEF PassRight, InPass, InProgress, CanStart
  <2> QED
    BY <1>10, <2>1, <2>2 DEF UpdateHoldoff
<1>11. CASE NormalNone
  <2>1. /\ UNCHANGED <<sq, sqdone, active, sqactive, build_stamps, runqvars, holdvars>>
        /\ UNCHANGED updated_taskhash_queue /\ pc = "normal" /\ pc' = "tail"
        /\ SetsceneOnly \/ \A t \in Tasks : ~Schedulable(t)
    BY <1>11 DEF NormalNone
  <2>2. /\ SceneCandidates' = SceneCandidates
        /\ \A t \in Tasks : Schedulable(t)' = Schedulable(t)
        /\ ScenesThrough(holdoff_tasks)' = ScenesThrough(holdoff_tasks)
    BY <2>1, PassFrame
  <2> QED
    BY <2>1, <2>2 DEF PassRight, InPass, InProgress, CanStart
<1>12. ASSUME NEW t \in Tasks, TaskStart(t) PROVE PassRight'
  <2>1. /\ UNCHANGED <<updated_taskhash_queue, runq_complete, holdoff_need_update>>
        /\ active' > 0 /\ runq_running' = runq_running \cup {t} /\ pc' \in {"return", "tail"}
        /\ pc = "normal" /\ ~SetsceneOnly
    BY <1>1, <1>12 DEF TaskStart, MustRun, Scheduled
  <2> QED
    BY <2>1 DEF PassRight, InPass, InProgress
<1>13. CASE WriteCrash \/ (\E t \in Tasks : \/ TaskWhitelistFail(t) \/ TaskCovered(t)
                                             \/ TaskExisting(t) \/ TaskNoexec(t))
  BY <1>13, PassOver
     DEF WriteCrash, Crash, TaskWhitelistFail, TaskCovered, TaskExisting, TaskNoexec,
         CompleteAtOnce, InPass
<1>14. CASE TailEnd
  BY <1>14, PassOver DEF TailEnd, TailWait, TailForce, TailDone, InPass
<1> QED
  BY <1>2, <1>3, <1>4, <1>5, <1>6, <1>7, <1>8, <1>9, <1>10, <1>11, <1>12, <1>13, <1>14
     DEF Next, Migration, Scene, Normal

LEMMA PassAlways == ~SceneEnforced => (Spec => []PassRight)
<1> SUFFICES ASSUME ~SceneEnforced PROVE Spec => []PassRight
  OBVIOUS
<1>1. Init => PassRight
  BY DEF Init, PassRight, InPass
<1>2. TypeOK /\ Coherent /\ AccountsRight /\ PassRight /\ [Next]_vars => PassRight'
  BY PassStep
<1>3. Spec => []AccountsRight
  BY AccountsAlways
<1> QED
  BY <1>1, <1>2, <1>3, TypeCorrect, CoherentAlways, PTL DEF Spec

(* The scene queue is only done when it has decided about every setscene    *)
(* task, and, with --setscene-only, never when there is one: the build is   *)
(* over then.                                                               *)
DoneRight ==
  /\ sqdone => Setscene \subseteq Settled(sq) \/ migrating.update # {}
  /\ SetsceneOnly /\ sqdone => Setscene = {}

LEMMA DoneStep ==
  ASSUME TypeOK, Coherent, DoneRight, [Next]_vars
  PROVE  DoneRight'
<1>1. CASE SceneInit
  BY <1>1 DEF SceneInit, DoneRight
<1>2. ASSUME NEW t \in Setscene, Migrate(t) PROVE DoneRight'
  <2>1. Reopen(t)
    BY <1>2, NothingSkipped DEF Migrate
  <2>2. migrating'.update # {} /\ sqdone' = sqdone
    BY <1>2, <2>1 DEF Migrate, Reopen
  <2> QED
    BY <2>2 DEF DoneRight
<1>3. ASSUME ~SceneInit, \A t \in Setscene : ~Migrate(t) PROVE DoneRight'
  <2>1. Settled(sq) \subseteq Settled(sq')
    BY <1>3, SettledStays DEF Settled
  <2>2. CASE UpdateHoldoff
    <3>1. /\ sqdone' => \/ sqdone
                        \/ ~SetsceneOnly
                           /\ ~SceneErrors(tasks_covered', tasks_notcovered', runq_buildable',
                                           holdoff_tasks')
          /\ UNCHANGED <<sq, migrating>>
      BY <2>2 DEF UpdateHoldoff
    <3> QED
      BY <3>1 DEF DoneRight, SceneErrors
  <2>3. CASE MigrateDone
    BY <2>3 DEF MigrateDone, DoneRight, NotMigrating
  <2>4. CASE Rehash
    BY <2>4 DEF Rehash, DoneRight, Coherent, PendingRight, NotMigrating
  <2>5. ASSUME NEW t \in Setscene, MigrateNot(t) PROVE DoneRight'
    <3>1. migrating'.update = migrating.update /\ UNCHANGED sqvars
      BY <2>5 DEF MigrateNot, TypeOK
    <3> QED
      BY <3>1 DEF DoneRight
  <2>6. CASE UNCHANGED <<sqdone, migrating>>
    BY <2>1, <2>6 DEF DoneRight
  <2>7. CASE Environment \/ Read \/ Normal \/ TailEnd \/ Stopped \/ UNCHANGED vars
    BY <2>6, <2>7
       DEF Environment, TaskSucceeds, TaskFails, TaskEnds, WorkerDies, UserInterrupts,
           Read, ReadUniHash, ReadExit, SetsceneExit, TaskExit, ReadDone,
           Normal, NormalNone, WriteCrash, Crash, TaskWhitelistFail, TaskCovered,
           TaskExisting, TaskNoexec, TaskStart, CompleteAtOnce,
           TailEnd, TailWait, TailForce, TailDone, Stopped
  <2>8. CASE Loop \/ NothingToRehash \/ Scene
    BY <1>3, <2>6, <2>8
       DEF Loop, BeginPass, Finish, Return, Check, TearDown, NothingToRehash,
           Scene, SceneNone, SceneSettles, SceneNotNeeded, SceneStaysInvalid,
           SceneOutrightFail, SceneRunInstead, SceneSkip, SceneStart
  <2> QED
    BY <1>3, <2>2, <2>3, <2>4, <2>5, <2>7, <2>8 DEF Next, Migration
<1> QED
  BY <1>1, <1>2, <1>3

LEMMA DoneAlways == Spec => []DoneRight
<1>1. Init => DoneRight
  BY DEF Init, DoneRight
<1> QED
  BY <1>1, DoneStep, TypeCorrect, CoherentAlways, PTL DEF Spec

LEMMA DownstreamClosure ==
  /\ Downstream({}) = {}
  /\ \A S \in SUBSET Tasks :
       /\ Downstream(S) \subseteq Tasks
       /\ \A t \in S \cup Downstream(S) : Revdeps(t) \subseteq Downstream(S)
  /\ \A S, R \in SUBSET Tasks : S \subseteq R => Downstream(S) \subseteq Downstream(R)
<1> DEFINE next  == [t \in Tasks |-> Revdeps(t)]
           up(S) == UNION {Revdeps(s) : s \in S}
<1>1. next \in [Tasks -> SUBSET Tasks] /\ IsFiniteSet(Tasks)
  BY DependsAssumption DEF Revdeps
<1>2. \A S \in SUBSET Tasks : up(S) \in SUBSET Tasks
  BY DEF Revdeps
<1>3. \A S : Downstream(S) = Closure(next, up(S))
  BY DEF Downstream
<1>4. \A S \in SUBSET Tasks :
        /\ up(S) \subseteq Downstream(S) /\ Downstream(S) \subseteq Tasks
        /\ \A t \in Downstream(S) : next[t] \subseteq Downstream(S)
        /\ \A C \in SUBSET Tasks : up(S) \subseteq C /\ (\A t \in C : next[t] \subseteq C)
             => Downstream(S) \subseteq C
  <2> SUFFICES ASSUME NEW S \in SUBSET Tasks
               PROVE  /\ up(S) \subseteq Downstream(S) /\ Downstream(S) \subseteq Tasks
                      /\ \A t \in Downstream(S) : next[t] \subseteq Downstream(S)
                      /\ \A C \in SUBSET Tasks :
                           up(S) \subseteq C /\ (\A t \in C : next[t] \subseteq C)
                             => Downstream(S) \subseteq C
    OBVIOUS
  <2>1. up(S) \in SUBSET Tasks /\ Downstream(S) = Closure(next, up(S))
    BY <1>2, <1>3
  <2> HIDE DEF next, up
  <2> QED
    BY <1>1, <2>1, ClosureIsLeast
<1>5. Downstream({}) = {}
  <2>1. up({}) \subseteq {}
    OBVIOUS
  <2> QED
    BY <1>4, <2>1
<1>6. ASSUME NEW S \in SUBSET Tasks, NEW t \in S \cup Downstream(S)
      PROVE  Revdeps(t) \subseteq Downstream(S)
  BY <1>4
<1>7. ASSUME NEW S \in SUBSET Tasks, NEW R \in SUBSET Tasks, S \subseteq R
      PROVE  Downstream(S) \subseteq Downstream(R)
  <2>1. up(S) \subseteq up(R)
    BY <1>7
  <2>2. up(S) \subseteq Downstream(R)
    BY <1>4, <2>1
  <2> QED
    BY <1>4, <2>2
<1> QED
  BY <1>4, <1>5, <1>6, <1>7

(* What is known of the state when nothing is active any more.              *)
Accounted ==
  /\ TypeOK /\ Coherent /\ QueueWhole /\ HoldoffExact /\ EndsRight
  /\ AccountsRight /\ OfferedRight /\ PassRight /\ DoneRight

LEMMA AtTail ==
  ASSUME ~SceneEnforced, Accounted, pc = "tail", Idle
  PROVE  /\ active = 0 /\ sqactive = 0 /\ Ongoing = {} /\ sq.live = {} /\ BuildStamps = {}
         /\ migrating = NotMigrating /\ ~holdoff_need_update
         /\ failed_tids = {} => updated_taskhash_queue = {}
<1>1. IsFiniteSet(sq.live) /\ IsFiniteSet(Ongoing)
  BY SetsceneFinite, OngoingFinite, FS_Subset DEF Accounted, TypeOK, SceneQueueType
<1>2. Cardinality(sq.live) \in Nat /\ Cardinality(Ongoing) \in Nat
  BY <1>1, FS_CardinalityType
<1>3. active = Cardinality(Ongoing) /\ sqactive = Cardinality(sq.live)
  BY DEF Accounted, AccountsRight, Coherent, ProcsRight
<1>4. active = 0 /\ sqactive = 0
  BY <1>2, <1>3 DEF Idle
<1>5. Ongoing = {} /\ sq.live = {}
  BY <1>1, <1>3, <1>4, FS_EmptySet
<1>6. BuildStamps = {}
  BY <1>5 DEF BuildStamps, Accounted, AccountsRight
<1>7. migrating = NotMigrating
  BY DEF Accounted, Coherent, PendingRight
<1>8. failed_tids = {} => updated_taskhash_queue = {}
  <2>1. \A m \in updated_taskhash_queue : InProgress(m[1]) /\ m[1] \in Tasks
    BY DEF Accounted, PassRight, InPass, TypeOK
  <2> QED
    BY <1>5, <2>1 DEF Ongoing
<1> QED
  BY <1>4, <1>5, <1>6, <1>7, <1>8 DEF Accounted, PassRight

(* Then the scene queue has decided about everything.                       *)
LEMMA QueueEmptied ==
  ASSUME ~SceneEnforced, HardDepsAcyclic, Accounted, pc = "tail", Idle,
         DOMAIN sq.deferred = {}
  PROVE  Setscene \subseteq Settled(sq)
<1>1. /\ active = 0 /\ sqactive = 0 /\ sq.live = {} /\ BuildStamps = {}
      /\ migrating = NotMigrating
  BY AtTail
<1> SUFFICES ASSUME ~(Setscene \subseteq Settled(sq)) PROVE FALSE
  OBVIOUS
<1> DEFINE S == Setscene \ Settled(sq)
<1>2. PICK s \in S : SqRevdeps[s] \cap S = {}
  <2>1. S # {} /\ S \in SUBSET Setscene
    OBVIOUS
  <2> HIDE DEF S
  <2> QED
    BY <2>1, SomeSceneFirst
<1>3. SqRevdeps[s] \subseteq Settled(sq)
  BY <1>2, ClosureTypes
<1>4. s \in sq.buildable /\ s \notin sq.running
  BY <1>1, <1>2, <1>3 DEF Accounted, QueueWhole, Whole, WholeBut, Listed, NotMigrating
<1>5. s \in SceneCandidates
  BY <1>1, <1>2, <1>4 DEF SceneCandidates, SceneBuildable, Deferred
<1>6. sqdone
  BY <1>1, <1>5, NumberTasksAssumption DEF Accounted, PassRight, CanStart
<1> QED
  BY <1>1, <1>2, <1>6 DEF Accounted, DoneRight, NotMigrating

(* And, unless only setscene tasks were asked for, what does not depend on  *)
(* a failed task is complete: the first that is not, in the order of the    *)
(* dependencies, could have been scheduled.                                 *)
LEMMA TasksEmptied ==
  ASSUME ~SceneEnforced, HardDepsAcyclic, Accounted, pc = "tail", Idle,
         DOMAIN sq.deferred = {}, ~SetsceneOnly,
         \A t \in failed_tids : NumberThreads[TaskName[t]] = 0
  PROVE  Tasks \ (failed_tids \cup Downstream(failed_tids)) \subseteq runq_complete
<1>1. /\ active = 0 /\ sqactive = 0 /\ Ongoing = {} /\ BuildStamps = {}
      /\ migrating = NotMigrating /\ ~holdoff_need_update
  BY AtTail
<1>2. Setscene \subseteq Settled(sq)
  BY QueueEmptied
<1>3. holdoff_tasks = {} /\ Tasks \subseteq tasks_covered \cup tasks_notcovered
  BY <1>1, <1>2, AllDecided DEF Accounted, HoldoffExact, NotMigrating
<1> DEFINE T == Tasks \ (failed_tids \cup Downstream(failed_tids) \cup runq_complete)
<1> SUFFICES ASSUME T # {} PROVE FALSE
  OBVIOUS
<1>4. PICK t \in T : Depends[t] \cap T = {}
  <2>1. T \in SUBSET Tasks
    OBVIOUS
  <2> QED
    BY <2>1, AcyclicAssumption
<1>5. Depends[t] \subseteq runq_complete
  <2> SUFFICES ASSUME NEW d \in Depends[t], d \notin runq_complete PROVE FALSE
    OBVIOUS
  <2>1. d \in Tasks /\ d \notin T
    BY <1>4, DependsAssumption
  <2>2. failed_tids \in SUBSET Tasks
    BY DEF Accounted, TypeOK
  <2>3. Revdeps(d) \subseteq Downstream(failed_tids)
    BY <2>1, <2>2, DownstreamClosure
  <2> QED
    BY <1>4, <2>1, <2>3 DEF Revdeps
<1>6. t \in runq_buildable /\ t \notin runq_running
  BY <1>1, <1>3, <1>4, <1>5 DEF Accounted, OfferedRight, Ongoing, InProgress
<1>7. ThreadFree(TaskName[t])
  <2> DEFINE n == TaskName[t]
  <2>1. NumberThreads[n] \in Nat
    BY NumberThreadsAssumption
  <2>2. InProgressNamed(n) \subseteq failed_tids
    BY <1>1 DEF InProgressNamed, Ongoing
  <2>3. ASSUME NumberThreads[n] # 0 PROVE InProgressNamed(n) = {}
    BY <2>2, <2>3 DEF InProgressNamed
  <2>4. Cardinality({}) = 0
    BY FS_EmptySet
  <2> HIDE DEF n
  <2>5. NumberThreads[n] # 0 => Cardinality(InProgressNamed(n)) = 0
    BY <2>3, <2>4
  <2>6. ThreadFree(n)
    BY <2>1, <2>5 DEF ThreadFree
  <2> QED
    BY <2>6 DEF n
<1>8. CanStart(active + sqactive)
  BY <1>1, NumberTasksAssumption DEF CanStart
<1>9. Schedulable(t)
  BY <1>1, <1>3, <1>4, <1>6, <1>7, <1>8 DEF Schedulable
<1> QED
  BY <1>1, <1>4, <1>9 DEF Accounted, PassRight

(* So the sanity checks at the end of execute find nothing, unless a task   *)
(* has failed.                                                              *)
LEMMA TailDoneRight ==
  ASSUME ~SceneEnforced, HardDepsAcyclic, SetsceneOnly => Setscene # {}, Accounted, TailDone
  PROVE  rqstate' = "Failed" => failed_tids # {}
<1> SUFFICES ASSUME failed_tids = {} PROVE rqstate' # "Failed"
  OBVIOUS
<1>1. pc = "tail" /\ Idle /\ DOMAIN sq.deferred = {}
  BY DEF TailDone, Idle
<1>2. /\ sq.live = {} /\ migrating = NotMigrating
      /\ updated_taskhash_queue = {} /\ ~holdoff_need_update
  BY <1>1, AtTail
<1>3. Setscene \subseteq Settled(sq)
  BY <1>1, QueueEmptied
<1>4. /\ holdoff_tasks = {} /\ Tasks \subseteq tasks_covered \cup tasks_notcovered
      /\ {t \in Tasks : Depends[t] = {}} \subseteq runq_buildable
  BY <1>2, <1>3, AllDecided DEF Accounted, HoldoffExact, NotMigrating
<1>5. Tasks \subseteq sq.done
  BY <1>3, AllDone DEF Accounted, QueueWhole, TypeOK
<1>6. Setscene \subseteq Settled(sq) \cap sq.buildable \cap sq.running
  BY <1>3 DEF Accounted, QueueWhole, Whole, WholeBut, Coherent, QueueRight, QueueSound, OnBooks
<1>7. ~SceneErrors(tasks_covered, tasks_notcovered, runq_buildable, holdoff_tasks)
  BY <1>1, <1>2, <1>4, <1>5, <1>6 DEF SceneErrors
<1>8. ~SetsceneOnly
  <2> SUFFICES ASSUME SetsceneOnly PROVE FALSE
    OBVIOUS
  <2>1. ~ScenesThrough(holdoff_tasks)
    BY <1>1 DEF Accounted, PassRight
  <2>2. ~sqdone
    BY DEF Accounted, DoneRight
  <2> QED
    BY <1>1, <1>2, <1>4, <2>1, <2>2 DEF ScenesThrough
<1>9. Tasks \subseteq runq_complete
  <2>1. Tasks \ (failed_tids \cup Downstream(failed_tids)) \subseteq runq_complete
    BY <1>1, <1>8, TasksEmptied
  <2>2. Downstream(failed_tids) = {}
    BY DownstreamClosure
  <2> QED
    BY <2>1, <2>2
<1>10. Tasks \subseteq runq_buildable \cap runq_running \cap runq_complete
  BY <1>9 DEF Accounted, Coherent, StartedRight, OfferedRight
<1> QED
  BY <1>7, <1>10 DEF TailDone

LEMMA FailureNotInvented ==
  ASSUME ~SceneEnforced, HardDepsAcyclic, SetsceneOnly => Setscene # {},
         Accounted, FailedMeansTaskFailed, [Next]_vars
  PROVE  FailedMeansTaskFailed'
<1>1. TypeOK /\ Coherent /\ QueueWhole /\ HoldoffExact
  BY DEF Accounted
<1>2. /\ FinalState = "Failed" => failed_tids # {}
      /\ \A st : StateOnRead(st) = "Failed" => st = "Failed" \/ failed_tids # {}
  BY DEF StateOnRead, FinalState
<1>3. ASSUME rqstate' # "Failed" \/ rqstate' = rqstate \/ failed_tids # {},
             failed_tids \subseteq failed_tids'
      PROVE  FailedMeansTaskFailed'
  BY <1>3 DEF FailedMeansTaskFailed
<1>4. CASE Environment \/ Stopped \/ UNCHANGED vars
  BY <1>3, <1>4
     DEF Environment, TaskSucceeds, TaskFails, TaskEnds, WorkerDies, UserInterrupts, Stopped
<1>5. CASE Read
  <2>1. ASSUME NEW t \in Tasks, ReadExit(t) PROVE FailedMeansTaskFailed'
    <3>1. \/ rqstate' = rqstate /\ failed_tids' = failed_tids
          \/ rqstate' \in {rqstate, "CleanUp"} /\ failed_tids \subseteq failed_tids'
      BY <2>1 DEF ReadExit, SetsceneExit, TaskExit, TaskFailState, NowFailed
    <3> QED
      BY <1>3, <3>1
  <2> QED
    BY <1>3, <1>5, <2>1 DEF Read, ReadUniHash, ReadDone
<1>6. CASE Loop
  BY <1>2, <1>3, <1>6 DEF Loop, SceneInit, BeginPass, Finish, Return, Check, TearDown
<1>7. CASE Migration
  <2>1. ASSUME NEW t \in Setscene, Migrate(t) PROVE FailedMeansTaskFailed'
    BY <1>1, <1>3, <2>1, NothingSkipped DEF Migrate, Reopen
  <2> QED
    BY <1>3, <1>7, <2>1 DEF Migration, Rehash, NothingToRehash, MigrateDone, MigrateNot
<1>8. CASE Scene
  BY <1>3, <1>8
     DEF Scene, SceneNone, SceneSettles, SceneNotNeeded, SceneStaysInvalid,
         SceneOutrightFail, SceneRunInstead, SceneSkip, SceneStart
<1>9. CASE UpdateHoldoff
  <2>1. \/ rqstate' \in {rqstate, "Complete"}
        \/ /\ ScenesThrough(holdoff_tasks')
           /\ SceneErrors(tasks_covered', tasks_notcovered', runq_buildable', holdoff_tasks')
    BY <1>9 DEF UpdateHoldoff
  <2>2. rqstate' \in {rqstate, "Complete"}
    BY <1>1, <1>9, <2>1, NoSceneErrors
  <2>3. failed_tids' = failed_tids
    BY <1>9 DEF UpdateHoldoff
  <2> QED
    BY <1>3, <2>2, <2>3
<1>10. CASE Normal
  <2>1. \A t \in Tasks : ~TaskWhitelistFail(t)
    BY DEF TaskWhitelistFail, WhitelistFails
  <2> QED
    BY <1>3, <1>10, <2>1
       DEF Normal, NormalNone, WriteCrash, Crash, TaskCovered, TaskExisting, TaskNoexec,
           TaskStart, CompleteAtOnce
<1>11. CASE TailWait \/ TailForce
  BY <1>2, <1>3, <1>11 DEF TailWait, TailForce
<1>12. CASE TailDone
  <2>1. failed_tids' = failed_tids
    BY <1>12 DEF TailDone
  <2> QED
    BY <1>12, <2>1, TailDoneRight DEF FailedMeansTaskFailed
<1> QED
  BY <1>4, <1>5, <1>6, <1>7, <1>8, <1>9, <1>10, <1>11, <1>12 DEF Next, TailEnd

LEMMA AccountedAlways == ~SceneEnforced => (Spec => []Accounted)
<1> SUFFICES ASSUME ~SceneEnforced PROVE Spec => []Accounted
  OBVIOUS
<1>1. Spec => []EndsRight /\ []AccountsRight /\ []PassRight
  BY EndsAlways, AccountsAlways, PassAlways
<1>2. /\ TypeOK /\ Coherent /\ QueueWhole /\ HoldoffExact /\ EndsRight
      /\ AccountsRight /\ OfferedRight /\ PassRight /\ DoneRight
      => Accounted
  BY DEF Accounted
<1> QED
  BY <1>1, <1>2, TypeCorrect, CoherentAlways, WholeAlways, HoldoffExactAlways,
     OfferedAlways, DoneAlways, PTL

(* A build is failed by a task, never because the scene queue has lost      *)
(* track of one (summarise_scenequeue_errors and the sanity checks at the   *)
(* end of execute, which would fail it): every setscene task is decided     *)
(* upon, every task is offered, and every one that can be is started.  The   *)
(* exceptions are named by the hypotheses: a whitelist that fails tasks      *)
(* without counting them, setscene tasks that explicitly depend on each     *)
(* other in a circle, and --setscene-only with no setscene task.            *)
THEOREM FailedMeansTaskFailedAlways ==
  ~SceneEnforced /\ HardDepsAcyclic /\ (SetsceneOnly => Setscene # {})
    => (Spec => []FailedMeansTaskFailed)
<1> SUFFICES ASSUME ~SceneEnforced, HardDepsAcyclic, SetsceneOnly => Setscene # {}
             PROVE  Spec => []FailedMeansTaskFailed
  OBVIOUS
<1>1. Init => FailedMeansTaskFailed
  BY DEF Init, FailedMeansTaskFailed
<1>2. Accounted /\ FailedMeansTaskFailed /\ [Next]_vars => FailedMeansTaskFailed'
  BY FailureNotInvented
<1>3. Spec => []Accounted
  BY AccountedAlways
<1> QED
  BY <1>1, <1>2, <1>3, PTL DEF Spec

(* Only what may fail does.                                                 *)
FailRight ==
  /\ \A p \in procs : p.status = "fail" => p.task \in MayFail
  /\ failed_tids \subseteq MayFail

LEMMA FailStep ==
  ASSUME ~SceneEnforced, TypeOK, Coherent, FailRight, [Next]_vars
  PROVE  FailRight'
<1>1. ASSUME procs' \subseteq procs, failed_tids' = failed_tids PROVE FailRight'
  BY <1>1 DEF FailRight
<1>2. CASE Environment
  <2>1. ASSUME NEW p \in procs, NEW status, NEW h, TaskEnds(p, status, h),
               status = "fail" => p.task \in MayFail
        PROVE  FailRight'
    <3> DEFINE e == [p EXCEPT !.status = status]
    <3>1. e.task = p.task /\ e.status = status
      BY DEF TypeOK, Processes
    <3>2. procs' = (procs \ {p}) \cup {e} /\ failed_tids' = failed_tids
      BY <2>1 DEF TaskEnds
    <3> HIDE DEF e
    <3> QED
      BY <2>1, <3>1, <3>2 DEF FailRight
  <2>2. CASE WorkerDies \/ \E how \in {1, 2} : UserInterrupts(how)
    BY <1>1, <2>2 DEF WorkerDies, UserInterrupts
  <2> QED
    BY <1>2, <2>1, <2>2 DEF Environment, TaskSucceeds, TaskFails
<1>3. CASE Read
  <2>1. ASSUME NEW t \in Tasks, ReadExit(t) PROVE FailRight'
    <3>1. PICK p \in procs :
            /\ p.task = t /\ p.status # "run" /\ procs' = procs \ {p}
            /\ \/ SetsceneExit(t, p.status = "ok")
               \/ TaskExit(t, p.status = "ok")
      BY <2>1 DEF ReadExit
    <3>2. CASE p.status = "ok"
      BY <1>1, <3>1, <3>2 DEF SetsceneExit, TaskExit
    <3>3. CASE p.status = "fail"
      <4>1. t \in MayFail
        BY <3>1, <3>3 DEF FailRight
      <4>2. failed_tids' \subseteq failed_tids \cup {t}
        BY <3>1, <3>3 DEF SetsceneExit, TaskExit, NowFailed
      <4> QED
        BY <3>1, <4>1, <4>2 DEF FailRight
    <3> QED
      BY <3>1, <3>2, <3>3 DEF TypeOK, Processes
  <2> QED
    BY <1>1, <1>3, <2>1 DEF Read, ReadUniHash, ReadDone
<1>4. CASE Loop
  BY <1>1, <1>4 DEF Loop, SceneInit, BeginPass, Finish, Return, Check, TearDown
<1>5. CASE Migration
  <2>1. ASSUME NEW t \in Setscene, Migrate(t) PROVE FailRight'
    BY <1>1, <2>1, NothingSkipped DEF Migrate, Reopen
  <2> QED
    BY <1>1, <1>5, <2>1 DEF Migration, Rehash, NothingToRehash, MigrateDone, MigrateNot
<1>6. CASE \E t : procs' = procs \cup {t} /\ t.status = "run" /\ failed_tids' = failed_tids
  BY <1>6 DEF FailRight
<1>7. CASE Scene
  <2>1. ASSUME NEW t \in Setscene, SceneStart(t) PROVE FailRight'
    BY <1>6, <2>1 DEF SceneStart, Process
  <2> QED
    BY <1>1, <1>7, <2>1
       DEF Scene, SceneNone, SceneSettles, SceneNotNeeded, SceneStaysInvalid,
           SceneOutrightFail, SceneRunInstead, SceneSkip
<1>8. CASE Normal
  <2>1. \A t \in Tasks : ~TaskWhitelistFail(t)
    BY DEF TaskWhitelistFail, WhitelistFails
  <2>2. ASSUME NEW t \in Tasks, TaskStart(t) PROVE FailRight'
    BY <1>6, <2>2 DEF TaskStart, Process
  <2> QED
    BY <1>1, <1>8, <2>1, <2>2
       DEF Normal, NormalNone, WriteCrash, Crash, TaskCovered, TaskExisting, TaskNoexec,
           CompleteAtOnce
<1>9. CASE UpdateHoldoff \/ TailEnd \/ Stopped \/ UNCHANGED vars
  BY <1>1, <1>9 DEF UpdateHoldoff, TailEnd, TailWait, TailForce, TailDone, Stopped
<1> QED
  BY <1>2, <1>3, <1>4, <1>5, <1>7, <1>8, <1>9 DEF Next

(* A build with -k that nobody stops, and whose worker does not die, goes on *)
(* until what does not depend on a failed task is complete.                 *)
BuiltRight ==
  ~Abort /\ ~WorkerMayDie /\ ~SetsceneOnly /\ interrupt = 0 =>
    /\ rqstate # "CleanUp" /\ pc # "finish"
    /\ worker # "dead" /\ (worker = "gone" => pc = "end")
    /\ rqstate \in {"Complete", "Failed"} \/ pc \in {"teardown", "end"} =>
         /\ rqstate \in {"Complete", "Failed"}
         /\ Tasks \ (failed_tids \cup Downstream(failed_tids)) \subseteq runq_complete

(* A request to stop is not taken back.                                     *)
LEMMA InterruptStays ==
  ASSUME TypeOK, [Next]_vars, interrupt' = 0
  PROVE  interrupt = 0
<1>1. CASE interrupt' = interrupt
  BY <1>1
<1>2. CASE Environment
  <2>1. \A how \in {1, 2} : ~UserInterrupts(how)
    BY DEF UserInterrupts
  <2>2. interrupt' = interrupt
    BY <1>2, <2>1 DEF Environment, TaskSucceeds, TaskFails, TaskEnds, WorkerDies
  <2> QED
    BY <2>2
<1>3. CASE Read \/ Loop
  BY <1>1, <1>3
     DEF Read, ReadUniHash, ReadExit, ReadDone, Loop, SceneInit, BeginPass, Finish, Return,
         Check, TearDown
<1>4. CASE Migration \/ UpdateHoldoff
  BY <1>1, <1>4
     DEF Migration, Rehash, NothingToRehash, MigrateDone, MigrateNot, Migrate, UpdateHoldoff
<1>5. CASE Scene
  BY <1>1, <1>5
     DEF Scene, SceneNone, SceneSettles, SceneNotNeeded, SceneStaysInvalid,
         SceneOutrightFail, SceneRunInstead, SceneSkip, SceneStart
<1>6. CASE Normal
  BY <1>1, <1>6
     DEF Normal, NormalNone, WriteCrash, Crash, TaskWhitelistFail, TaskCovered,
         TaskExisting, TaskNoexec, TaskStart, CompleteAtOnce
<1>7. CASE TailEnd \/ Stopped \/ UNCHANGED vars
  BY <1>1, <1>7 DEF TailEnd, TailWait, TailForce, TailDone, Stopped
<1> QED
  BY <1>2, <1>3, <1>4, <1>5, <1>6, <1>7 DEF Next

LEMMA BuiltStep ==
  ASSUME ~SceneEnforced, HardDepsAcyclic,
         \A t \in MayFail : NumberThreads[TaskName[t]] = 0,
         Accounted, FailRight, BuiltRight, [Next]_vars
  PROVE  BuiltRight'
<1>1. TypeOK /\ Coherent /\ QueueWhole /\ HoldoffExact /\ EndsRight
  BY DEF Accounted
<1> SUFFICES ASSUME ~Abort, ~WorkerMayDie, ~SetsceneOnly, interrupt' = 0
             PROVE  BuiltRight'
  BY DEF BuiltRight
<1> DEFINE Built == Tasks \ (failed_tids \cup Downstream(failed_tids)) \subseteq runq_complete
           Over  == rqstate \in {"Complete", "Failed"} \/ pc \in {"teardown", "end"}
<1>2. interrupt = 0
  BY <1>1, InterruptStays
<1>3. /\ rqstate # "CleanUp" /\ pc # "finish" /\ worker # "dead"
      /\ worker = "gone" => pc = "end"
      /\ Over => rqstate \in {"Complete", "Failed"} /\ Built
  BY <1>2 DEF BuiltRight
<1>4. /\ \A st : StateOnRead(st) = st
      /\ FinalState \in {"Failed", "Complete"}
  BY <1>3 DEF StateOnRead, FinalState
<1>5. ASSUME UNCHANGED <<rqstate, worker, failed_tids>>, runq_complete \subseteq runq_complete',
             pc' # "finish", pc' \in {"teardown", "end"} => Over, pc = "end" => pc' = "end"
      PROVE  BuiltRight'
  BY <1>3, <1>5 DEF BuiltRight
<1>6. CASE Environment
  <2>1. ~WorkerDies
    BY DEF WorkerDies
  <2>2. \A how \in {1, 2} : ~UserInterrupts(how)
    BY DEF UserInterrupts
  <2>3. UNCHANGED <<rqstate, pc, worker, failed_tids, runq_complete>>
    BY <1>6, <2>1, <2>2 DEF Environment, TaskSucceeds, TaskFails, TaskEnds
  <2> QED
    BY <1>3, <1>5, <2>3
<1>7. CASE Read
  <2>1. ASSUME NEW t \in Tasks, ReadExit(t) PROVE BuiltRight'
    <3>1. procs # {} /\ pc' = pc /\ pc \in {"read", "wait", "finishread", "teardown"}
          /\ worker' = worker
      BY <2>1 DEF ReadExit, Reading
    <3>2. worker = "up"
      BY <1>1, <1>3, <3>1 DEF TypeOK
    <3>3. ~Over
      BY <1>1, <1>2, <3>1, <3>2 DEF EndsRight
    <3>4. rqstate' = rqstate
      BY <2>1 DEF ReadExit, SetsceneExit, TaskExit, TaskFailState
    <3>5. ~Over'
      BY <3>1, <3>3, <3>4
    <3> HIDE DEF Built
    <3> QED
      BY <1>3, <3>1, <3>2, <3>3, <3>4, <3>5 DEF BuiltRight
  <2> QED
    BY <1>3, <1>5, <1>7, <2>1 DEF Read, ReadUniHash, ReadDone
<1>8. CASE SceneInit
  BY <1>3, <1>8 DEF SceneInit, BuiltRight
<1>9. CASE BeginPass
  BY <1>2, <1>3, <1>4, <1>9 DEF BeginPass, BuiltRight
<1>10. CASE Finish \/ Return
  BY <1>3, <1>5, <1>10 DEF Finish, Return
<1>11. CASE Check
  BY <1>3, <1>5, <1>11 DEF Check
<1>12. CASE TearDown
  BY <1>3, <1>12 DEF TearDown, BuiltRight
<1>13. CASE Migration
  <2>1. ASSUME NEW t \in Setscene, Migrate(t) PROVE BuiltRight'
    BY <1>1, <1>5, <2>1, NothingSkipped DEF Migrate, Reopen, MayMigrate
  <2> QED
    BY <1>5, <1>13, <2>1
       DEF Migration, Rehash, NothingToRehash, MigrateDone, MigrateNot
<1>14. CASE Scene
  <2>1. pc = "scene" /\ pc' \in {"holdoff", "return"}
    BY <1>14
       DEF Scene, SceneNone, SceneSettles, SceneNotNeeded, SceneStaysInvalid, SceneNext,
           SceneOutrightFail, SceneRunInstead, SceneSkip, SceneStart, MustRestore, SceneChosen
  <2>2. UNCHANGED <<rqstate, worker, failed_tids, runq_complete>>
    BY <1>14
       DEF Scene, SceneNone, SceneSettles, SceneNotNeeded, SceneStaysInvalid,
           SceneOutrightFail, SceneRunInstead, SceneSkip, SceneStart
  <2> QED
    BY <1>5, <2>1, <2>2
<1>15. CASE UpdateHoldoff
  <2>1. rqstate' = rqstate
    <3>1. \/ rqstate' = rqstate
          \/ /\ ScenesThrough(holdoff_tasks')
             /\ SceneErrors(tasks_covered', tasks_notcovered', runq_buildable', holdoff_tasks')
      BY <1>15 DEF UpdateHoldoff
    <3> QED
      BY <1>1, <1>15, <3>1, NoSceneErrors
  <2> QED
    BY <1>5, <1>15, <2>1 DEF UpdateHoldoff
<1>16. ASSUME NEW t \in Tasks,
              TaskCovered(t) \/ TaskExisting(t) \/ TaskNoexec(t) \/ TaskStart(t)
       PROVE  BuiltRight'
  <2>1. pc = "normal"
    BY <1>16 DEF TaskCovered, TaskExisting, TaskNoexec, TaskStart, MustRun, Scheduled
  <2> QED
    BY <1>5, <1>16, <2>1 DEF TaskCovered, TaskExisting, TaskNoexec, TaskStart, CompleteAtOnce
<1>17. CASE NormalNone \/ TailForce \/ Stopped \/ UNCHANGED vars
  BY <1>3, <1>5, <1>17 DEF NormalNone, TailForce, Idle, Stopped
<1>18. /\ ~WriteCrash
       /\ \A t \in Tasks : ~TaskWhitelistFail(t)
  BY <1>3 DEF WriteCrash, TaskWhitelistFail, WhitelistFails
<1>19. CASE TailWait
  BY <1>4, <1>5, <1>19 DEF TailWait
<1>20. CASE TailDone
  <2>1. pc = "tail" /\ Idle /\ DOMAIN sq.deferred = {}
    BY <1>20 DEF TailDone, Idle
  <2>2. \A t \in failed_tids : NumberThreads[TaskName[t]] = 0
    BY DEF FailRight
  <2>3. Built
    BY <2>1, <2>2, TasksEmptied
  <2>4. /\ rqstate' \in {"Failed", "Complete"} /\ pc' = "return"
        /\ UNCHANGED <<worker, failed_tids, runq_complete>>
    BY <1>20 DEF TailDone
  <2>5. Built'
    BY <2>3, <2>4 DEF Downstream
  <2> QED
    BY <1>3, <2>1, <2>4, <2>5 DEF BuiltRight
<1> QED
  BY <1>6, <1>7, <1>8, <1>9, <1>10, <1>11, <1>12, <1>13, <1>14, <1>15, <1>16, <1>17, <1>18,
     <1>19, <1>20 DEF Next, Loop, Normal, TailEnd

(* A failure does what it must and no more: with -k, all that does not      *)
(* depend on a failed task is built, whatever was restored, deferred or     *)
(* reconsidered on the way, and the build is failed by a task alone.  One   *)
(* hypothesis is about number_threads: a task that failed is never complete, *)
(* and keeps the place next_buildable_task counts for its name.             *)
THEOREM FailuresContainedAlways ==
  /\ ~SceneEnforced /\ HardDepsAcyclic /\ (SetsceneOnly => Setscene # {})
  /\ \A t \in MayFail : NumberThreads[TaskName[t]] = 0
  => (Spec => []FailuresContained)
<1> SUFFICES ASSUME ~SceneEnforced, HardDepsAcyclic, SetsceneOnly => Setscene # {},
                    \A t \in MayFail : NumberThreads[TaskName[t]] = 0
             PROVE  Spec => []FailuresContained
  OBVIOUS
<1>1. Init => FailRight /\ BuiltRight
  BY DEF Init, FailRight, BuiltRight
<1>2. TypeOK /\ Coherent /\ FailRight /\ [Next]_vars => FailRight'
  BY FailStep
<1>3. Accounted /\ FailRight /\ BuiltRight /\ [Next]_vars => BuiltRight'
  BY BuiltStep
<1>4. Spec => []Accounted /\ []FailedMeansTaskFailed
  BY AccountedAlways, FailedMeansTaskFailedAlways
<1>5. BuiltRight /\ FailedMeansTaskFailed => FailuresContained
  BY DEF BuiltRight, FailuresContained, BuildsWhatItCan
<1> QED
  BY <1>1, <1>2, <1>3, <1>4, <1>5, TypeCorrect, CoherentAlways, PTL DEF Spec

-----------------------------------------------------------------------------
(* Stamps of earlier builds are trusted when they may be, and only then.    *)

(* No two tasks share a stamp file, and no earlier build has left a stamp    *)
(* for a task with the nostamp flag (make_stamp is not called for one).      *)
StampsApart      == \A t, u \in Tasks : StampBase[t] = StampBase[u] => t = u
NostampUnstamped == \A m \in OldStamps : m[1] \notin Nostamp

HasFresh(t) == \E h \in Hashes : stamps[StampBase[t]][h] = Fresh
HasOld(t)   == \E h \in Hashes : stamps[StampBase[t]][h] = Old

(* A process that has succeeded has written the stamp of its task, if it is  *)
(* one that writes any; until then there is none.                            *)
StampedBy(p) ==
  IF p.status = "ok" THEN p.task \in Nostamp \/ Pretends(p) \/ HasFresh(p.task)
  ELSE ~HasFresh(p.task)

(* A stamp of this build is that of a task that was started, and has         *)
(* replaced all that earlier builds and its setscene variant had left; what  *)
(* counts as run by an old one depends on nothing in its recipe that was run *)
(* again.                                                                   *)
StampsRight ==
  /\ runq_tasksrun \subseteq runq_complete
  /\ \A t \in Tasks : HasFresh(t) =>
       /\ t \in runq_running /\ ~HasOld(t) /\ ~DryRun /\ ~SceneEnforced
       /\ \A h \in Hashes : setscenestamps[StampBase[t]][h] = Missing
  /\ \A t \in Nostamp \cap Tasks : ~HasOld(t)
  /\ \A p \in procs : p.kind = "task" => StampedBy(p)
  /\ \A t \in runq_tasksrun : \A d \in Depends[t] :
       HasOld(t) /\ Fn[d] = Fn[t] => ~HasFresh(d)

(* Marking setscene tasks does nothing to the stamps of others, and no task  *)
(* has one in common with another.                                          *)
LEMMA ScenesStamped ==
  ASSUME StampsApart, NEW S \in SUBSET Tasks, NEW hash,
         setscenestamps' = MakeStamps(setscenestamps, S, hash)
  PROVE  \A t \in Tasks \ S : setscenestamps'[StampBase[t]] = setscenestamps[StampBase[t]]
BY DEF MakeStamps, Bases, StampsApart

LEMMA CleanedStamp ==
  ASSUME StampsApart, NEW st \in StampState, NEW t \in Tasks
  PROVE  /\ \A u \in Tasks \ {t} : CleanStamp(st, t)[StampBase[u]] = st[StampBase[u]]
         /\ \A h \in Hashes : CleanStamp(st, t)[StampBase[t]][h] = Missing
BY DEF CleanStamp, StampState, Bases, StampsApart

LEMMA StampsFrame ==
  ASSUME StampsRight, UNCHANGED <<stamps, runq_tasksrun>>,
         \A t \in Tasks : HasFresh(t) =>
            setscenestamps'[StampBase[t]] = setscenestamps[StampBase[t]],
         runq_running \subseteq runq_running', runq_complete \subseteq runq_complete',
         \A p \in procs' : p \in procs \/ p.kind = "setscene" \/ StampedBy(p)
  PROVE  StampsRight'
<1>1. \A t : HasFresh(t)' = HasFresh(t) /\ HasOld(t)' = HasOld(t)
  BY DEF HasFresh, HasOld
<1>2. \A p : StampedBy(p)' = StampedBy(p)
  BY <1>1 DEF StampedBy, Pretends
<1>3. "setscene" # "task"
  OBVIOUS
<1> QED
  BY <1>1, <1>2, <1>3 DEF StampsRight

(* make_stamp of t: its stamp of hash h is all that is left of its stamps.   *)
Rewritten(t, h) ==
  /\ \A u \in Tasks \ {t} :
       /\ stamps'[StampBase[u]] = stamps[StampBase[u]]
       /\ setscenestamps'[StampBase[u]] = setscenestamps[StampBase[u]]
  /\ \A g \in Hashes :
       /\ stamps'[StampBase[t]][g] = IF g = h THEN Fresh ELSE Missing
       /\ setscenestamps'[StampBase[t]][g] = Missing

LEMMA MakeStampRewrites ==
  ASSUME StampsApart, TypeOK, NEW t \in Tasks, NEW hash,
         stamps' = MakeStamps(stamps, {t}, hash),
         setscenestamps' = CleanStamp(setscenestamps, t)
  PROVE  Rewritten(t, hash[t])
<1>1. ASSUME NEW u \in Tasks \ {t} PROVE stamps'[StampBase[u]] = stamps[StampBase[u]]
  BY <1>1 DEF MakeStamps, Bases, StampsApart
<1>2. ASSUME NEW g \in Hashes
      PROVE  stamps'[StampBase[t]][g] = IF g = hash[t] THEN Fresh ELSE Missing
  BY DEF MakeStamps, Bases
<1>3. /\ \A u \in Tasks \ {t} : setscenestamps'[StampBase[u]] = setscenestamps[StampBase[u]]
      /\ \A g \in Hashes : setscenestamps'[StampBase[t]][g] = Missing
  BY CleanedStamp DEF TypeOK
<1> QED
  BY <1>1, <1>2, <1>3 DEF Rewritten

(* A task writes its stamp: it has been started, is not complete yet, and    *)
(* nothing that depends on it has been started.                             *)
LEMMA StampWritten ==
  ASSUME TypeOK, StampsRight, DependenciesComplete, StampsApart, ~DryRun, ~SceneEnforced,
         NEW t \in Tasks, t \notin runq_complete, t \in runq_running', NEW h \in Hashes,
         Rewritten(t, h),
         runq_running \subseteq runq_running', runq_complete \subseteq runq_complete',
         runq_tasksrun' \in {runq_tasksrun, runq_tasksrun \cup {t}},
         runq_tasksrun' \subseteq runq_complete', runq_complete \subseteq runq_running,
         \A p \in procs' : p.kind = "task" =>
            \/ p \in procs /\ p.task # t
            \/ p.status = "ok" /\ p.task = t
  PROVE  StampsRight' /\ HasFresh(t)' /\ \A u \in Tasks \ {t} : HasFresh(u)' = HasFresh(u)
<1>1. /\ \A u \in Tasks \ {t} : stamps'[StampBase[u]] = stamps[StampBase[u]]
      /\ \A g \in Hashes : stamps'[StampBase[t]][g] = IF g = h THEN Fresh ELSE Missing
  BY DEF Rewritten
<1>2. /\ \A u \in Tasks \ {t} : setscenestamps'[StampBase[u]] = setscenestamps[StampBase[u]]
      /\ \A g \in Hashes : setscenestamps'[StampBase[t]][g] = Missing
  BY DEF Rewritten
<1>3. HasFresh(t)' /\ ~HasOld(t)'
  <2>1. Fresh # Old /\ Missing # Old
    BY DEF Fresh, Old, Missing
  <2>2. stamps'[StampBase[t]][h] = Fresh
    BY <1>1
  <2>3. \A g \in Hashes : stamps'[StampBase[t]][g] # Old
    BY <1>1, <2>1
  <2> QED
    BY <2>2, <2>3 DEF HasFresh, HasOld
<1>4. \A u \in Tasks \ {t} : HasFresh(u)' = HasFresh(u) /\ HasOld(u)' = HasOld(u)
  BY <1>1 DEF HasFresh, HasOld
<1>5. \A u \in Tasks : HasFresh(u)' =>
        /\ u \in runq_running' /\ ~HasOld(u)'
        /\ \A g \in Hashes : setscenestamps'[StampBase[u]][g] = Missing
  BY <1>2, <1>3, <1>4 DEF StampsRight
<1>6. \A u \in Nostamp \cap Tasks : ~HasOld(u)'
  BY <1>3, <1>4 DEF StampsRight
<1>7. ASSUME NEW p \in procs', p.kind = "task"
      PROVE  StampedBy(p)'
  <2>1. CASE p \in procs /\ p.task # t
    BY <1>4, <1>7, <2>1 DEF StampsRight, StampedBy, Pretends, TypeOK, Processes
  <2>2. CASE p.status = "ok" /\ p.task = t
    BY <1>3, <2>2 DEF StampedBy
  <2> QED
    BY <1>7, <2>1, <2>2
<1>8. ASSUME NEW u \in runq_tasksrun', NEW d \in Depends[u], HasOld(u)', Fn[d] = Fn[u]
      PROVE  ~HasFresh(d)'
  <2>1. u \in runq_tasksrun /\ u # t /\ u \in Tasks
    BY <1>3, <1>8 DEF TypeOK
  <2>2. d \in runq_complete /\ d \in Tasks /\ d # t
    BY <2>1, DependsAssumption DEF StampsRight, DependenciesComplete
  <2> QED
    BY <1>4, <1>8, <2>1, <2>2 DEF StampsRight
<1> QED
  BY <1>3, <1>4, <1>5, <1>6, <1>7, <1>8 DEF StampsRight

(* Only a setscene task that has not been started itself is restored, or     *)
(* goes back to the queue.                                                   *)
LEMMA NotStarted ==
  ASSUME TypeOK, Coherent, UpdateFresh
  PROVE  (sq.live \cup migrating.update) \cap runq_running = {}
BY DEF TypeOK, SceneQueueType, Coherent, QueueRight, QueueSound, OnBooks, PendingRight,
       UpdateFresh, StartedRight, Settled

LEMMA TaskEndsStamps ==
  ASSUME StampsApart, TypeOK, Coherent, UpdateFresh, DependenciesComplete, StampsRight,
         NEW p \in procs, NEW h \in Reports(p), TaskSucceeds(p, h) \/ TaskFails(p, h)
  PROVE  StampsRight'
<1>1. p \in Processes /\ p.task \in Tasks /\ h \in Hashes /\ p.status = "run"
  BY DEF TypeOK, Processes, Reports, TaskSucceeds, TaskFails
<1> DEFINE t == p.task
           e(status) == [p EXCEPT !.status = status]
<1>2. /\ UNCHANGED <<runq_tasksrun, runq_running, runq_complete>>
      /\ \E status \in {"ok", "fail"} : procs' = (procs \ {p}) \cup {e(status)}
  BY DEF TaskSucceeds, TaskFails, TaskEnds
<1>3. \A status \in {"ok", "fail"} :
        e(status).task = t /\ e(status).kind = p.kind /\ e(status).status = status
  BY <1>1 DEF Processes
<1>4. CASE p.kind = "setscene"
  <2>1. stamps' = stamps
    BY <1>4 DEF TaskSucceeds, TaskFails
  <2>2. t \notin runq_running
    BY <1>4, NotStarted DEF Coherent, ProcsRight
  <2>3. \A u \in Tasks : HasFresh(u) =>
          setscenestamps'[StampBase[u]] = setscenestamps[StampBase[u]]
    <3>1. CASE setscenestamps' = setscenestamps
      BY <3>1
    <3>2. CASE setscenestamps' = MakeStamps(setscenestamps, {t}, [u \in {t} |-> h])
      <4> DEFINE S    == {t}
                 hash == [u \in {t} |-> h]
      <4>1. S \in SUBSET Tasks /\ setscenestamps' = MakeStamps(setscenestamps, S, hash)
        BY <1>1, <3>2
      <4> HIDE DEF S, hash
      <4>2. \A u \in Tasks \ S : setscenestamps'[StampBase[u]] = setscenestamps[StampBase[u]]
        BY <4>1, ScenesStamped
      <4>3. \A u \in Tasks : HasFresh(u) => u \notin S
        BY <2>2 DEF S, StampsRight
      <4> QED
        BY <4>2, <4>3
    <3> QED
      BY <1>4, <3>1, <3>2 DEF TaskSucceeds, TaskFails
  <2>4. \A q \in procs' : q \in procs \/ q.kind = "setscene"
    BY <1>2, <1>3, <1>4
  <2> QED
    BY <1>2, <2>1, <2>3, <2>4, StampsFrame
<1>5. CASE p.kind = "task" /\ UNCHANGED stampvars
  <2>1. ~HasFresh(t)
    BY <1>1, <1>5 DEF StampsRight, StampedBy
  <2>2. \A q \in procs' : q \in procs \/ StampedBy(q)
    <3>1. TaskFails(p, h) => procs' = (procs \ {p}) \cup {e("fail")}
      BY DEF TaskFails, TaskEnds
    <3>2. TaskSucceeds(p, h) => procs' = (procs \ {p}) \cup {e("ok")}
      BY DEF TaskSucceeds, TaskEnds
    <3>3. StampedBy(e("fail"))
      BY <1>3, <2>1 DEF StampedBy
    <3>4. TaskSucceeds(p, h) => Pretends(p) \/ t \in Nostamp
      <4>1. ASSUME TaskSucceeds(p, h), ~Pretends(p), t \notin Nostamp PROVE FALSE
        <5>1. t \in Tasks /\ stamps' = MakeStamps(stamps, {t}, [u \in {t} |-> h])
          BY <1>1, <1>5, <4>1 DEF TaskSucceeds
        <5>2. stamps'[StampBase[t]][h] = Fresh
          BY <1>1, <5>1 DEF MakeStamps, Bases
        <5> QED
          BY <1>1, <1>5, <2>1, <5>2 DEF HasFresh
      <4> QED
        BY <4>1
    <3>5. TaskSucceeds(p, h) => StampedBy(e("ok"))
      BY <1>3, <3>4 DEF StampedBy, Pretends
    <3> QED
      BY <3>1, <3>2, <3>3, <3>5
  <2> QED
    BY <1>2, <1>5, <2>2, StampsFrame
<1>6. CASE p.kind = "task" /\ ~UNCHANGED stampvars
  <2>1. /\ ~DryRun /\ ~SceneEnforced
        /\ stamps' = MakeStamps(stamps, {t}, [u \in {t} |-> h])
        /\ setscenestamps' = CleanStamp(setscenestamps, t)
        /\ procs' = (procs \ {p}) \cup {e("ok")}
    BY <1>6 DEF TaskSucceeds, TaskFails, TaskEnds, Pretends
  <2>2. t \in runq_running /\ t \notin runq_complete
    BY <1>6 DEF Coherent, ProcsRight, InProgress
  <2>3. \A q \in procs \ {p} : q.task # t
    BY DEF Coherent, ProcsRight, OneProcessPerTask
  <2>4. \A q \in procs' : (q \in procs /\ q.task # t) \/ (q.status = "ok" /\ q.task = t)
    BY <1>3, <2>1, <2>3
  <2>5. runq_complete \subseteq runq_running
    BY DEF Coherent, StartedRight
  <2>6. Rewritten(t, h)
    <3> DEFINE hash == [u \in {t} |-> h]
    <3>1. stamps' = MakeStamps(stamps, {t}, hash) /\ hash[t] = h /\ t \in Tasks
      BY <1>1, <2>1
    <3> HIDE DEF t, hash
    <3>2. Rewritten(t, hash[t])
      BY <2>1, <3>1, MakeStampRewrites
    <3> QED
      BY <3>1, <3>2
  <2>7. runq_tasksrun \subseteq runq_complete
    BY DEF StampsRight
  <2> HIDE DEF t, e
  <2>8. t \in Tasks
    BY <1>1 DEF t
  <2> QED
    BY <1>1, <1>2, <2>1, <2>2, <2>4, <2>5, <2>6, <2>7, <2>8, StampWritten
<1> QED
  BY <1>1, <1>4, <1>5, <1>6 DEF Processes

(* A task that counts as run without having written its stamp in this step   *)
(* either has no old one, or depends in its recipe on nothing that was run.   *)
LEMMA CountedAsRun ==
  ASSUME TypeOK, StampsRight, UNCHANGED stampvars, NEW t \in Tasks,
         runq_tasksrun' = runq_tasksrun \cup {t}, runq_complete' = runq_complete \cup {t},
         runq_running \subseteq runq_running', procs' \subseteq procs,
         HasOld(t) => \A d \in Depends[t] : Fn[d] = Fn[t] => ~HasFresh(d)
  PROVE  StampsRight'
<1>1. \A u : HasFresh(u)' = HasFresh(u) /\ HasOld(u)' = HasOld(u)
  BY DEF HasFresh, HasOld
<1>2. \A p : StampedBy(p)' = StampedBy(p)
  BY <1>1 DEF StampedBy, Pretends
<1> QED
  BY <1>1, <1>2 DEF StampsRight

LEMMA ReadExitStamps ==
  ASSUME TypeOK, Coherent, StampsRight, NEW t \in Tasks, ReadExit(t)
  PROVE  StampsRight'
<1>1. PICK p \in procs :
        /\ p.task = t /\ p.status # "run" /\ procs' = procs \ {p}
        /\ IF t \in sq.live THEN SetsceneExit(t, p.status = "ok")
           ELSE TaskExit(t, p.status = "ok")
  BY DEF ReadExit
<1>2. UNCHANGED stampvars /\ runq_running' = runq_running
  BY <1>1 DEF ReadExit, SetsceneExit, TaskExit
<1>3. CASE t \in sq.live \/ p.status # "ok"
  BY <1>1, <1>2, <1>3, StampsFrame DEF SetsceneExit, TaskExit
<1>4. CASE t \notin sq.live /\ p.status = "ok"
  <2>1. p.kind = "task"
    BY <1>1, <1>4, KindIsKnown DEF TypeOK, Processes
  <2>2. t \in Nostamp \/ Pretends(p) \/ HasFresh(t)
    BY <1>1, <1>4, <2>1 DEF StampsRight, StampedBy
  <2>3. HasOld(t) => \A d \in Depends[t] : ~HasFresh(d)
    BY <2>2, DependsAssumption DEF StampsRight, Pretends
  <2> QED
    BY <1>1, <1>2, <1>4, <2>3, CountedAsRun DEF TaskExit
<1> QED
  BY <1>3, <1>4

LEMMA TaskExistingStamps ==
  ASSUME TypeOK, StampsRight, NEW t \in Tasks, TaskExisting(t)
  PROVE  StampsRight'
<1>1. ASSUME NEW d \in Depends[t], Fn[d] = Fn[t], HasFresh(d), HasOld(t) PROVE FALSE
  <2>1. d \in Tasks /\ StampBase[d] \in Bases /\ StampBase[t] \in Bases
    BY DependsAssumption DEF Bases
  <2>2. /\ Age(stamps, unihash, d) \in {Missing, Old, Fresh}
        /\ Age(stamps, unihash, t) \in {Missing, Old, Fresh}
        /\ unihash[d] \in Hashes /\ unihash[t] \in Hashes
    BY <2>1 DEF Age, TypeOK, StampState
  <2>3. UpToDateWith(stamps, setscenestamps, unihash, t, d)
    BY DEF TaskExisting, TaskCurrent, StampCurrent
  <2>4. ~Restored(stamps, setscenestamps, unihash, d)
    BY <1>1, <2>1, <2>2 DEF Restored, Age, StampsRight
  <2>5. Age(stamps, unihash, d) # Missing /\ Age(stamps, unihash, t) >= Age(stamps, unihash, d)
    BY <1>1, <2>3, <2>4 DEF UpToDateWith
  <2>6. Age(stamps, unihash, d) # Old
    BY <1>1, <2>1, <2>2 DEF StampsRight, HasOld, Age
  <2>7. Age(stamps, unihash, t) = Fresh
    BY <2>2, <2>5, <2>6 DEF Missing, Old, Fresh
  <2>8. HasFresh(t)
    BY <2>2, <2>7 DEF HasFresh, Age
  <2> QED
    BY <1>1, <2>8 DEF StampsRight
<1>2. HasOld(t) => \A d \in Depends[t] : Fn[d] = Fn[t] => ~HasFresh(d)
  BY <1>1
<1> QED
  BY <1>2, CountedAsRun DEF TaskExisting, CompleteAtOnce

LEMMA TaskNoexecStamps ==
  ASSUME StampsApart, TypeOK, Coherent, DependenciesComplete, StampsRight,
         NEW t \in Tasks, TaskNoexec(t)
  PROVE  StampsRight'
<1>1. t \notin runq_running /\ t \notin runq_complete /\ runq_complete \subseteq runq_running
  BY DEF TaskNoexec, MustRun, Scheduled, Schedulable, Coherent, StartedRight
<1>2. /\ runq_running' = runq_running \cup {t} /\ runq_complete' = runq_complete \cup {t}
      /\ runq_tasksrun' = runq_tasksrun \cup {t} /\ procs' = procs
  BY DEF TaskNoexec, CompleteAtOnce
<1>3. CASE DryRun \/ SceneEnforced
  <2>1. UNCHANGED stampvars /\ \A d \in Depends[t] : ~HasFresh(d)
    BY <1>3, DependsAssumption DEF TaskNoexec, StampsRight
  <2> QED
    BY <1>2, <2>1, CountedAsRun
<1>4. CASE ~DryRun /\ ~SceneEnforced
  <2>1. Rewritten(t, unihash[t])
    BY <1>4, MakeStampRewrites DEF TaskNoexec
  <2>2. \A p \in procs' : p.kind = "task" => p \in procs /\ p.task # t
    BY <1>1, <1>2 DEF Coherent, ProcsRight, InProgress
  <2>3. unihash[t] \in Hashes
    BY DEF TypeOK
  <2>4. runq_tasksrun' \subseteq runq_complete'
    BY <1>2 DEF StampsRight
  <2> QED
    BY <1>1, <1>2, <1>4, <2>1, <2>2, <2>3, <2>4, StampWritten
<1> QED
  BY <1>3, <1>4

LEMMA StampsStep ==
  ASSUME StampsApart, TypeOK, Coherent, UpdateFresh, DependenciesComplete, StampsRight,
         [Next]_vars
  PROVE  StampsRight'
<1>1. CASE Environment
  <2>1. CASE WorkerDies \/ \E how \in {1, 2} : UserInterrupts(how)
    BY <2>1, StampsFrame DEF WorkerDies, UserInterrupts
  <2> QED
    BY <1>1, <2>1, TaskEndsStamps DEF Environment
<1>2. CASE Read
  <2>1. CASE ReadUniHash \/ ReadDone
    BY <2>1, StampsFrame DEF ReadUniHash, ReadDone
  <2> QED
    BY <1>2, <2>1, ReadExitStamps DEF Read
<1>3. CASE SceneInit
  <2>1. \A t \in Tasks : ~HasFresh(t)
    BY <1>3 DEF StampsRight, SceneInit, Coherent, EarlyRight
  <2> QED
    BY <1>3, <2>1, StampsFrame DEF SceneInit
<1>4. CASE BeginPass \/ Finish \/ Return \/ Check \/ TearDown
  BY <1>4, StampsFrame DEF BeginPass, Finish, Return, Check, TearDown
<1>5. CASE Rehash \/ NothingToRehash \/ \E t \in Setscene : MigrateNot(t) \/ Migrate(t)
  BY <1>5, StampsFrame DEF Rehash, NothingToRehash, MigrateNot, Migrate
<1>6. CASE MigrateDone
  <2> DEFINE S == migrating.update \cap Noexec
  <2>1. CASE setscenestamps' = setscenestamps
    BY <1>6, <2>1, StampsFrame DEF MigrateDone
  <2>2. CASE setscenestamps' = MakeStamps(setscenestamps, S, unihash)
    <3>1. S \in SUBSET Tasks /\ S \cap runq_running = {}
      BY NotStarted, SetsceneFinite DEF TypeOK
    <3> HIDE DEF S
    <3>2. \A t \in Tasks \ S : setscenestamps'[StampBase[t]] = setscenestamps[StampBase[t]]
      BY <2>2, <3>1, ScenesStamped
    <3>3. \A t \in Tasks : HasFresh(t) =>
            setscenestamps'[StampBase[t]] = setscenestamps[StampBase[t]]
      BY <3>1, <3>2 DEF StampsRight
    <3> QED
      BY <1>6, <3>3, StampsFrame DEF MigrateDone
  <2> QED
    BY <1>6, <2>1, <2>2 DEF MigrateDone
<1>7. CASE SceneNone \/ \E t \in Setscene :
             \/ SceneNotNeeded(t) \/ SceneStaysInvalid(t) \/ SceneOutrightFail(t)
             \/ SceneRunInstead(t) \/ SceneSkip(t)
  BY <1>7, StampsFrame DEF SceneNone, SceneNotNeeded, SceneStaysInvalid, SceneOutrightFail,
                           SceneRunInstead, SceneSkip, SceneSettles
<1>8. ASSUME NEW t \in Setscene, SceneStart(t) PROVE StampsRight'
  BY <1>8, StampsFrame DEF SceneStart, Process
<1>9. CASE UpdateHoldoff \/ TailWait \/ TailForce \/ TailDone
  BY <1>9, StampsFrame DEF UpdateHoldoff, TailWait, TailForce, TailDone
<1>10. CASE NormalNone \/ WriteCrash \/ \E t \in Tasks : TaskWhitelistFail(t) \/ TaskCovered(t)
  BY <1>10, StampsFrame DEF NormalNone, WriteCrash, Crash, TaskWhitelistFail, TaskCovered,
                            CompleteAtOnce
<1>11. ASSUME NEW t \in Tasks, TaskStart(t) PROVE StampsRight'
  <2>1. t \notin runq_running /\ ~HasFresh(t)
    BY <1>11 DEF TaskStart, MustRun, Scheduled, Schedulable, StampsRight
  <2>2. \A p \in procs' : p \in procs \/ StampedBy(p)
    BY <1>11, <2>1 DEF TaskStart, Process, StampedBy
  <2> QED
    BY <1>11, <2>2, StampsFrame DEF TaskStart
<1>12. CASE Stopped \/ UNCHANGED vars
  BY <1>12, StampsFrame DEF Stopped
<1> QED
  BY <1>1, <1>2, <1>3, <1>4, <1>5, <1>6, <1>7, <1>8, <1>9, <1>10, <1>11, <1>12,
     TaskExistingStamps, TaskNoexecStamps
     DEF Next, Loop, Migration, Scene, Normal, TailEnd

LEMMA StampsInit == StampsApart /\ NostampUnstamped /\ Init => StampsRight
<1> SUFFICES ASSUME StampsApart, NostampUnstamped, Init PROVE StampsRight
  OBVIOUS
<1>1. PICK S \in SUBSET OldStamps : stamps = StampsOf(S)
  BY DEF Init
<1>2. ASSUME NEW t \in Tasks, NEW h \in Hashes
      PROVE  /\ stamps[StampBase[t]][h] # Fresh
             /\ stamps[StampBase[t]][h] = Old => <<t, h>> \in OldStamps
  <2>1. stamps[StampBase[t]][h]
          = IF \E u \in Tasks : StampBase[u] = StampBase[t] /\ <<u, h>> \in S
            THEN Old ELSE Missing
    BY <1>1 DEF StampsOf, Bases
  <2>2. Old # Fresh /\ Missing # Fresh /\ Missing # Old
    BY DEF Old, Missing, Fresh
  <2> QED
    BY <2>1, <2>2 DEF StampsApart
<1>3. \A t \in Tasks : ~HasFresh(t) /\ (t \in Nostamp => ~HasOld(t))
  BY <1>2 DEF HasFresh, HasOld, NostampUnstamped
<1> QED
  BY <1>3 DEF StampsRight, Init

(* The hashes that were reported and are not taken over yet.                 *)
Messages == sent \cup updated_taskhash_queue

(* The stamp of t has the hash the server knows t by, or will know it by     *)
(* when it has read what is under way.                                      *)
StampFollowed(t) ==
  \E h \in Hashes :
    /\ stamps[StampBase[t]][h] = Fresh
    /\ \A m \in Messages : m[1] = t => m = <<t, h>>
    /\ h = unihash[t] \/ <<t, h>> \in Messages

(* A hash is reported by a task in progress, and has been taken over before  *)
(* anything that depends on that task is started: so nothing that was        *)
(* started gets another hash but the one it reported itself.                *)
MessagesRight ==
  worker = "up" =>
    /\ \A m \in sent : InProgress(m[1])
    /\ \A m \in updated_taskhash_queue :
         /\ m[1] \in runq_running /\ Revdeps(m[1]) \cap runq_running = {}
         /\ pc \in {"migrate", "scene", "holdoff", "normal"} => InProgress(m[1])
    /\ \A p \in procs : p.kind = "task" /\ p.status = "run" =>
         p.hash = unihash[p.task] /\ \A m \in Messages : m[1] # p.task
    /\ \A t \in Tasks : HasFresh(t) => StampFollowed(t)

(* A step that neither writes a stamp of a task nor learns of a hash.        *)
LEMMA MessagesFrame ==
  ASSUME MessagesRight, UNCHANGED <<stamps, sent, updated_taskhash_queue, unihash>>,
         runq_running' = runq_running, runq_complete' = runq_complete,
         worker' = "up" => worker = "up",
         \A p \in procs' : p \in procs \/ p.kind = "setscene" \/ p.status # "run",
         \/ pc \in {"migrate", "scene", "holdoff", "normal"}
         \/ pc' \notin {"migrate", "scene", "holdoff", "normal"}
         \/ updated_taskhash_queue = {}
  PROVE  MessagesRight'
<1>1. \A t : HasFresh(t)' = HasFresh(t) /\ StampFollowed(t)' = StampFollowed(t)
  BY DEF HasFresh, StampFollowed, Messages
<1>2. Messages' = Messages /\ \A t : InProgress(t)' = InProgress(t)
  BY DEF Messages, InProgress
<1>3. "setscene" # "task"
  OBVIOUS
<1> QED
  BY <1>1, <1>2, <1>3 DEF MessagesRight, Messages

(* A step that drops what the worker had sent comes after its end.           *)
LEMMA WorkerGone == worker' # "up" => MessagesRight'
BY DEF MessagesRight

LEMMA TaskEndsMessages ==
  ASSUME StampsApart, TypeOK, Coherent, DependenciesComplete, StampsRight, MessagesRight,
         NEW p \in procs, NEW h \in Reports(p), TaskSucceeds(p, h) \/ TaskFails(p, h)
  PROVE  MessagesRight'
<1>1. p \in Processes /\ p.task \in Tasks /\ h \in Hashes /\ p.status = "run"
  BY DEF TypeOK, Processes, Reports, TaskSucceeds, TaskFails
<1> DEFINE t == p.task
           e(status) == [p EXCEPT !.status = status]
<1>2. /\ UNCHANGED <<pc, worker, runqvars, hashvars>>
      /\ \E status \in {"ok", "fail"} : procs' = (procs \ {p}) \cup {e(status)}
      /\ sent' = IF h = p.hash THEN sent ELSE sent \cup {<<t, h>>}
  BY DEF TaskSucceeds, TaskFails, TaskEnds
<1>3. \A status \in {"ok", "fail"} : e(status).task = t /\ e(status).status # "run"
  BY <1>1 DEF Processes
<1>4. \A q \in procs' : q \in procs \/ q.status # "run"
  BY <1>2, <1>3
<1>5. CASE UNCHANGED <<stamps, sent>>
  BY <1>2, <1>4, <1>5, MessagesFrame
<1>6. CASE ~UNCHANGED <<stamps, sent>> /\ worker = "up"
  <2>1. p.kind = "task"
    BY <1>1, <1>2, <1>6 DEF TaskSucceeds, TaskFails, Reports, Processes
  <2>2. InProgress(t) /\ \A q \in procs \ {p} : q.task # t
    BY <2>1 DEF Coherent, ProcsRight, OneProcessPerTask
  <2>3. p.hash = unihash[t] /\ (\A m \in Messages : m[1] # t) /\ ~HasFresh(t)
    BY <1>1, <1>6, <2>1 DEF MessagesRight, StampsRight, StampedBy
  <2>4. \A u \in Tasks \ {t} : stamps'[StampBase[u]] = stamps[StampBase[u]]
    <3>1. CASE stamps' = stamps
      BY <3>1
    <3>2. CASE stamps' = MakeStamps(stamps, {t}, [u \in {t} |-> h])
      BY <1>1, <3>2 DEF MakeStamps, Bases, StampsApart
    <3> QED
      BY <2>1, <3>1, <3>2 DEF TaskSucceeds, TaskFails
  <2>5. HasFresh(t)' => stamps'[StampBase[t]][h] = Fresh
    <3>1. CASE stamps' = stamps
      BY <2>3, <3>1 DEF HasFresh
    <3>2. CASE stamps' = MakeStamps(stamps, {t}, [u \in {t} |-> h])
      BY <1>1, <3>2 DEF MakeStamps, Bases
    <3> QED
      BY <2>1, <3>1, <3>2 DEF TaskSucceeds, TaskFails
  <2>6. Messages' = IF h = p.hash THEN Messages ELSE Messages \cup {<<t, h>>}
    BY <1>2 DEF Messages
  <2>7. ASSUME NEW u \in Tasks, HasFresh(u)' PROVE StampFollowed(u)'
    <3>1. CASE u = t
      BY <1>1, <1>2, <2>3, <2>5, <2>6, <2>7, <3>1 DEF StampFollowed
    <3>2. CASE u # t
      <4>1. HasFresh(u)
        BY <2>4, <2>7, <3>2 DEF HasFresh
      <4>2. StampFollowed(u)
        BY <1>6, <4>1 DEF MessagesRight
      <4>3. PICK g \in Hashes :
              /\ stamps[StampBase[u]][g] = Fresh
              /\ \A m \in Messages : m[1] = u => m = <<u, g>>
              /\ g = unihash[u] \/ <<u, g>> \in Messages
        BY <4>2 DEF StampFollowed
      <4>4. <<t, h>>[1] = t /\ Messages \subseteq Messages'
        BY <2>6
      <4>5. \A m \in Messages' : m[1] = u => m = <<u, g>>
        BY <2>6, <3>2, <4>3, <4>4
      <4>6. stamps'[StampBase[u]][g] = Fresh
        BY <2>4, <3>2, <4>3
      <4> QED
        BY <1>2, <4>3, <4>4, <4>5, <4>6 DEF StampFollowed
    <3> QED
      BY <3>1, <3>2
  <2>8. /\ \A u : InProgress(u)' = InProgress(u)
        /\ \A m \in sent' : m \in sent \/ m[1] = t
    BY <1>2 DEF InProgress
  <2>9. ASSUME NEW q \in procs', q.kind = "task", q.status = "run"
        PROVE  q.hash = unihash'[q.task] /\ \A m \in Messages' : m[1] # q.task
    <3>1. q \in procs \ {p}
      BY <1>2, <1>3, <2>9
    <3>2. q.hash = unihash[q.task] /\ (\A m \in Messages : m[1] # q.task) /\ q.task # t
      BY <1>6, <2>2, <2>9, <3>1 DEF MessagesRight
    <3>3. \A m \in Messages' : m \in Messages \/ m[1] = t
      BY <2>6
    <3> QED
      BY <1>2, <3>2, <3>3
  <2>10. \A m \in sent' : InProgress(m[1])'
    BY <1>6, <2>2, <2>8 DEF MessagesRight
  <2>11. \A m \in updated_taskhash_queue' :
           /\ m[1] \in runq_running' /\ Revdeps(m[1]) \cap runq_running' = {}
           /\ pc' \in {"migrate", "scene", "holdoff", "normal"} => InProgress(m[1])'
    BY <1>2, <1>6, <2>8 DEF MessagesRight
  <2> HIDE DEF t, e
  <2> QED
    BY <2>7, <2>9, <2>10, <2>11 DEF MessagesRight
<1> QED
  BY <1>2, <1>5, <1>6, WorkerGone

LEMMA ReadUniHashMessages ==
  ASSUME TypeOK, Coherent, DependenciesComplete, MessagesRight, ReadUniHash
  PROVE  MessagesRight'
<1>1. PICK m \in sent : /\ sent' = sent \ {m}
                        /\ updated_taskhash_queue' = updated_taskhash_queue \cup {m}
  BY DEF ReadUniHash
<1>2. /\ Messages' = Messages
      /\ UNCHANGED <<pc, worker, procs, stamps, runq_running, runq_complete, unihash>>
  BY <1>1 DEF ReadUniHash, Messages
<1>3. CASE worker = "up"
  <2>1. InProgress(m[1]) /\ m[1] \in Tasks
    BY <1>3 DEF MessagesRight, TypeOK
  <2>2. Revdeps(m[1]) \cap runq_running = {}
    BY <2>1 DEF DependenciesComplete, Revdeps, InProgress
  <2>3. \A t : HasFresh(t)' = HasFresh(t) /\ StampFollowed(t)' = StampFollowed(t)
               /\ InProgress(t)' = InProgress(t)
    BY <1>2 DEF HasFresh, StampFollowed, InProgress
  <2>4. m[1] \in runq_running
    BY <2>1 DEF InProgress
  <2> QED
    BY <1>1, <1>2, <1>3, <2>1, <2>2, <2>3, <2>4 DEF MessagesRight
<1> QED
  BY <1>2, <1>3, WorkerGone

LEMMA ReadExitMessages ==
  ASSUME TypeOK, MessagesRight, NEW t \in Tasks, ReadExit(t)
  PROVE  MessagesRight'
<1>1. /\ \A m \in sent : m[1] # t
      /\ pc' = pc /\ pc \notin {"migrate", "scene", "holdoff", "normal"}
      /\ UNCHANGED <<sent, worker, stamps, runq_running, hashvars>>
      /\ runq_complete' \in {runq_complete, runq_complete \cup {t}}
      /\ procs' \subseteq procs
  BY DEF ReadExit, Reading, SetsceneExit, TaskExit
<1>2. \A u : HasFresh(u)' = HasFresh(u) /\ StampFollowed(u)' = StampFollowed(u)
  BY <1>1 DEF HasFresh, StampFollowed, Messages
<1>3. Messages' = Messages /\ \A u : u # t /\ InProgress(u) => InProgress(u)'
  BY <1>1 DEF Messages, InProgress
<1> QED
  BY <1>1, <1>2, <1>3 DEF MessagesRight

(* A task is started, or completed at once: all it depends on is complete,   *)
(* so none of that has a hash to be taken over.                             *)
LEMMA StartedMessages ==
  ASSUME TypeOK, Coherent, DependenciesComplete, MessagesRight, NEW t \in Tasks, Scheduled(t),
         UNCHANGED <<worker, sent, hashvars>>, pc' \in {"return", "tail"},
         runq_running' = runq_running \cup {t},
         runq_complete' \in {runq_complete, runq_complete \cup {t}},
         \A p \in procs' : p \in procs \/ (p.task = t /\ p.hash = unihash[t]),
         \A u \in Tasks : HasFresh(u)' => u = t \/ (HasFresh(u) /\ StampFollowed(u)'= StampFollowed(u)),
         HasFresh(t)' => stamps'[StampBase[t]][unihash[t]] = Fresh
  PROVE  MessagesRight'
<1>1. /\ pc = "normal" /\ t \notin runq_running /\ t \notin runq_complete
      /\ Depends[t] \subseteq runq_complete /\ unihash[t] \in Hashes
  BY DEF Scheduled, Schedulable, DependenciesComplete, Coherent, StartedRight, TypeOK
<1>2. CASE worker = "up"
  <2>1. \A m \in Messages : InProgress(m[1]) /\ m[1] # t
    BY <1>1, <1>2 DEF MessagesRight, Messages, InProgress
  <2>2. \A m \in Messages' : InProgress(m[1])' /\ m[1] \in runq_running'
    BY <2>1 DEF InProgress, Messages
  <2>3. \A m \in updated_taskhash_queue' : Revdeps(m[1]) \cap runq_running' = {}
    BY <1>1, <1>2, <2>1 DEF MessagesRight, Messages, Revdeps, InProgress
  <2>4. Messages' = Messages
    BY DEF Messages
  <2>5. \A u \in Tasks : HasFresh(u)' => StampFollowed(u)'
    <3>1. HasFresh(t)' => StampFollowed(t)'
      BY <1>1, <2>1, <2>4 DEF StampFollowed
    <3> QED
      BY <1>2, <3>1 DEF MessagesRight
  <2>6. \A p \in procs' : p.kind = "task" /\ p.status = "run" =>
          p.hash = unihash'[p.task] /\ \A m \in Messages' : m[1] # p.task
    BY <1>2, <2>1, <2>4 DEF MessagesRight
  <2> QED
    BY <2>2, <2>3, <2>5, <2>6 DEF MessagesRight, Messages
<1> QED
  BY <1>2, WorkerGone

LEMMA NormalMessages ==
  ASSUME StampsApart, TypeOK, Coherent, DependenciesComplete, StampsRight, MessagesRight,
         NEW t \in Tasks,
         TaskCovered(t) \/ TaskExisting(t) \/ TaskNoexec(t) \/ TaskStart(t)
  PROVE  MessagesRight'
<1>1. /\ Scheduled(t) /\ UNCHANGED <<worker, sent, hashvars>> /\ pc' \in {"return", "tail"}
      /\ runq_running' = runq_running \cup {t}
      /\ runq_complete' \in {runq_complete, runq_complete \cup {t}}
      /\ \A p \in procs' : p \in procs \/ (p.task = t /\ p.hash = unihash[t])
  BY DEF TaskCovered, TaskExisting, TaskNoexec, TaskStart, MustRun, CompleteAtOnce, Process
<1>2. t \notin runq_running
  BY <1>1 DEF Scheduled, Schedulable
<1>3. CASE UNCHANGED stamps
  <2>1. \A u : HasFresh(u)' = HasFresh(u) /\ StampFollowed(u)' = StampFollowed(u)
    BY <1>1, <1>3 DEF HasFresh, StampFollowed, Messages
  <2>2. ~HasFresh(t)
    BY <1>2 DEF StampsRight
  <2> QED
    BY <1>1, <2>1, <2>2, StartedMessages
<1>4. CASE ~UNCHANGED stamps
  <2>1. Rewritten(t, unihash[t])
    BY <1>4, MakeStampRewrites
       DEF TaskCovered, TaskExisting, TaskNoexec, TaskStart, CompleteAtOnce
  <2>2. \A u \in Tasks \ {t} : HasFresh(u)' = HasFresh(u) /\ StampFollowed(u)' = StampFollowed(u)
    BY <1>1, <2>1 DEF Rewritten, HasFresh, StampFollowed, Messages
  <2>3. unihash[t] \in Hashes
    BY DEF TypeOK
  <2>4. stamps'[StampBase[t]][unihash[t]] = Fresh
    BY <2>1, <2>3 DEF Rewritten
  <2> QED
    BY <1>1, <2>2, <2>4, StartedMessages
<1> QED
  BY <1>3, <1>4

(* What has been started depends on nothing whose dependants were not.       *)
LEMMA NoneDownstream ==
  ASSUME TypeOK, Coherent, DependenciesComplete, NEW S \in SUBSET Tasks,
         \A s \in S : Revdeps(s) \cap runq_running = {}
  PROVE  Downstream(S) \cap runq_running = {}
<1> DEFINE next == [t \in Tasks |-> Revdeps(t)]
           up   == UNION {Revdeps(s) : s \in S}
           C    == Tasks \ runq_running
<1>1. next \in [Tasks -> SUBSET Tasks] /\ IsFiniteSet(Tasks) /\ up \in SUBSET Tasks
  BY DependsAssumption DEF Revdeps
<1>2. up \subseteq C
  BY DEF Revdeps
<1>3. \A t \in C : next[t] \subseteq C
  BY DEF Revdeps, DependenciesComplete, Coherent, StartedRight
<1>4. Downstream(S) = Closure(next, up) /\ C \in SUBSET Tasks
  BY DEF Downstream
<1> HIDE DEF next, up, C
<1>5. Closure(next, up) \subseteq C
  BY <1>1, <1>2, <1>3, <1>4, ClosureIsLeast
<1> QED
  BY <1>4, <1>5 DEF C

LEMMA RehashMessages ==
  ASSUME TypeOK, Coherent, DependenciesComplete, StampsRight, MessagesRight, Rehash
  PROVE  MessagesRight'
<1> SUFFICES ASSUME worker = "up" PROVE MessagesRight'
  BY WorkerGone DEF Rehash
<1> DEFINE taken     == {m \in updated_taskhash_queue : ~InProgress(m[1])}
           toprocess == {m[1] : m \in {n \in taken : n[2] # unihash[n[1]]}}
           reported  == [t \in Tasks |-> IF t \in toprocess
                           THEN CHOOSE h \in Hashes : <<t, h>> \in taken
                           ELSE unihash[t]]
           total     == Downstream(toprocess)
<1>1. PICK new \in Rehashings(reported, toprocess, total) :
        /\ unihash' = [t \in Tasks |->
                         IF t \in Retaken(total, new, reported) THEN new[t] ELSE reported[t]]
        /\ updated_taskhash_queue' = updated_taskhash_queue \ taken
        /\ UNCHANGED <<sent, worker, procs, stamps, runq_running, runq_complete>>
  BY DEF Rehash
<1>2. /\ toprocess \in SUBSET Tasks
      /\ \A s \in toprocess : Revdeps(s) \cap runq_running = {}
  BY DEF TypeOK, MessagesRight
<1> HIDE DEF toprocess
<1>3. \A t \in runq_running : unihash'[t] = reported[t]
  <2>1. total \cap runq_running = {}
    BY <1>2, NoneDownstream
  <2> HIDE DEF total, reported
  <2> QED
    BY <1>1, <2>1 DEF Retaken, TypeOK
<1>4. Messages' \subseteq Messages
  BY <1>1 DEF Messages
<1>5. \A u : HasFresh(u)' = HasFresh(u) /\ InProgress(u)' = InProgress(u)
  BY <1>1 DEF HasFresh, InProgress
<1>6. \A m \in updated_taskhash_queue' : InProgress(m[1])
  BY <1>1
<1>7. ASSUME NEW t \in Tasks, HasFresh(t) PROVE StampFollowed(t)'
  <2>1. t \in runq_running /\ StampFollowed(t)
    BY <1>7 DEF StampsRight, MessagesRight
  <2>2. PICK h \in Hashes :
          /\ stamps[StampBase[t]][h] = Fresh
          /\ \A m \in Messages : m[1] = t => m = <<t, h>>
          /\ h = unihash[t] \/ <<t, h>> \in Messages
    BY <2>1 DEF StampFollowed
  <2>3. \A m \in taken : m[1] = t => m = <<t, h>>
    BY <2>2 DEF Messages
  <2>4. CASE t \in toprocess
    <3>1. PICK m \in taken : m[1] = t /\ m[2] # unihash[m[1]]
      BY <2>4 DEF toprocess
    <3>2. <<t, h>> \in taken
      BY <2>3, <3>1
    <3>3. \A g \in Hashes : <<t, g>> \in taken => g = h
      <4>1. \A g : <<t, g>>[1] = t /\ <<t, g>>[2] = g
        OBVIOUS
      <4> HIDE DEF taken
      <4>2. \A g : <<t, g>> \in taken => <<t, g>> = <<t, h>>
        BY <2>3, <4>1
      <4> QED
        BY <4>1, <4>2
    <3> HIDE DEF taken
    <3>4. reported[t] = h
      BY <2>4, <3>2, <3>3
    <3> QED
      BY <1>1, <1>3, <1>4, <2>1, <2>2, <3>4 DEF StampFollowed
  <2>5. CASE t \notin toprocess
    <3>1. reported[t] = unihash[t]
      BY <2>5
    <3>2. h = unihash[t] \/ <<t, h>> \in Messages'
      <4>1. CASE <<t, h>> \in taken
        <5>1. <<t, h>>[1] = t /\ <<t, h>>[2] = h
          OBVIOUS
        <5>2. h = unihash[t]
          BY <2>5, <4>1, <5>1 DEF toprocess
        <5> QED
          BY <5>2
      <4>2. CASE <<t, h>> \notin taken
        BY <1>1, <2>2, <4>2 DEF Messages
      <4> QED
        BY <4>1, <4>2
    <3> HIDE DEF taken
    <3> QED
      BY <1>1, <1>3, <1>4, <2>1, <2>2, <3>1, <3>2 DEF StampFollowed
  <2> QED
    BY <2>4, <2>5
<1>8. ASSUME NEW p \in procs, p.kind = "task", p.status = "run"
      PROVE  p.hash = unihash'[p.task] /\ \A m \in Messages' : m[1] # p.task
  <2>1. p.hash = unihash[p.task] /\ \A m \in Messages : m[1] # p.task
    BY <1>8 DEF MessagesRight
  <2>2. p.task \in runq_running /\ p.task \in Tasks
    BY <1>8 DEF Coherent, ProcsRight, InProgress, TypeOK, Processes
  <2>3. p.task \notin toprocess
    BY <2>1 DEF toprocess, Messages
  <2>4. reported[p.task] = unihash[p.task]
    BY <2>2, <2>3
  <2> HIDE DEF taken, reported
  <2> QED
    BY <1>3, <1>4, <2>1, <2>2, <2>4
<1> HIDE DEF taken, reported, total
<1> QED
  BY <1>1, <1>5, <1>6, <1>7, <1>8 DEF MessagesRight

LEMMA MessagesStep ==
  ASSUME StampsApart, TypeOK, Coherent, DependenciesComplete, StampsRight, MessagesRight,
         [Next]_vars
  PROVE  MessagesRight'
<1>1. CASE Environment
  <2>1. CASE WorkerDies
    BY <2>1, WorkerGone DEF WorkerDies
  <2>2. ASSUME NEW how \in {1, 2}, UserInterrupts(how) PROVE MessagesRight'
    BY <2>2, MessagesFrame DEF UserInterrupts
  <2> QED
    BY <1>1, <2>1, <2>2, TaskEndsMessages DEF Environment
<1>2. CASE Read
  <2>1. CASE ReadDone
    BY <2>1, MessagesFrame DEF ReadDone
  <2> QED
    BY <1>2, <2>1, ReadUniHashMessages, ReadExitMessages DEF Read
<1>3. CASE SceneInit \/ BeginPass \/ Finish \/ Return \/ Check
  BY <1>3, MessagesFrame DEF SceneInit, BeginPass, Finish, Return, Check
<1>4. CASE TearDown \/ WriteCrash
  BY <1>4, WorkerGone DEF TearDown, WriteCrash, Crash
<1>5. CASE NothingToRehash \/ MigrateDone
  BY <1>5, MessagesFrame DEF NothingToRehash, MigrateDone
<1>6. CASE \E t \in Setscene : MigrateNot(t) \/ Migrate(t)
  BY <1>6, MessagesFrame DEF MigrateNot, Migrate, MayMigrate
<1>7. CASE SceneNone \/ \E t \in Setscene :
             \/ SceneNotNeeded(t) \/ SceneStaysInvalid(t) \/ SceneOutrightFail(t)
             \/ SceneRunInstead(t) \/ SceneSkip(t)
  BY <1>7, MessagesFrame DEF SceneNone, SceneNotNeeded, SceneStaysInvalid, SceneOutrightFail,
                           SceneRunInstead, SceneSkip, SceneSettles, SceneChosen, SceneNext
<1>8. ASSUME NEW t \in Setscene, SceneStart(t) PROVE MessagesRight'
  BY <1>8, MessagesFrame DEF SceneStart, Process, MustRestore, SceneChosen, SceneNext
<1>9. CASE UpdateHoldoff \/ TailWait \/ TailForce \/ TailDone
  BY <1>9, MessagesFrame DEF UpdateHoldoff, TailWait, TailForce, TailDone
<1>10. CASE NormalNone \/ \E t \in Tasks : TaskWhitelistFail(t)
  BY <1>10, MessagesFrame DEF NormalNone, TaskWhitelistFail, Scheduled
<1>11. CASE Stopped \/ UNCHANGED vars
  BY <1>11, MessagesFrame DEF Stopped
<1> QED
  BY <1>1, <1>2, <1>3, <1>4, <1>5, <1>6, <1>7, <1>8, <1>9, <1>10, <1>11, RehashMessages,
     NormalMessages DEF Next, Loop, Migration, Scene, Normal, TailEnd

(* The build is not called Complete while a hash is yet to be taken over.    *)
NothingUntold ==
  rqstate = "Complete" /\ Undisturbed /\ ~SetsceneOnly => updated_taskhash_queue = {}

LEMMA UntoldStep ==
  ASSUME ~SceneEnforced, TypeOK, Coherent, EndsRight, MessagesRight, NothingUntold, [Next]_vars
  PROVE  NothingUntold'
<1>1. /\ \A st : worker = "up" => StateOnRead(st) = st
      /\ FinalState = "Complete" <=> failed_tids = {}
  BY DEF StateOnRead, FinalState
<1>2. ASSUME UNCHANGED <<rqstate, interrupt>>, updated_taskhash_queue' \subseteq updated_taskhash_queue,
             worker' = "up" => worker = "up"
      PROVE  NothingUntold'
  BY <1>2 DEF NothingUntold, Undisturbed
<1>3. ASSUME worker' # "up" \/ interrupt' # 0 \/ rqstate' # "Complete" \/ SetsceneOnly
      PROVE  NothingUntold'
  BY <1>3 DEF NothingUntold, Undisturbed
<1>4. CASE Environment
  <2>1. ASSUME NEW p \in procs, NEW status, NEW h, TaskEnds(p, status, h) PROVE NothingUntold'
    BY <1>2, <2>1 DEF TaskEnds
  <2>2. CASE WorkerDies \/ \E how \in {1, 2} : UserInterrupts(how)
    BY <1>3, <2>2 DEF WorkerDies, UserInterrupts
  <2> QED
    BY <1>4, <2>1, <2>2 DEF Environment, TaskSucceeds, TaskFails
<1>5. CASE Read
  <2>1. CASE ReadUniHash
    <3>1. ASSUME rqstate = "Complete", Undisturbed, ~SetsceneOnly PROVE FALSE
      <4>1. PICK m \in sent : TRUE
        BY <2>1 DEF ReadUniHash
      <4>2. InProgress(m[1]) /\ m[1] \in Tasks
        BY <3>1, <4>1 DEF MessagesRight, Undisturbed, TypeOK
      <4>3. runq_complete = Tasks
        BY <3>1 DEF EndsRight, Undisturbed
      <4> QED
        BY <4>2, <4>3 DEF InProgress
    <3> QED
      BY <2>1, <3>1 DEF ReadUniHash, NothingUntold, Undisturbed
  <2>2. ASSUME NEW t \in Tasks, ReadExit(t) PROVE NothingUntold'
    <3>1. /\ UNCHANGED <<interrupt, worker, hashvars>>
          /\ rqstate' = rqstate \/ rqstate' = "CleanUp"
      BY <2>2 DEF ReadExit, SetsceneExit, TaskExit, TaskFailState
    <3> QED
      BY <1>2, <1>3, <3>1
  <2> QED
    BY <1>2, <1>5, <2>1, <2>2 DEF Read, ReadDone
<1>6. CASE SceneInit
  BY <1>3, <1>6 DEF SceneInit
<1>7. CASE BeginPass
  BY <1>1, <1>7 DEF BeginPass, NothingUntold, Undisturbed
<1>8. CASE Finish
  BY <1>1, <1>8 DEF Finish, EndsRight, NothingUntold, Undisturbed
<1>9. CASE Return \/ Check
  BY <1>2, <1>9 DEF Return, Check
<1>10. CASE TearDown \/ WriteCrash
  BY <1>3, <1>10 DEF TearDown, WriteCrash, Crash
<1>11. CASE Rehash \/ NothingToRehash \/ MigrateDone \/ \E t \in Setscene : MigrateNot(t)
  BY <1>2, <1>11 DEF Rehash, NothingToRehash, MigrateDone, MigrateNot
<1>12. ASSUME NEW t \in Setscene, Migrate(t) PROVE NothingUntold'
  <2>1. Reopen(t)
    BY <1>12, NothingSkipped DEF Migrate
  <2> QED
    BY <1>2, <1>12, <2>1 DEF Migrate, Reopen
<1>13. CASE Scene
  BY <1>2, <1>13 DEF Scene, SceneNone, SceneSettles, SceneNotNeeded, SceneStaysInvalid,
                     SceneOutrightFail, SceneRunInstead, SceneSkip, SceneStart
<1>14. CASE UpdateHoldoff
  BY <1>2, <1>3, <1>14 DEF UpdateHoldoff
<1>15. CASE NormalNone \/ \E t \in Tasks : \/ TaskCovered(t) \/ TaskExisting(t) \/ TaskNoexec(t)
                                           \/ TaskStart(t)
  BY <1>2, <1>15 DEF NormalNone, TaskCovered, TaskExisting, TaskNoexec, TaskStart, CompleteAtOnce
<1>16. \A t \in Tasks : ~TaskWhitelistFail(t)
  BY DEF TaskWhitelistFail, WhitelistFails
<1>17. CASE TailWait
  BY <1>1, <1>17 DEF TailWait, NothingUntold, Undisturbed
<1>18. CASE TailForce \/ Stopped \/ UNCHANGED vars
  BY <1>2, <1>18 DEF TailForce, Stopped
<1>19. CASE TailDone
  BY <1>19 DEF TailDone, SceneErrors, NothingUntold, Undisturbed
<1> QED
  BY <1>4, <1>5, <1>6, <1>7, <1>8, <1>9, <1>10, <1>11, <1>12, <1>13, <1>14, <1>15, <1>16, <1>17,
     <1>18, <1>19 DEF Next, Loop, Migration, Normal, TailEnd

-----------------------------------------------------------------------------
(* bitbake -f.                                                               *)

(* A stamp is current with all that counts for it only if it is current.     *)
LEMMA RecursiveIsCurrent ==
  ASSUME NEW st, NEW ss, NEW hash, NEW t \in Tasks, StampCurrentRecursive(st, ss, hash, t)
  PROVE  StampCurrent(st, ss, hash, t)
<1> DEFINE good(x)     == StampCurrent(st, ss, hash, x)
           counts(x, d) == Fn[d] = Fn[x] /\ ~Restored(st, ss, hash, d)
           next == [x \in Tasks |-> {d \in Depends[x] : counts(x, d)}]
           below(x) == Closure(next, {x})
           all  == [x \in Tasks |-> \A y \in below(x) : good(y)]
           Is(f) == f = [x \in Tasks |-> good(x) /\ \A d \in Depends[x] : counts(x, d) => f[d]]
           current[x \in Tasks] == good(x) /\ \A d \in Depends[x] : counts(x, d) => current[d]
<1>1. next \in [Tasks -> SUBSET Tasks] /\ IsFiniteSet(Tasks)
  BY DependsAssumption
<1>2. ASSUME NEW x \in Tasks
      PROVE  /\ x \in below(x) /\ below(x) \in SUBSET Tasks
             /\ \A y \in below(x) : next[y] \subseteq below(x)
             /\ \A C \in SUBSET Tasks : x \in C /\ (\A y \in C : next[y] \subseteq C)
                  => below(x) \subseteq C
  <2> DEFINE S == {x}
  <2>1. S \in SUBSET Tasks /\ x \in S /\ \A C : x \in C => S \subseteq C
    OBVIOUS
  <2>2. below(x) = Closure(next, S)
    OBVIOUS
  <2> HIDE DEF next, S, below
  <2> QED
    BY <1>1, <2>1, <2>2, ClosureIsLeast
<1>3. ASSUME NEW x \in Tasks
      PROVE  (\A y \in below(x) : good(y))
               <=> good(x) /\ \A d \in Depends[x] : counts(x, d) => \A y \in below(d) : good(y)
  <2>1. \A d \in Depends[x] : counts(x, d) <=> d \in next[x]
    OBVIOUS
  <2>2. next[x] \subseteq Depends[x] /\ Depends[x] \subseteq Tasks
    BY DependsAssumption
  <2> HIDE DEF next, below, good, counts
  <2>3. \A d \in next[x] : below(d) \subseteq below(x)
    BY <1>2, <2>2
  <2> DEFINE C == {x} \cup UNION {below(d) : d \in next[x]}
  <2>4. below(x) \subseteq C
    <3>1. C \in SUBSET Tasks /\ x \in C
      BY <1>2, <2>2
    <3>2. ASSUME NEW y \in C PROVE next[y] \subseteq C
      <4>1. CASE y = x
        BY <1>2, <2>2, <4>1
      <4>2. ASSUME NEW d \in next[x], y \in below(d) PROVE next[y] \subseteq C
        BY <1>2, <2>2, <4>2
      <4> QED
        BY <4>1, <4>2
    <3> HIDE DEF C
    <3> QED
      BY <1>2, <3>1, <3>2
  <2>5. (\A y \in below(x) : good(y)) <=> good(x) /\ \A d \in next[x] : \A y \in below(d) : good(y)
    BY <1>2, <2>3, <2>4
  <2> QED
    BY <2>1, <2>2, <2>5
<1> HIDE DEF good, counts, next, below
<1>4. Is(all)
  <2> DEFINE other == [x \in Tasks |-> good(x) /\ \A d \in Depends[x] : counts(x, d) => all[d]]
  <2>1. ASSUME NEW x \in Tasks PROVE all[x] = other[x]
    <3>1. \A d \in Depends[x] : d \in Tasks
      BY DependsAssumption
    <3>2. \A d \in Depends[x] : all[d] <=> \A y \in below(d) : good(y)
      BY <3>1, Zenon
    <3>3. other[x] <=> good(x) /\ \A d \in Depends[x] : counts(x, d) => \A y \in below(d) : good(y)
      BY <3>2, Zenon
    <3>4. all[x] <=> \A y \in below(x) : good(y)
      BY Zenon
    <3>5. all[x] <=> other[x]
      BY <1>3, <3>3, <3>4, Zenon
    <3>6. all[x] \in BOOLEAN /\ other[x] \in BOOLEAN
      BY Zenon
    <3> QED
      BY <3>5, <3>6, Zenon
  <2>2. all = other
    BY <2>1, Zenon
  <2> QED
    BY <2>2, Zenon
<1>5. \E f : Is(f)
  <2> HIDE DEF all, Is
  <2> QED
    BY <1>4
<1>6. Is(current)
  BY <1>5
<1>7. current[t]
  BY DEF StampCurrentRecursive, current, good, counts
<1> HIDE DEF current
<1> QED
  BY <1>6, <1>7 DEF good

(* Without a process that reports a hash, a task has the one prepare() gave  *)
(* it.  No earlier build has left a stamp for a target under a hash that it   *)
(* may get: forcing it gave it a new one (invalidate_task writes a taint).   *)
MayGet(t, h) == Reporters = {} => h = InitHash[t]
TargetsTainted ==
  \A t \in Targets, h \in Hashes :
    MayGet(t, h) => <<t, h>> \notin OldStamps \cup OldSetsceneStamps

HashesKept == Reporters = {} => unihash = InitHash /\ Messages = {}

(* A forced target is neither restored nor covered, nothing makes it look    *)
(* built before it has been, and it is complete only when it has been.       *)
TargetsBare ==
  \A t \in Targets, h \in Hashes : MayGet(t, h) =>
    /\ stamps[StampBase[t]][h] # Old
    /\ setscenestamps[StampBase[t]][h] = Missing
TargetsOut   == Targets \cap (sq.covered \cup sq.live \cup tasks_covered) = {}
TargetsBuilt == \A t \in Targets \ Nostamp : t \in runq_complete => HasFresh(t)

ForcedRight == HashesKept /\ TargetsBare /\ TargetsOut /\ TargetsBuilt

LEMMA HashesKeptStep == TypeOK /\ HashesKept /\ [Next]_vars => HashesKept'
<1> SUFFICES ASSUME TypeOK, HashesKept, [Next]_vars, Reporters = {}
             PROVE  unihash' = InitHash /\ Messages' = {}
  BY DEF HashesKept
<1>1. unihash = InitHash /\ sent = {} /\ updated_taskhash_queue = {}
  BY DEF HashesKept, Messages
<1>2. ASSUME UNCHANGED <<unihash, updated_taskhash_queue>>, sent' \in {sent, {}}
      PROVE  unihash' = InitHash /\ Messages' = {}
  BY <1>1, <1>2 DEF Messages
<1>3. CASE Environment
  <2>1. ASSUME NEW p \in procs, NEW h \in Reports(p), NEW status, TaskEnds(p, status, h)
        PROVE  unihash' = InitHash /\ Messages' = {}
    BY <1>2, <2>1 DEF TaskEnds, Reports
  <2> QED
    BY <1>2, <1>3, <2>1 DEF Environment, TaskSucceeds, TaskFails, WorkerDies, UserInterrupts
<1>4. CASE Read
  <2>1. ~ReadUniHash
    BY <1>1 DEF ReadUniHash
  <2> QED
    BY <1>2, <1>4, <2>1 DEF Read, ReadExit, SetsceneExit, TaskExit, ReadDone
<1>5. CASE Loop
  BY <1>2, <1>5 DEF Loop, SceneInit, BeginPass, Finish, Return, Check, TearDown
<1>6. CASE Rehash
  <2> DEFINE taken     == {m \in updated_taskhash_queue : ~InProgress(m[1])}
             toprocess == {m[1] : m \in {n \in taken : n[2] # unihash[n[1]]}}
             reported  == [t \in Tasks |-> IF t \in toprocess
                             THEN CHOOSE h \in Hashes : <<t, h>> \in taken
                             ELSE unihash[t]]
             total     == Downstream(toprocess)
  <2>1. taken = {} /\ toprocess = {}
    BY <1>1
  <2>2. PICK new \in Rehashings(reported, toprocess, total) :
          /\ unihash' = [t \in Tasks |->
                           IF t \in Retaken(total, new, reported) THEN new[t] ELSE reported[t]]
          /\ updated_taskhash_queue' = updated_taskhash_queue \ taken
          /\ sent' = sent
    BY <1>6 DEF Rehash
  <2>3. total = {}
    BY <2>1, DownstreamClosure
  <2>4. \A t \in Tasks : reported[t] = unihash[t]
    BY <2>1
  <2> HIDE DEF taken, toprocess, reported, total
  <2>5. unihash' = [t \in Tasks |-> unihash[t]]
    BY <2>2, <2>3, <2>4 DEF Retaken
  <2>6. unihash' = unihash
    BY <2>5 DEF TypeOK
  <2> QED
    BY <1>1, <1>2, <2>1, <2>2, <2>6
<1>7. CASE NothingToRehash \/ MigrateDone \/ \E t \in Setscene : MigrateNot(t) \/ Migrate(t)
  BY <1>2, <1>7 DEF NothingToRehash, MigrateDone, MigrateNot, Migrate
<1>8. CASE Scene
  BY <1>2, <1>8 DEF Scene, SceneNone, SceneSettles, SceneNotNeeded, SceneStaysInvalid,
                    SceneOutrightFail, SceneRunInstead, SceneSkip, SceneStart
<1>9. CASE UpdateHoldoff \/ TailEnd
  BY <1>2, <1>9 DEF UpdateHoldoff, TailEnd, TailWait, TailForce, TailDone
<1>10. CASE Normal
  BY <1>2, <1>10 DEF Normal, NormalNone, WriteCrash, Crash, TaskWhitelistFail, TaskCovered,
                     TaskExisting, TaskNoexec, TaskStart, CompleteAtOnce
<1>11. CASE Stopped \/ UNCHANGED vars
  BY <1>2, <1>11 DEF Stopped
<1> QED
  BY <1>3, <1>4, <1>5, <1>6, <1>7, <1>8, <1>9, <1>10, <1>11 DEF Next, Migration

LEMMA HashKept ==
  ASSUME TypeOK, HashesKept, NEW t \in Tasks
  PROVE  unihash[t] \in Hashes /\ MayGet(t, unihash[t])
BY DEF TypeOK, HashesKept, MayGet

(* Any step but one that writes the stamp of a task leaves those of the      *)
(* targets alone.                                                           *)
ScenesExecuted == Targets \cap Setscene \cap Noexec = {}

LEMMA StampChange ==
  ASSUME StampsApart, ScenesExecuted, TypeOK, Coherent, TargetsOut, [Next]_vars
  PROVE  \/ \E t \in Tasks \ runq_complete : \E h \in Hashes : Rewritten(t, h)
         \/ /\ stamps' = stamps
            /\ \A t \in Targets : setscenestamps'[StampBase[t]] = setscenestamps[StampBase[t]]
<1> DEFINE Kept == /\ stamps' = stamps
                   /\ \A t \in Targets :
                        setscenestamps'[StampBase[t]] = setscenestamps[StampBase[t]]
           Some == \E t \in Tasks \ runq_complete : \E h \in Hashes : Rewritten(t, h)
<1> SUFFICES Kept \/ Some
  OBVIOUS
<1>1. ASSUME NEW S \in SUBSET Tasks, S \cap Targets = {}, stamps' = stamps,
             \A t \in Tasks \ S : setscenestamps'[StampBase[t]] = setscenestamps[StampBase[t]]
      PROVE  Kept
  BY <1>1, SetsceneAssumption
<1>2. UNCHANGED stampvars => Kept
  OBVIOUS
<1> HIDE DEF Kept
<1>3. ASSUME NEW p \in procs, NEW h \in Reports(p), TaskSucceeds(p, h) PROVE Kept \/ Some
  <2> DEFINE t == p.task
  <2>1. t \in Tasks /\ h \in Hashes /\ p.kind \in {"task", "setscene"}
    BY DEF TypeOK, Processes, Reports
  <2> DEFINE S    == {t}
             hash == [u \in {t} |-> h]
  <2>2. CASE p.kind = "setscene" /\ ~UNCHANGED stampvars
    <3>1. /\ stamps' = stamps /\ setscenestamps' = MakeStamps(setscenestamps, S, hash)
          /\ S \in SUBSET Tasks /\ S \cap Targets = {}
      BY <1>3, <2>1, <2>2 DEF TaskSucceeds, Coherent, ProcsRight, TargetsOut
    <3> HIDE DEF S, hash
    <3>2. \A u \in Tasks \ S : setscenestamps'[StampBase[u]] = setscenestamps[StampBase[u]]
      BY <3>1, ScenesStamped
    <3> QED
      BY <1>1, <3>1, <3>2
  <2>3. CASE p.kind = "task" /\ ~UNCHANGED stampvars
    <3>1. /\ stamps' = MakeStamps(stamps, {t}, hash) /\ hash[t] = h
          /\ setscenestamps' = CleanStamp(setscenestamps, t) /\ t \notin runq_complete
      BY <1>3, <2>1, <2>3 DEF TaskSucceeds, Coherent, ProcsRight, InProgress
    <3> HIDE DEF t, hash
    <3>2. Rewritten(t, hash[t])
      BY <2>1, <3>1, MakeStampRewrites
    <3> QED
      BY <2>1, <3>1, <3>2
  <2> QED
    BY <1>2, <2>1, <2>2, <2>3
<1>4. ASSUME NEW t \in Tasks, TaskNoexec(t) PROVE Kept \/ Some
  <2>1. t \notin runq_complete /\ unihash[t] \in Hashes
    BY <1>4 DEF TaskNoexec, MustRun, Scheduled, Schedulable, Coherent, StartedRight, TypeOK
  <2>2. CASE ~UNCHANGED stampvars
    <3>1. Rewritten(t, unihash[t])
      BY <1>4, <2>2, MakeStampRewrites DEF TaskNoexec
    <3> QED
      BY <2>1, <3>1
  <2> QED
    BY <1>2, <2>2
<1> HIDE DEF Some
<1>5. CASE SceneInit
  <2> DEFINE S == Setscene \cap Noexec
  <2>1. /\ S \in SUBSET Tasks /\ S \cap Targets = {} /\ stamps' = stamps
        /\ setscenestamps' = MakeStamps(setscenestamps, S, unihash)
    BY <1>5, SetsceneFinite DEF SceneInit, ScenesExecuted
  <2> HIDE DEF S
  <2>2. \A t \in Tasks \ S : setscenestamps'[StampBase[t]] = setscenestamps[StampBase[t]]
    BY <2>1, ScenesStamped
  <2> QED
    BY <1>1, <2>1, <2>2
<1>6. CASE MigrateDone
  <2> DEFINE S == migrating.update \cap Noexec
  <2>1. CASE ~UNCHANGED stampvars
    <3>1. /\ S \in SUBSET Tasks /\ S \cap Targets = {} /\ stamps' = stamps
          /\ setscenestamps' = MakeStamps(setscenestamps, S, unihash)
      BY <1>6, <2>1, SetsceneFinite DEF MigrateDone, ScenesExecuted, TypeOK
    <3> HIDE DEF S
    <3>2. \A t \in Tasks \ S : setscenestamps'[StampBase[t]] = setscenestamps[StampBase[t]]
      BY <3>1, ScenesStamped
    <3> QED
      BY <1>1, <3>1, <3>2
  <2> QED
    BY <1>2, <2>1
<1>7. CASE Environment
  BY <1>2, <1>3, <1>7 DEF Environment, TaskFails, WorkerDies, UserInterrupts
<1>8. CASE Read \/ BeginPass \/ Finish \/ Return \/ Check \/ TearDown
  BY <1>2, <1>8 DEF Read, ReadUniHash, ReadExit, ReadDone, BeginPass, Finish, Return, Check, TearDown
<1>9. CASE Rehash \/ NothingToRehash \/ \E t \in Setscene : MigrateNot(t) \/ Migrate(t)
  BY <1>2, <1>9 DEF Rehash, NothingToRehash, MigrateNot, Migrate
<1>10. CASE Scene
  BY <1>2, <1>10 DEF Scene, SceneNone, SceneSettles, SceneNotNeeded, SceneStaysInvalid,
                     SceneOutrightFail, SceneRunInstead, SceneSkip, SceneStart
<1>11. CASE UpdateHoldoff \/ TailEnd
  BY <1>2, <1>11 DEF UpdateHoldoff, TailEnd, TailWait, TailForce, TailDone
<1>12. CASE NormalNone \/ WriteCrash \/ \E t \in Tasks : \/ TaskWhitelistFail(t) \/ TaskCovered(t)
                                                         \/ TaskExisting(t) \/ TaskStart(t)
  BY <1>2, <1>12 DEF NormalNone, WriteCrash, Crash, TaskWhitelistFail, TaskCovered, TaskExisting,
                     TaskStart
<1>13. CASE Stopped \/ UNCHANGED vars
  BY <1>2, <1>13 DEF Stopped
<1> QED
  BY <1>4, <1>5, <1>6, <1>7, <1>8, <1>9, <1>10, <1>11, <1>12, <1>13
     DEF Next, Loop, Migration, Normal

LEMMA TargetsBareStep ==
  ASSUME StampsApart, ScenesExecuted, TypeOK, Coherent, TargetsOut, TargetsBare, [Next]_vars
  PROVE  TargetsBare'
<1>1. Fresh # Old /\ Missing # Old
  BY DEF Fresh, Old, Missing
<1>2. ASSUME NEW t \in Targets, NEW h \in Hashes, MayGet(t, h)
      PROVE  /\ stamps'[StampBase[t]][h] # Old
             /\ setscenestamps'[StampBase[t]][h] = Missing
  <2>1. /\ t \in Tasks /\ stamps[StampBase[t]][h] # Old
        /\ setscenestamps[StampBase[t]][h] = Missing
    BY <1>2, SetsceneAssumption DEF TargetsBare
  <2>2. ASSUME NEW u \in Tasks, NEW g \in Hashes, Rewritten(u, g)
        PROVE  /\ stamps'[StampBase[t]][h] # Old
               /\ setscenestamps'[StampBase[t]][h] = Missing
    BY <1>1, <2>1, <2>2 DEF Rewritten
  <2> QED
    BY <2>1, <2>2, StampChange
<1>3. \A t, h : MayGet(t, h)' = MayGet(t, h)
  BY DEF MayGet
<1> QED
  BY <1>2, <1>3 DEF TargetsBare

(* A target that has not been started does not look built.                   *)
LEMMA LooksUnbuilt ==
  ASSUME TypeOK, StampsRight, HashesKept, TargetsBare, NEW t \in Targets, t \notin runq_running
  PROVE  /\ ~TaskCurrent(t)
         /\ \A tids \in SUBSET Setscene : t \notin AlreadyStamped(tids) \ Noexec
<1>1. t \in Tasks /\ unihash[t] \in Hashes /\ MayGet(t, unihash[t])
  BY HashKept, SetsceneAssumption
<1>2. stamps[StampBase[t]][unihash[t]] = Missing /\ setscenestamps[StampBase[t]][unihash[t]] = Missing
  <2>1. stamps[StampBase[t]][unihash[t]] \in {Missing, Old, Fresh}
    BY <1>1 DEF TypeOK, StampState, Bases
  <2>2. ~HasFresh(t)
    BY <1>1 DEF StampsRight
  <2> QED
    BY <1>1, <2>1, <2>2 DEF TargetsBare, HasFresh
<1>3. \A ss : ~StampCurrent(stamps, ss, unihash, t)
  BY <1>2 DEF StampCurrent, Age
<1>4. ASSUME NEW tids \in SUBSET Setscene, t \in AlreadyStamped(tids) PROVE FALSE
  <2>1. ~SetsceneStampPresent(setscenestamps, unihash, t)
    BY <1>2 DEF SetsceneStampPresent, Age
  <2>2. PICK ss : StampCurrentRecursive(stamps, ss, unihash, t)
    BY <1>4, <2>1 DEF AlreadyStamped
  <2>3. StampCurrent(stamps, ss, unihash, t)
    BY <1>1, <2>2, RecursiveIsCurrent
  <2> QED
    BY <1>3, <2>3
<1> QED
  BY <1>3, <1>4 DEF TaskCurrent

LEMMA TargetsBuiltStep ==
  ASSUME StampsApart, ScenesExecuted, ~DryRun, ~SceneEnforced, TypeOK, Coherent,
         StampsRight, ForcedRight, [Next]_vars
  PROVE  TargetsBuilt'
<1>1. ASSUME NEW u \in runq_complete, HasFresh(u) PROVE HasFresh(u)'
  <2>1. CASE stamps' = stamps
    BY <1>1, <2>1 DEF HasFresh
  <2>2. ASSUME NEW t \in Tasks \ runq_complete, NEW h \in Hashes, Rewritten(t, h)
        PROVE  HasFresh(u)'
    BY <1>1, <2>2 DEF Rewritten, HasFresh, TypeOK
  <2> QED
    BY <2>1, <2>2, StampChange DEF ForcedRight
<1>2. ASSUME runq_complete' = runq_complete PROVE TargetsBuilt'
  BY <1>1, <1>2 DEF ForcedRight, TargetsBuilt
<1>3. ASSUME NEW t \in Tasks, runq_complete' = runq_complete \cup {t},
             t \in Targets \ Nostamp => HasFresh(t)'
      PROVE  TargetsBuilt'
  BY <1>1, <1>3 DEF ForcedRight, TargetsBuilt
<1>4. ASSUME NEW t \in Tasks, ReadExit(t) PROVE TargetsBuilt'
  <2>1. CASE t \in sq.live
    BY <1>2, <1>4, <2>1 DEF ReadExit, SetsceneExit
  <2>2. CASE t \notin sq.live
    <3>1. PICK p \in procs : p.task = t /\ TaskExit(t, p.status = "ok")
      BY <1>4, <2>2 DEF ReadExit
    <3>2. CASE p.status = "ok"
      <4>1. p.kind = "task"
        BY <2>2, <3>1, KindIsKnown DEF TypeOK, Processes
      <4>2. t \in Nostamp \/ HasFresh(t)
        BY <3>1, <3>2, <4>1 DEF StampsRight, StampedBy, Pretends
      <4>3. HasFresh(t)' = HasFresh(t)
        BY <1>4 DEF ReadExit, HasFresh
      <4> QED
        BY <1>3, <3>1, <3>2, <4>2, <4>3 DEF TaskExit
    <3>3. CASE p.status # "ok"
      BY <1>2, <3>1, <3>3 DEF TaskExit
    <3> QED
      BY <3>2, <3>3
  <2> QED
    BY <2>1, <2>2
<1>5. ASSUME NEW t \in Tasks, TaskCovered(t) \/ TaskExisting(t) PROVE TargetsBuilt'
  <2>1. t \notin runq_running
    BY <1>5 DEF TaskCovered, TaskExisting, Scheduled, Schedulable
  <2>2. t \notin Targets
    BY <1>5, <2>1, LooksUnbuilt DEF TaskCovered, TaskExisting, ForcedRight, TargetsOut
  <2> QED
    BY <1>3, <1>5, <2>2 DEF TaskCovered, TaskExisting, CompleteAtOnce
<1>6. ASSUME NEW t \in Tasks, TaskNoexec(t) PROVE TargetsBuilt'
  <2>1. Rewritten(t, unihash[t]) /\ unihash[t] \in Hashes
    BY <1>6, MakeStampRewrites DEF TaskNoexec, TypeOK
  <2>2. HasFresh(t)'
    BY <2>1 DEF Rewritten, HasFresh
  <2> QED
    BY <1>3, <1>6, <2>2 DEF TaskNoexec, CompleteAtOnce
<1>7. CASE Environment
  BY <1>2, <1>7 DEF Environment, TaskSucceeds, TaskFails, TaskEnds, WorkerDies, UserInterrupts
<1>8. CASE ReadUniHash \/ ReadDone \/ Loop
  BY <1>2, <1>8 DEF ReadUniHash, ReadDone, Loop, SceneInit, BeginPass, Finish, Return, Check, TearDown
<1>9. CASE Migration
  BY <1>2, <1>9 DEF Migration, Rehash, NothingToRehash, MigrateDone, MigrateNot, Migrate
<1>10. CASE Scene
  BY <1>2, <1>10 DEF Scene, SceneNone, SceneSettles, SceneNotNeeded, SceneStaysInvalid,
                     SceneOutrightFail, SceneRunInstead, SceneSkip, SceneStart
<1>11. CASE UpdateHoldoff \/ TailEnd
  BY <1>2, <1>11 DEF UpdateHoldoff, TailEnd, TailWait, TailForce, TailDone
<1>12. CASE NormalNone \/ WriteCrash \/ \E t \in Tasks : TaskWhitelistFail(t) \/ TaskStart(t)
  BY <1>2, <1>12 DEF NormalNone, WriteCrash, Crash, TaskWhitelistFail, TaskStart
<1>13. CASE Stopped \/ UNCHANGED vars
  BY <1>2, <1>13 DEF Stopped
<1> QED
  BY <1>4, <1>5, <1>6, <1>7, <1>8, <1>9, <1>10, <1>11, <1>12, <1>13 DEF Next, Read, Normal

(* What update_scenequeue_data takes for covered is noexec or stamped.       *)
LEMMA CoveredAtOnce ==
  ASSUME NEW q \in SceneQueueType, NEW tids \in SUBSET Setscene, NEW r \in UpdatedScenes(q, tids)
  PROVE  /\ r.covered \subseteq q.covered \cup (tids \cap (Noexec \cup AlreadyStamped(tids)))
         /\ r.live = q.live /\ r \in SceneQueueType
<1> DEFINE stamped == AlreadyStamped(tids)
           noexec  == Noexec \cap Setscene
           skip    == tids \cap (noexec \cup stamped)
<1>1. PICK found \in SUBSET ((tids \cap Cached) \ (Noexec \cup stamped)) :
        r = UpdateSceneQueueData(q, tids, noexec, stamped, found, unihash)
  BY DEF UpdatedScenes
<1>2. skip \in SUBSET Setscene /\ skip \subseteq tids \cap (Noexec \cup AlreadyStamped(tids))
  OBVIOUS
<1> HIDE DEF stamped, noexec
<1> DEFINE cleared == [q EXCEPT
                         !.stamppresent = (@ \ tids) \cup (tids \cap (stamped \ noexec)),
                         !.valid        = (@ \ tids) \cup found]
           skipped == SqSkipAll(cleared, skip)
<1>3. cleared \in SceneQueueType /\ cleared.covered = q.covered /\ cleared.live = q.live
  BY DEF SceneQueueType
<1>4. r = Reconsider(skipped, noexec, unihash)
  BY <1>1 DEF UpdateSceneQueueData
<1> HIDE DEF cleared, skip
<1>5. Grows(cleared, skipped) /\ skipped.covered = cleared.covered \cup skip
  BY <1>2, <1>3, SqSkipAllSound
<1> HIDE DEF skipped
<1>6. SameDecisions(skipped, r)
  BY <1>4, <1>5, ReconsiderSame DEF Grows, Keeps
<1> QED
  BY <1>2, <1>3, <1>5, <1>6 DEF SameDecisions, Grows, Keeps

LEMMA SceneInitOut ==
  ASSUME ForceTargets, ScenesExecuted, TypeOK, Coherent, StampsRight, ForcedRight, SceneInit
  PROVE  TargetsOut'
<1> DEFINE names == [s \in Setscene |-> StampName(s, "setscene", unihash[s])]
           q     == NewSceneQueue(names)
<1>1. q \in SceneQueueType /\ q.covered = {} /\ q.live = {} /\ sq' \in UpdatedScenes(q, Setscene)
  <2>1. names \in [Setscene -> StampNames]
    BY SetsceneFinite, StampNameType DEF TypeOK
  <2>2. sq' \in UpdatedScenes(q, Setscene)
    BY DEF SceneInit
  <2> HIDE DEF names
  <2>3. q \in SceneQueueType
    BY <2>1, NewSceneQueueType
  <2>4. q.covered = {} /\ q.live = {}
    BY DEF NewSceneQueue
  <2> QED
    BY <2>2, <2>3, <2>4
<1> HIDE DEF q
<1> DEFINE tids == Setscene
<1>2. tids \in SUBSET Setscene
  OBVIOUS
<1>3. sq' \in UpdatedScenes(q, tids)
  BY <1>1
<1> HIDE DEF tids
<1>4. /\ sq'.covered \subseteq tids \cap (Noexec \cup AlreadyStamped(tids)) /\ sq'.live = {}
  BY <1>1, <1>2, <1>3, CoveredAtOnce
<1>5. runq_running = {} /\ tasks_covered' = tasks_covered
  BY DEF SceneInit, Coherent, EarlyRight
<1>6. ASSUME NEW t \in Targets, t \in sq'.covered PROVE FALSE
  <2>1. t \in Setscene /\ t \in Noexec
    BY <1>2, <1>4, <1>5, <1>6, LooksUnbuilt DEF ForcedRight
  <2> QED
    BY <2>1 DEF ScenesExecuted
<1> QED
  BY <1>4, <1>5, <1>6 DEF ForcedRight, TargetsOut

LEMMA MigrateDoneOut ==
  ASSUME ForceTargets, ScenesExecuted, TypeOK, Coherent, UpdateFresh, StampsRight, ForcedRight,
         MigrateDone
  PROVE  TargetsOut'
<1> DEFINE U == migrating.update
           X == migrating.harddepfail
<1>1. /\ sq \in SceneQueueType /\ U \in SUBSET Setscene /\ X \in SUBSET Setscene
      /\ U \cap runq_running = {} /\ tasks_covered' = tasks_covered
  BY NotStarted DEF TypeOK, MigrateDone
<1>2. CASE U = {}
  BY <1>2 DEF MigrateDone, ForcedRight, TargetsOut
<1>3. CASE U # {}
  <2>1. PICK q \in UpdatedScenes(sq, U) : sq' = IF X = {} THEN q ELSE SqFailOutrightAll(q, X)
    BY <1>3 DEF MigrateDone
  <2> HIDE DEF U, X
  <2>2. /\ q.covered \subseteq sq.covered \cup (U \cap (Noexec \cup AlreadyStamped(U)))
        /\ q.live = sq.live /\ q \in SceneQueueType
    BY <1>1, <2>1, CoveredAtOnce
  <2>3. sq'.covered = q.covered /\ sq'.live = q.live
    BY <1>1, <2>1, <2>2, SqFailOutrightAllSound DEF Grows, Keeps
  <2>4. ASSUME NEW t \in Targets, t \in U, t \in Noexec \cup AlreadyStamped(U) PROVE FALSE
    <3>1. t \in Setscene /\ t \in Noexec
      BY <1>1, <2>4, LooksUnbuilt DEF ForcedRight
    <3> QED
      BY <3>1, <2>4 DEF ScenesExecuted
  <2> QED
    BY <1>1, <2>2, <2>3, <2>4 DEF ForcedRight, TargetsOut
<1> QED
  BY <1>2, <1>3

(* A setscene task that settles without a process is no target, or is not    *)
(* covered.                                                                 *)
LEMMA SceneOut ==
  ASSUME ForceTargets, TypeOK, Coherent, TargetsOut, Scene
  PROVE  TargetsOut'
<1>1. CASE SceneNone
  BY <1>1 DEF SceneNone, TargetsOut
<1>2. ASSUME NEW t \in Setscene, NEW q, SceneNext(t), SceneSettles(q),
             q.live = sq.live, q.covered \subseteq sq.covered \cup ({t} \ Targets)
      PROVE  TargetsOut'
  BY <1>2 DEF SceneSettles, TargetsOut
<1>3. ASSUME NEW t \in Setscene,
             \/ SceneStaysInvalid(t) \/ SceneOutrightFail(t) \/ SceneRunInstead(t)
      PROVE  TargetsOut'
  <2>1. PICK q : SameDecisions(sq, q) /\ SceneSettles(SqFailOutrightAll(q, {t}))
    <3>1. SameDecisions(sq, Undeferred(t)) /\ SameDecisions(sq, Retried(t))
      BY UndeferredSame
    <3>2. SameDecisions(sq, sq)
      BY DEF SameDecisions, TypeOK
    <3> QED
      BY <1>3, <3>1, <3>2 DEF SceneStaysInvalid, SceneOutrightFail, SceneRunInstead
  <2>2. SceneNext(t)
    BY <1>3 DEF SceneStaysInvalid, SceneOutrightFail, SceneRunInstead, SceneChosen
  <2> DEFINE r == SqFailOutrightAll(q, {t})
  <2>3. Grows(sq, r) /\ r.covered = sq.covered
    BY <2>1, <2>2, TakenUpSettles
  <2>4. SceneSettles(r)
    BY <2>1
  <2> HIDE DEF r
  <2> QED
    BY <1>2, <2>2, <2>3, <2>4 DEF Grows, Keeps
<1>4. ASSUME NEW t \in Setscene, SceneSkip(t)
      PROVE  TargetsOut'
  <2> DEFINE q == Retried(t)
             r == SqSkipAll(q, {t})
  <2>1. SameDecisions(sq, q) /\ SceneSettles(r)
    BY <1>4, UndeferredSame DEF SceneSkip
  <2>2. SceneNext(t) /\ t \notin Targets
    BY <1>4 DEF SceneSkip, SceneChosen, Forced
  <2>3. Grows(sq, r) /\ r.covered = sq.covered \cup {t}
    BY <2>1, <2>2, TakenUpSettles
  <2> HIDE DEF r
  <2> QED
    BY <1>2, <2>1, <2>2, <2>3 DEF Grows, Keeps
<1>5. ASSUME NEW t \in Setscene, SceneNotNeeded(t)
      PROVE  TargetsOut'
  <2> DEFINE q == Undeferred(t)
             r == SqSkipAll(q, {t})
             u == [r EXCEPT !.notneeded = @ \cup {t}]
  <2>1. SameDecisions(sq, q) /\ SceneSettles(u)
    BY <1>5, UndeferredSame DEF SceneNotNeeded
  <2>2. SceneNext(t) /\ t \notin Targets
    BY <1>5 DEF SceneNotNeeded, NotNeeded
  <2>3. Grows(sq, r) /\ r.covered = sq.covered \cup {t}
    BY <2>1, <2>2, TakenUpSettles
  <2> HIDE DEF r
  <2>4. u.covered = r.covered /\ u.live = r.live
    BY <2>3 DEF Grows, Keeps, SceneQueueType
  <2> HIDE DEF u
  <2> QED
    BY <1>2, <2>1, <2>2, <2>3, <2>4 DEF Grows, Keeps
<1>6. ASSUME NEW t \in Setscene, SceneStart(t)
      PROVE  TargetsOut'
  <2> DEFINE q == Retried(t)
  <2>1. SameDecisions(sq, q) /\ t \notin Targets
    BY <1>6, UndeferredSame DEF SceneStart, MustRestore, Forced
  <2>2. /\ sq' = [q EXCEPT !.running = @ \cup {t}, !.live = @ \cup {t}]
        /\ tasks_covered' = tasks_covered
    BY <1>6 DEF SceneStart
  <2> HIDE DEF q
  <2>3. sq'.covered = sq.covered /\ sq'.live = sq.live \cup {t}
    BY <2>1, <2>2 DEF SameDecisions, SceneQueueType
  <2> QED
    BY <2>1, <2>2, <2>3 DEF TargetsOut
<1> QED
  BY <1>1, <1>3, <1>4, <1>5, <1>6 DEF Scene

LEMMA TargetsOutStep ==
  ASSUME ForceTargets, ScenesExecuted, TypeOK, Coherent, UpdateFresh, StampsRight, ForcedRight,
         [Next]_vars
  PROVE  TargetsOut'
<1>1. TargetsOut
  BY DEF ForcedRight
<1>2. ASSUME UNCHANGED <<sq, tasks_covered>> PROVE TargetsOut'
  BY <1>1, <1>2 DEF TargetsOut
<1>3. ASSUME NEW t \in Tasks, ReadExit(t) PROVE TargetsOut'
  <2>1. CASE t \in sq.live
    <3>1. PICK ok \in BOOLEAN : SetsceneExit(t, ok)
      BY <1>3, <2>1 DEF ReadExit
    <3>2. QueueSound(sq, {})
      BY <1>3 DEF ReadExit, Reading, Coherent, QueueRight, PendingRight, NotMigrating
    <3>3. sq'.covered \subseteq sq.covered \cup {t} /\ sq'.live = sq.live \ {t}
      BY <2>1, <3>1, <3>2, SetsceneExitSettles
    <3>4. tasks_covered' = tasks_covered /\ t \notin Targets
      BY <1>1, <2>1, <3>1 DEF SetsceneExit, TargetsOut
    <3> QED
      BY <1>1, <3>3, <3>4 DEF TargetsOut
  <2>2. CASE t \notin sq.live
    BY <1>2, <1>3, <2>2 DEF ReadExit, TaskExit
  <2> QED
    BY <2>1, <2>2
<1>4. ASSUME NEW t \in Setscene, Migrate(t) PROVE TargetsOut'
  <2>1. Reopen(t) /\ tasks_covered' = tasks_covered
    BY <1>4, NothingSkipped DEF Migrate
  <2>2. sq'.covered \subseteq sq.covered /\ sq'.live = sq.live
    BY <2>1 DEF Reopen, Unsettled, TypeOK, SceneQueueType
  <2> QED
    BY <1>1, <2>1, <2>2 DEF TargetsOut
<1>5. CASE UpdateHoldoff
  <2>1. tasks_covered' \in {NewCovered, tasks_covered} /\ sq' = sq
    BY <1>5 DEF UpdateHoldoff
  <2>2. Targets \cap NewCovered = {}
    <3>1. ASSUME NEW t \in Targets, t \in Setscene PROVE t \notin NewCovered
      <4>1. t \notin CoveredBy(sq.covered)
        BY <3>1, CoveredClosure DEF CoveredBy, TypeOK, SceneQueueType
      <4> QED
        BY <1>1, <4>1 DEF NewCovered, TargetsOut
    <3>2. ASSUME NEW t \in Targets, t \notin Setscene PROVE t \notin NewCovered
      BY <3>2 DEF NewCovered, NewNotCovered, CantSkip
    <3> QED
      BY <3>1, <3>2
  <2> QED
    BY <1>1, <2>1, <2>2 DEF TargetsOut
<1>6. CASE TailForce
  <2> DEFINE t == First(DOMAIN sq.deferred)
             q == Undeferred(t)
             f == sq.deferred[t]
             r == SqFailOutrightAll(q, {f})
  <2>1. DOMAIN sq.deferred \subseteq Setscene /\ sq.deferred \in [DOMAIN sq.deferred -> Setscene]
    BY DEF TypeOK, SceneQueueType
  <2>2. t \in DOMAIN sq.deferred
    BY <1>6, <2>1, FirstIsMember DEF TailForce
  <2>3. t \in Setscene /\ f \in Setscene
    BY <2>1, <2>2
  <2>4. sq' = r /\ tasks_covered' = tasks_covered
    BY <1>6 DEF TailForce
  <2> HIDE DEF t, f
  <2>5. SameDecisions(sq, q)
    BY <2>3, UndeferredSame
  <2>6. Grows(q, r) /\ r.covered = q.covered
    BY <2>3, <2>5, SqFailOutrightAllSound DEF SameDecisions
  <2> HIDE DEF r, q
  <2>7. sq'.covered = sq.covered /\ sq'.live = sq.live
    BY <2>4, <2>5, <2>6 DEF SameDecisions, Grows, Keeps
  <2> QED
    BY <1>1, <2>4, <2>7 DEF TargetsOut
<1>7. CASE Environment
  BY <1>2, <1>7 DEF Environment, TaskSucceeds, TaskFails, TaskEnds, WorkerDies, UserInterrupts
<1>8. CASE ReadUniHash \/ ReadDone \/ BeginPass \/ Finish \/ Return \/ Check \/ TearDown
  BY <1>2, <1>8 DEF ReadUniHash, ReadDone, BeginPass, Finish, Return, Check, TearDown
<1>9. CASE Rehash \/ NothingToRehash \/ \E t \in Setscene : MigrateNot(t)
  BY <1>2, <1>9 DEF Rehash, NothingToRehash, MigrateNot
<1>10. CASE Normal
  BY <1>2, <1>10 DEF Normal, NormalNone, WriteCrash, Crash, TaskWhitelistFail, TaskCovered,
                     TaskExisting, TaskNoexec, TaskStart, CompleteAtOnce
<1>11. CASE TailWait \/ TailDone \/ Stopped \/ UNCHANGED vars
  BY <1>2, <1>11 DEF TailWait, TailDone, Stopped
<1> QED
  BY <1>1, <1>3, <1>4, <1>5, <1>6, <1>7, <1>8, <1>9, <1>10, <1>11, SceneInitOut, MigrateDoneOut,
     SceneOut DEF Next, Read, Loop, Migration, TailEnd

LEMMA ForcedInit == StampsApart /\ TargetsTainted /\ Init => ForcedRight
<1> SUFFICES ASSUME StampsApart, TargetsTainted, Init PROVE ForcedRight
  OBVIOUS
<1>1. ASSUME NEW S, S \subseteq OldStamps \cup OldSetsceneStamps,
             NEW t \in Targets, NEW h \in Hashes, MayGet(t, h)
      PROVE  StampsOf(S)[StampBase[t]][h] = Missing
  <2>1. t \in Tasks /\ <<t, h>> \notin S
    BY <1>1, SetsceneAssumption DEF TargetsTainted
  <2>2. StampsOf(S)[StampBase[t]][h]
          = IF \E u \in Tasks : StampBase[u] = StampBase[t] /\ <<u, h>> \in S
            THEN Old ELSE Missing
    BY <2>1 DEF StampsOf, Bases
  <2> QED
    BY <2>1, <2>2 DEF StampsApart
<1>2. Missing # Old
  BY DEF Missing, Old
<1>3. TargetsBare
  <2>1. PICK S \in SUBSET OldStamps : stamps = StampsOf(S)
    BY DEF Init
  <2>2. PICK R \in SUBSET OldSetsceneStamps : setscenestamps = StampsOf(R)
    BY DEF Init
  <2>3. ASSUME NEW t \in Targets, NEW h \in Hashes, MayGet(t, h)
        PROVE  /\ stamps[StampBase[t]][h] # Old
               /\ setscenestamps[StampBase[t]][h] = Missing
    <3>1. StampsOf(S)[StampBase[t]][h] = Missing /\ StampsOf(R)[StampBase[t]][h] = Missing
      BY <1>1, <2>3
    <3> QED
      BY <1>2, <2>1, <2>2, <3>1
  <2> QED
    BY <2>3 DEF TargetsBare
<1>4. HashesKept /\ TargetsOut /\ TargetsBuilt
  BY DEF Init, HashesKept, Messages, TargetsOut, TargetsBuilt, NewSceneQueue
<1> QED
  BY <1>3, <1>4 DEF ForcedRight

(* A forced target has run in this build, and the server knows it by the     *)
(* hash its stamp has.                                                       *)
LEMMA ForcedAreBuilt ==
  ASSUME ~SetsceneOnly, TypeOK, EndsRight, MessagesRight, NothingUntold, ForcedRight
  PROVE  ForcedTargetsBuilt
<1> SUFFICES ASSUME rqstate = "Complete", Undisturbed, NEW t \in Targets \ Nostamp
             PROVE  Age(stamps, unihash, t) = Fresh
  BY DEF ForcedTargetsBuilt
<1>1. runq_complete = Tasks /\ t \in Tasks
  BY SetsceneAssumption DEF EndsRight, Undisturbed
<1>2. Messages = {}
  <2>1. sent = {}
    BY <1>1 DEF MessagesRight, Undisturbed, InProgress, TypeOK
  <2> QED
    BY <2>1 DEF NothingUntold, Messages
<1>3. HasFresh(t)
  BY <1>1 DEF ForcedRight, TargetsBuilt
<1>4. StampFollowed(t)
  BY <1>1, <1>3 DEF MessagesRight, Undisturbed
<1> QED
  BY <1>2, <1>4 DEF StampFollowed, Age

LEMMA StampsAreUpToDate == TypeOK /\ StampsRight => ExistingIsUpToDate
<1> SUFFICES ASSUME TypeOK, StampsRight, NEW t \in runq_tasksrun, Age(stamps, unihash, t) = Old,
                    NEW d \in Depends[t], Fn[d] = Fn[t]
             PROVE  Age(stamps, unihash, d) # Fresh
  BY DEF ExistingIsUpToDate
<1>1. t \in Tasks /\ d \in Tasks /\ unihash[t] \in Hashes /\ unihash[d] \in Hashes
  BY DependsAssumption DEF TypeOK
<1>2. HasOld(t)
  BY <1>1 DEF HasOld, Age
<1>3. ~HasFresh(d)
  BY <1>2 DEF StampsRight
<1> QED
  BY <1>1, <1>3 DEF HasFresh, Age

(* A task is taken for run by the stamp of an earlier build only if nothing  *)
(* of its recipe it depends on was run again (check_stamp_task), and a build *)
(* with -f that is Complete has run its targets, whatever hash they got      *)
(* meanwhile.  A task with the nostamp flag has never left a stamp; the      *)
(* build is one in which no two tasks have a stamp file in common.  For -f,  *)
(* it is one that writes stamps for what it runs, the targets have left no   *)
(* stamp under the hashes they may get now (invalidate_task has changed      *)
(* those), and none of their setscene variants is noexec.                    *)
THEOREM StampsTrustedAlways ==
  /\ StampsApart /\ NostampUnstamped
  /\ ForceTargets =>
       ~DryRun /\ ~SceneEnforced /\ ~SetsceneOnly /\ TargetsTainted /\ ScenesExecuted
  => (Spec => []StampsTrusted)
<1> SUFFICES ASSUME StampsApart, NostampUnstamped,
                    ForceTargets => /\ ~DryRun /\ ~SceneEnforced /\ ~SetsceneOnly
                                    /\ TargetsTainted /\ ScenesExecuted
             PROVE  Spec => []StampsTrusted
  OBVIOUS
<1>1. Init => StampsRight /\ UpdateFresh
  BY StampsInit DEF Init, UpdateFresh, NotMigrating
<1>2. /\ TypeOK /\ Coherent /\ DependenciesComplete /\ StampsRight /\ UpdateFresh /\ [Next]_vars
      /\ Coherent'
      => (StampsRight /\ UpdateFresh)'
  BY StampsStep, UpdateFreshStep
<1>3. Spec => [](TypeOK /\ Coherent /\ DependenciesComplete /\ StampsRight /\ UpdateFresh)
  BY <1>1, <1>2, TypeCorrect, CoherentAlways, DependenciesCompleteAlways, PTL DEF Spec
<1>4. CASE ~ForceTargets
  <2>1. TypeOK /\ StampsRight => StampsTrusted
    BY <1>4, StampsAreUpToDate DEF StampsTrusted, ForcedTargetsBuilt
  <2> QED
    BY <1>3, <2>1, PTL
<1>5. CASE ForceTargets
  <2>1. ~DryRun /\ ~SceneEnforced /\ ~SetsceneOnly /\ TargetsTainted /\ ScenesExecuted
    BY <1>5
  <2>2. Init => MessagesRight /\ NothingUntold /\ ForcedRight
    <3>1. Init => MessagesRight
      <4> SUFFICES ASSUME Init PROVE MessagesRight
        OBVIOUS
      <4>1. StampsRight /\ runq_running = {} /\ sent = {} /\ updated_taskhash_queue = {}
            /\ procs = {}
        BY <1>1 DEF Init
      <4> QED
        BY <4>1 DEF MessagesRight, StampsRight
    <3>2. Init => NothingUntold
      BY DEF Init, NothingUntold
    <3> QED
      BY <2>1, <3>1, <3>2, ForcedInit
  <2>3. /\ TypeOK /\ Coherent /\ DependenciesComplete /\ StampsRight /\ UpdateFresh /\ EndsRight
        /\ MessagesRight /\ NothingUntold /\ ForcedRight /\ [Next]_vars
        => (MessagesRight /\ NothingUntold /\ ForcedRight)'
    <3> SUFFICES ASSUME TypeOK, Coherent, DependenciesComplete, StampsRight, UpdateFresh,
                        EndsRight, MessagesRight, NothingUntold, ForcedRight, [Next]_vars
                 PROVE  (MessagesRight /\ NothingUntold /\ ForcedRight)'
      OBVIOUS
    <3>1. MessagesRight' /\ NothingUntold'
      BY <2>1, MessagesStep, UntoldStep
    <3>2. HashesKept' /\ TargetsBare' /\ TargetsOut' /\ TargetsBuilt'
      BY <1>5, <2>1, HashesKeptStep, TargetsBareStep, TargetsOutStep, TargetsBuiltStep
         DEF ForcedRight
    <3> QED
      BY <3>1, <3>2 DEF ForcedRight
  <2>4. TypeOK /\ StampsRight /\ EndsRight /\ MessagesRight /\ NothingUntold /\ ForcedRight
        => StampsTrusted
    BY <2>1, StampsAreUpToDate, ForcedAreBuilt DEF StampsTrusted
  <2>5. Spec => []EndsRight
    BY <2>1, EndsAlways
  <2> QED
    BY <1>3, <2>2, <2>3, <2>4, <2>5, PTL DEF Spec
<1> QED
  BY <1>4, <1>5

=============================================================================
