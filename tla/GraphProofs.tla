---------------------------- MODULE GraphProofs ----------------------------
(***************************************************************************)
(* Theorems about how a build gets its graphs.                              *)
(***************************************************************************)
EXTENDS BuildSceneQueue, PrepareRunQueue, ClosureLemmas, SequenceTheorems

\* What collapse is about: any graph whose tasks depend on smaller ones.
InputsOK ==
  /\ depends \in [Tasks -> SUBSET Tasks] /\ \A t \in Tasks : depends[t] \subseteq 1..(t - 1)
  /\ setscene \subseteq Tasks /\ targets \subseteq Tasks
  /\ idepends \subseteq setscene \X setscene /\ AcyclicRelation(idepends)

CollapseTypeOK ==
  /\ phase \in {"process", "unskippable", "harddeps", "done"}
  /\ sq_revdeps \in [Tasks -> SUBSET Tasks]
  /\ sq_revdeps_squash \in [Tasks -> SUBSET setscene]
  /\ sq_collated_deps \in [setscene -> SUBSET (Tasks \ setscene)]
  /\ DOMAIN endpoints \subseteq Tasks /\ endpoints \in [DOMAIN endpoints -> SUBSET setscene]
  /\ DOMAIN newendpoints \subseteq Tasks
  /\ newendpoints \in [DOMAIN newendpoints -> SUBSET setscene]
  /\ todo \subseteq DOMAIN endpoints
  /\ unskippable \subseteq Tasks
  /\ harddeps \in [setscene -> SUBSET setscene]
  /\ todepend \subseteq idepends

\* The setscene tasks that t was or is to be handed, as far as they are
\* collated already.
Handed(t) ==
  {s \in setscene : t \in depends[s] \/ \E p \in sq_collated_deps[s] : t \in depends[p]}

\* A set that has, with s, all that a setscene task s covers
Covers(s, C) ==
  depends[s] \ setscene \subseteq C /\ \A t \in C : depends[t] \ setscene \subseteq C

\* A task is handed nothing but what reaches it.
OnlyHanded ==
  /\ \A t \in Tasks : sq_revdeps_squash[t] \subseteq Handed(t)
  /\ \A t \in DOMAIN endpoints : endpoints[t] \subseteq Handed(t)
  /\ \A t \in DOMAIN newendpoints : newendpoints[t] \subseteq Handed(t)

CollatedSound ==
  \A s \in setscene, C \in SUBSET Tasks : Covers(s, C) => sq_collated_deps[s] \subseteq C

\* What reaches a task is collated there, waits there, or is on the list.
NoneDropped ==
  \A t \in Tasks : \A s \in Handed(t) :
    \/ t \notin setscene /\ t \in sq_collated_deps[s]
    \/ s \in sq_revdeps_squash[t]
    \/ t \in todo /\ s \in endpoints[t]

Listed == todo \cup DOMAIN newendpoints

\* A plain task on which something waits will have its turn.
TurnToCome ==
  /\ \A t \in Tasks : sq_revdeps[t] \subseteq Revdeps(t) \ setscene
  /\ \A t \in Tasks \ setscene :
       \/ sq_revdeps[t] # {} \/ t \in Listed
       \/ /\ sq_revdeps_squash[t] = {}
          /\ \A d \in depends[t] : t \notin sq_revdeps[d]

\* The end of process_endpoints.
Processed ==
  /\ \A s \in setscene : Covers(s, sq_collated_deps[s])
  /\ \A t \in Tasks \ setscene : sq_revdeps_squash[t] = {}
  /\ \A s \in setscene : sq_revdeps_squash[s] = Handed(s)

\* A set that has, with the endpoints, all that cannot be skipped
Forced(C) ==
  /\ {t \in Tasks : Revdeps(t) = {}} \cup (targets \ setscene) \subseteq C
  /\ \A t \in C \ setscene : depends[t] \subseteq C

Ready == {t \in unskippable \ setscene : depends[t] = {}}

UnskippableSound ==
  /\ {t \in Tasks : Revdeps(t) = {}} \cup (targets \ setscene) \subseteq unskippable
  /\ \A C \in SUBSET Tasks : Forced(C) => unskippable \subseteq C
  /\ buildable \subseteq Ready
  /\ phase \in {"process", "unskippable"} => done = {}
  /\ phase \in {"harddeps", "done"} =>
       Forced(unskippable) /\ buildable = Ready /\ done = unskippable \ setscene

\* The explicit dependencies of s that are entered
Explicit(s) == {d \in setscene : s \in harddeps[d]}

HardDepsEntered ==
  /\ \A d \in setscene : harddeps[d] = {t \in setscene : <<t, d>> \in idepends \ todepend}
  /\ phase \in {"process", "unskippable"} => todepend = idepends
  /\ phase = "harddeps" => \A s \in setscene :
       /\ sq_revdeps_squash[s] \subseteq Handed(s) \cup Explicit(s)
       /\ IF harddeps[s] = {} THEN Handed(s) \subseteq sq_revdeps_squash[s]
          ELSE sq_revdeps_squash[s] \subseteq Explicit(s)
  /\ phase = "done" =>
       /\ todepend = {}
       /\ \A s \in setscene : sq_revdeps_squash[s] =
            (IF harddeps[s] = {} THEN Handed(s) ELSE {}) \cup Explicit(s)

CollapseInv ==
  /\ InputsOK /\ CollapseTypeOK /\ CollatedSound
  /\ phase = "process" => OnlyHanded /\ NoneDropped /\ TurnToCome
  /\ phase = "unskippable" => Processed
  /\ phase \in {"harddeps", "done"} => \A s \in setscene : Covers(s, sq_collated_deps[s])
  /\ UnskippableSound /\ HardDepsEntered

-----------------------------------------------------------------------------
(* What the definitions of RunQueueData come to here.                       *)

(* SetToSeq has the members of a finite set.                                *)
LEMMA SeqHasAll ==
  ASSUME NEW S, IsFiniteSet(S)
  PROVE  {SetToSeq(S)[i] : i \in 1..Len(SetToSeq(S))} = S
<1> DEFINE n == Cardinality(S)
<1>1. n \in Nat /\ ExistsBijection(1..n, S)
  BY FS_CardinalityType
<1>2. IsFiniteSet(1..n) /\ Cardinality(1..n) = n
  BY <1>1, FS_Interval
<1>3. \E f \in [1..n -> S] : IsInjective(f)
  BY <1>1 DEF ExistsBijection, Bijection, Injection
<1> DEFINE f == SetToSeq(S)
<1>4. f \in [1..n -> S] /\ IsInjective(f)
  BY <1>3 DEF SetToSeq
<1> HIDE DEF f
<1>5. f \in Injection(1..n, S)
  BY <1>4 DEF Injection
<1>6. f \in Surjection(1..n, S)
  BY <1>2, <1>5, FS_Injection
<1>7. {f[i] : i \in 1..n} = S
  BY <1>4, <1>6 DEF Surjection
<1>8. Len(f) = n
  BY <1>1, <1>4, LenProperties
<1> QED
  BY <1>7, <1>8 DEF f

LEMMA GraphSetscene ==
  ASSUME InputsOK
  PROVE  Graph!Setscene = setscene /\ IsFiniteSet(Tasks) /\ IsFiniteSet(setscene)
<1>1. IsFiniteSet(Tasks)
  BY SizeAssumption, FS_Interval DEF Tasks
<1>2. IsFiniteSet(setscene)
  BY <1>1, FS_Subset DEF InputsOK
<1> QED
  BY <1>1, <1>2, SeqHasAll DEF Graph!Setscene

LEMMA GraphClosure ==
  ASSUME NEW next, NEW S PROVE Graph!Closure(next, S) = LeastClosure(next, S)
BY DEF Graph!Closure, LeastClosure
-----------------------------------------------------------------------------
(* Of tasks the largest: what depends on it is not among them.              *)
LEMMA LargestTask ==
  ASSUME NEW S, S \subseteq Tasks, S # {}
  PROVE  \E x \in S : \A y \in S : y <= x
<1> DEFINE T == {N - y : y \in S}
<1>1. T \subseteq Nat /\ T # {}
  <2>1. \A y \in S : N - y \in Nat
    BY SizeAssumption DEF Tasks
  <2> QED
    BY <2>1
<1>2. PICK m \in T : \A k \in T : m <= k
  BY <1>1, LeastNat
<1>3. PICK x \in S : m = N - x
  BY <1>2
<1>4. ASSUME NEW y \in S PROVE y <= x
  <2>1. N - x <= N - y
    BY <1>2, <1>3
  <2> QED
    BY <2>1, SizeAssumption DEF Tasks
<1> QED
  BY <1>4

LEMMA RevdepsLarger ==
  ASSUME InputsOK, NEW t \in Tasks, NEW r \in Revdeps(t)
  PROVE  r \in Tasks /\ t < r /\ t \in depends[r]
BY SizeAssumption DEF InputsOK, Revdeps, Tasks

(* SqCoveredTasks: the least set that covers what s does.                   *)
LEMMA GraphCovered ==
  ASSUME InputsOK, NEW s \in setscene, NEW C \in SUBSET Tasks, Covers(s, C),
         \A D \in SUBSET Tasks : Covers(s, D) => C \subseteq D
  PROVE  Graph!SqCoveredTasks[s] = C
<1> DEFINE next == [t \in Tasks |-> depends[t] \ setscene]
           S    == depends[s] \ setscene
<1>1. /\ next \in [Tasks -> SUBSET Tasks] /\ S \in SUBSET Tasks /\ IsFiniteSet(Tasks)
      /\ Graph!Setscene = setscene
  BY GraphSetscene DEF InputsOK
<1>2. Graph!SqCoveredTasks[s] = LeastClosure(next, S)
  <2>1. Graph!SqCoveredTasks[s] = Graph!Closure(next, S)
    BY <1>1 DEF Graph!SqCoveredTasks, Graph!PlainClosure
  <2> HIDE DEF next, S
  <2> QED
    BY <2>1, GraphClosure
<1>3. \A D \in SUBSET Tasks :
        Covers(s, D) <=> S \subseteq D /\ \A t \in D : next[t] \subseteq D
  BY DEF Covers
<1> HIDE DEF next, S
<1>4. /\ S \subseteq LeastClosure(next, S) /\ LeastClosure(next, S) \subseteq Tasks
      /\ \A t \in LeastClosure(next, S) : next[t] \subseteq LeastClosure(next, S)
      /\ \A D \in SUBSET Tasks : S \subseteq D /\ (\A t \in D : next[t] \subseteq D)
           => LeastClosure(next, S) \subseteq D
  BY <1>1, LeastClosureIs
<1>5. LeastClosure(next, S) \subseteq C
  BY <1>3, <1>4
<1>6. C \subseteq LeastClosure(next, S)
  <2>1. Covers(s, LeastClosure(next, S))
    BY <1>3, <1>4
  <2> QED
    BY <1>4, <2>1
<1> QED
  BY <1>2, <1>5, <1>6

(* Unskippable: the least set with the endpoints, the targets and what they *)
(* need.                                                                    *)
LEMMA GraphUnskippable ==
  ASSUME InputsOK, NEW C \in SUBSET Tasks, Forced(C),
         \A D \in SUBSET Tasks : Forced(D) => C \subseteq D
  PROVE  Graph!Unskippable = C
<1> DEFINE next == [t \in Tasks |-> IF t \in setscene THEN {} ELSE depends[t]]
           S    == {t \in Tasks : Revdeps(t) = {}} \cup (targets \ setscene)
<1>1. /\ next \in [Tasks -> SUBSET Tasks] /\ S \in SUBSET Tasks /\ IsFiniteSet(Tasks)
      /\ Graph!Setscene = setscene
  BY GraphSetscene DEF InputsOK
<1>2. Graph!Unskippable = LeastClosure(next, S)
  <2>1. Graph!Endpoints \cup Graph!CantSkip = S
    BY <1>1 DEF Graph!Endpoints, Graph!CantSkip, Graph!Revdeps, Revdeps
  <2>2. Graph!Unskippable = Graph!Closure(next, S)
    BY <1>1, <2>1 DEF Graph!Unskippable
  <2> HIDE DEF next, S
  <2> QED
    BY <2>2, GraphClosure
<1>3. \A D \in SUBSET Tasks :
        Forced(D) <=> S \subseteq D /\ \A t \in D : next[t] \subseteq D
  BY DEF Forced
<1> HIDE DEF next, S
<1>4. /\ S \subseteq LeastClosure(next, S) /\ LeastClosure(next, S) \subseteq Tasks
      /\ \A t \in LeastClosure(next, S) : next[t] \subseteq LeastClosure(next, S)
      /\ \A D \in SUBSET Tasks : S \subseteq D /\ (\A t \in D : next[t] \subseteq D)
           => LeastClosure(next, S) \subseteq D
  BY <1>1, LeastClosureIs
<1>5. LeastClosure(next, S) \subseteq C
  BY <1>3, <1>4
<1>6. C \subseteq LeastClosure(next, S)
  <2>1. Forced(LeastClosure(next, S))
    BY <1>3, <1>4
  <2> QED
    BY <1>4, <2>1
<1> QED
  BY <1>2, <1>5, <1>6

-----------------------------------------------------------------------------
(* The invariant says what it is for.                                       *)

(* The books of the collapse are what RunQueueData defines, when it is done *)
(* (build_scenequeue_data).                                                 *)
LEMMA DoneIsCorrect == CollapseInv => CollapsedCorrectly
<1> SUFFICES ASSUME CollapseInv, phase = "done" PROVE CollapsedCorrectly
  BY DEF CollapsedCorrectly
<1>0. InputsOK /\ CollapseTypeOK /\ CollatedSound /\ UnskippableSound /\ HardDepsEntered
  BY DEF CollapseInv
<1>1. Graph!Setscene = setscene
  BY <1>0, GraphSetscene
<1>2. \A s \in setscene : Graph!SqCoveredTasks[s] = sq_collated_deps[s]
  <2> SUFFICES ASSUME NEW s \in setscene PROVE Graph!SqCoveredTasks[s] = sq_collated_deps[s]
    OBVIOUS
  <2>1. sq_collated_deps[s] \in SUBSET Tasks /\ Covers(s, sq_collated_deps[s])
    BY <1>0 DEF CollapseInv, CollapseTypeOK
  <2>2. \A D \in SUBSET Tasks : Covers(s, D) => sq_collated_deps[s] \subseteq D
    BY <1>0 DEF CollatedSound
  <2> QED
    BY <1>0, <2>1, <2>2, GraphCovered
<1>3. sq_collated_deps = Graph!SqCoveredTasks
  <2>1. DOMAIN Graph!SqCoveredTasks = setscene
    BY <1>1 DEF Graph!SqCoveredTasks
  <2>2. Graph!SqCoveredTasks = [s \in setscene |-> Graph!SqCoveredTasks[s]]
    BY <1>1 DEF Graph!SqCoveredTasks
  <2>3. sq_collated_deps = [s \in setscene |-> sq_collated_deps[s]]
    BY <1>0 DEF CollapseTypeOK
  <2> QED
    BY <1>2, <2>2, <2>3
<1>4. [s \in setscene |-> sq_revdeps_squash[s]] = Graph!SqRevdeps
  <2> DEFINE hard == [s \in setscene |-> {t \in setscene : <<t, s>> \in idepends}]
  <2>1. \A s \in setscene : harddeps[s] = hard[s]
    BY <1>0 DEF HardDepsEntered
  <2>2. \A s \in setscene : Graph!SquashedRevdeps(s) = Handed(s)
    BY <1>1, <1>2, <1>0 DEF Graph!SquashedRevdeps, Graph!DependsOfAll, Handed
  <2>3. Graph!SqRevdeps = [s \in setscene |->
          (IF hard[s] = {} THEN Graph!SquashedRevdeps(s) ELSE {})
             \cup {d \in setscene : s \in hard[d]}]
    BY <1>1 DEF Graph!SqRevdeps
  <2> HIDE DEF hard
  <2>4. \A s \in setscene : sq_revdeps_squash[s] =
          (IF harddeps[s] = {} THEN Handed(s) ELSE {}) \cup {d \in setscene : s \in harddeps[d]}
    BY <1>0 DEF HardDepsEntered, Explicit
  <2>5. \A s \in setscene : sq_revdeps_squash[s] =
          (IF hard[s] = {} THEN Graph!SquashedRevdeps(s) ELSE {})
             \cup {d \in setscene : s \in hard[d]}
    BY <2>1, <2>2, <2>4
  <2> QED
    BY <2>3, <2>5
<1>5. unskippable = Graph!Unskippable
  BY <1>0, GraphUnskippable DEF UnskippableSound, CollapseTypeOK
<1> QED
  BY <1>0, <1>3, <1>4, <1>5 DEF CollapsedCorrectly, UnskippableSound, Ready
-----------------------------------------------------------------------------
(* What a setscene task covers, and so what it reaches, is smaller.         *)
LEMMA ReachedAreSmaller ==
  ASSUME InputsOK, CollapseTypeOK, CollatedSound, NEW t \in Tasks, NEW s \in Handed(t)
  PROVE  t < s
<1> DEFINE C == {x \in Tasks : x < s}
<1>1. s \in setscene /\ s \in Tasks
  BY DEF Handed, InputsOK
<1>2. ASSUME NEW x \in Tasks, x <= s, NEW y \in depends[x] PROVE y \in C
  BY <1>1, <1>2, SizeAssumption DEF InputsOK, Tasks
<1>3. Covers(s, C)
  BY <1>1, <1>2, SizeAssumption DEF Covers, Tasks
<1>4. sq_collated_deps[s] \subseteq C
  BY <1>1, <1>3 DEF CollatedSound
<1>5. t \in C
  BY <1>1, <1>2, <1>4, SizeAssumption DEF Handed, Tasks
<1> QED
  BY <1>5

(* In a circle either all wait for what they are reached by, which is       *)
(* larger, or all for what they explicitly depend on: a task others         *)
(* explicitly depend on waits for nothing that merely reaches it.           *)
LEMMA DoneIsAcyclic == CollapseInv => SceneQueueAcyclic
<1> SUFFICES ASSUME CollapseInv, phase = "done", NEW S \in SUBSET setscene, S # {}
             PROVE  \E s \in S : sq_revdeps_squash[s] \cap S = {}
  BY DEF SceneQueueAcyclic
<1>0. InputsOK /\ CollapseTypeOK /\ CollatedSound /\ HardDepsEntered
  BY DEF CollapseInv
<1>1. /\ \A d \in setscene : harddeps[d] = {t \in setscene : <<t, d>> \in idepends}
      /\ \A s \in setscene : sq_revdeps_squash[s] =
           (IF harddeps[s] = {} THEN Handed(s) ELSE {}) \cup {d \in setscene : s \in harddeps[d]}
  BY <1>0 DEF HardDepsEntered, Explicit
<1> DEFINE H == {s \in S : harddeps[s] # {}}
           D == {e[1] : e \in idepends}
<1>2. CASE H = {}
  <2>1. PICK s \in S : \A r \in S : r <= s
    BY <1>0, LargestTask DEF InputsOK
  <2>2. sq_revdeps_squash[s] = Handed(s) \cup {d \in setscene : s \in harddeps[d]}
    BY <1>1, <1>2
  <2>3. ASSUME NEW r \in S PROVE r \notin Handed(s) /\ s \notin harddeps[r]
    <3>1. r \in Handed(s) => s < r
      BY <1>0, ReachedAreSmaller DEF InputsOK
    <3> QED
      BY <1>0, <1>2, <2>1, <3>1, SizeAssumption DEF InputsOK, Tasks
  <2> QED
    BY <2>2, <2>3
<1>3. CASE H # {} /\ ~(H \subseteq D)
  <2>1. PICK s \in H : s \notin D
    BY <1>3
  <2>2. \A d \in setscene : s \notin harddeps[d]
    <3>1. \A d \in setscene : <<s, d>> \notin idepends
      BY <2>1
    <3> QED
      BY <1>1, <3>1
  <2> QED
    BY <1>1, <2>1, <2>2
<1>4. CASE H # {} /\ H \subseteq D
  <2>1. PICK s \in H : \A t \in H : <<s, t>> \notin idepends
    BY <1>0, <1>4 DEF InputsOK, AcyclicRelation
  <2>2. sq_revdeps_squash[s] = {d \in setscene : s \in harddeps[d]}
    BY <1>1
  <2>3. ASSUME NEW d \in S PROVE s \notin harddeps[d]
    BY <1>1, <2>1
  <2> QED
    BY <2>2, <2>3
<1> QED
  BY <1>2, <1>3, <1>4

(* Of the tasks that fall through look at the largest: what depends on it   *)
(* does not, and so decides it.                                             *)
LEMMA DoneIsDecided == CollapseInv => EveryTaskDecided
<1> SUFFICES ASSUME CollapseInv, phase = "done" PROVE EveryTaskDecided
  BY DEF EveryTaskDecided
<1>0. InputsOK /\ CollapseTypeOK /\ UnskippableSound
  BY DEF CollapseInv
<1> DEFINE Decided == setscene \cup unskippable \cup UNION {sq_collated_deps[s] : s \in setscene}
<1>1. Decided \subseteq Tasks
  BY <1>0 DEF InputsOK, CollapseTypeOK
<1>2. Forced(unskippable) /\ \A s \in setscene : Covers(s, sq_collated_deps[s])
  BY <1>0 DEF CollapseInv, UnskippableSound
<1>3. ASSUME NEW t \in Tasks \ Decided, \A u \in Tasks \ Decided : u <= t PROVE FALSE
  <2>1. Revdeps(t) # {}
    BY <1>2 DEF Forced
  <2>2. PICK r \in Revdeps(t) : TRUE
    BY <2>1
  <2>3. r \in Tasks /\ t < r /\ t \in depends[r]
    BY <1>0, <2>2, RevdepsLarger
  <2>4. r \in Decided
    BY <1>3, <2>3, SizeAssumption DEF Tasks
  <2>5. CASE r \in setscene
    BY <1>2, <2>3, <2>5 DEF Covers
  <2>6. CASE r \in unskippable \ setscene
    BY <1>2, <2>3, <2>6 DEF Forced
  <2>7. CASE \E s \in setscene : r \in sq_collated_deps[s]
    <3>1. PICK s \in setscene : r \in sq_collated_deps[s]
      BY <2>7
    <3>2. t \in sq_collated_deps[s]
      BY <1>2, <2>3, <3>1 DEF Covers
    <3> QED
      BY <3>2
  <2> QED
    BY <2>4, <2>5, <2>6, <2>7
<1>4. Tasks \ Decided = {}
  <2> DEFINE Left == Tasks \ Decided
  <2>1. Left \subseteq Tasks
    OBVIOUS
  <2>2. \A x \in Left : ~\A y \in Left : y <= x
    BY <1>3
  <2> HIDE DEF Left
  <2>3. Left = {}
    BY <2>1, <2>2, LargestTask
  <2> QED
    BY <2>3 DEF Left
<1> QED
  BY <1>1, <1>4 DEF EveryTaskDecided

LEMMA CollapseInvIsRight == CollapseInv => CollapseIsRight
BY DoneIsCorrect, DoneIsAcyclic, DoneIsDecided
   DEF CollapseIsRight, NeverFatal, CollapseInv, CollapseTypeOK

-----------------------------------------------------------------------------
(* It holds when the collapse begins.                                       *)
LEMMA CollapseInvInit == Init => CollapseInv
<1> SUFFICES ASSUME Init PROVE CollapseInv
  OBVIOUS
<1>1. InputsOK
  <2>1. targets \subseteq Tasks
    BY SizeAssumption DEF Init, Tasks
  <2> QED
    BY <2>1 DEF Init, InputsOK
<1>2. CollapseTypeOK
  BY <1>1, SizeAssumption
     DEF Init, InputsOK, CollapseTypeOK, Revdeps, FirstEndpoints, Above
<1>3. \A t \in Tasks : Handed(t) = Above(t)
  BY <1>1 DEF Init, Handed, Above, Revdeps, InputsOK
<1>4. OnlyHanded
  BY <1>3 DEF Init, OnlyHanded, FirstEndpoints
<1>5. CollatedSound
  BY DEF Init, CollatedSound
<1>6. NoneDropped
  BY <1>3 DEF Init, NoneDropped, FirstEndpoints
<1>7. TurnToCome
  <2>1. \A t \in Tasks : sq_revdeps[t] = Revdeps(t) \ setscene
    BY DEF Init
  <2>2. ASSUME NEW t \in Tasks \ setscene, sq_revdeps[t] = {} PROVE t \in todo
    <3>1. Revdeps(t) = {} \/ Above(t) # {}
      BY <2>1, <2>2 DEF Above
    <3> QED
      BY <3>1 DEF Init, FirstEndpoints
  <2> QED
    BY <2>1, <2>2 DEF TurnToCome, Listed
<1>8. UnskippableSound
  BY DEF Init, UnskippableSound, Forced, Ready
<1>9. HardDepsEntered
  BY <1>1 DEF Init, HardDepsEntered, InputsOK
<1> QED
  BY <1>1, <1>2, <1>4, <1>5, <1>6, <1>7, <1>8, <1>9 DEF Init, CollapseInv
-----------------------------------------------------------------------------
(* The steps keep it.                                                       *)

LEMMA InputsKept ==
  ASSUME InputsOK, UNCHANGED inputs
  PROVE  /\ InputsOK'
         /\ \A t : Revdeps(t)' = Revdeps(t)
         /\ \A s, C : Covers(s, C)' = Covers(s, C)
         /\ \A C : Forced(C)' = Forced(C)
BY DEF inputs, InputsOK, AcyclicRelation, Tasks, Revdeps, Covers, Forced

(* The other books stay as they are while the endpoints are processed.      *)
LEMMA OthersKept ==
  ASSUME CollapseInv, UNCHANGED <<inputs, phase, skipping, harddeps, todepend>>,
         phase \in {"process", "unskippable"}
  PROVE  InputsOK' /\ UnskippableSound' /\ HardDepsEntered'
<1>1. InputsOK /\ UnskippableSound /\ HardDepsEntered
  BY DEF CollapseInv
<1>2. UNCHANGED inputs /\ InputsOK'
  BY <1>1, InputsKept
<1>3. UnskippableSound'
  <2>1. \A t : Revdeps(t)' = Revdeps(t)
    BY <1>1, <1>2, InputsKept
  <2>2. \A C : Forced(C)' = Forced(C)
    BY <1>1, <1>2, InputsKept
  <2> QED
    BY <1>1, <2>1, <2>2 DEF UnskippableSound, skipping, Ready, inputs, Tasks
<1>4. HardDepsEntered'
  BY <1>1 DEF HardDepsEntered, inputs
<1> QED
  BY <1>2, <1>3, <1>4

(* Point is a setscene task: it keeps what it is handed.                    *)
LEMMA KeepPointStep ==
  ASSUME CollapseInv, NEW point \in Tasks, ProcessEndpoint(point), point \in setscene
  PROVE  CollapseInv'
<1>0. InputsOK /\ CollapseTypeOK /\ CollatedSound /\ OnlyHanded /\ NoneDropped /\ TurnToCome
  BY DEF CollapseInv, ProcessEndpoint
<1>1. /\ phase = "process" /\ point \in todo /\ todo' = todo \ {point}
      /\ sq_revdeps_squash' = [sq_revdeps_squash EXCEPT ![point] = ReachedFrom(point)]
      /\ UNCHANGED <<sq_collated_deps, sq_revdeps, newendpoints, endpoints, phase, inputs,
                     skipping, harddeps, todepend>>
  BY DEF ProcessEndpoint, KeepPoint
<1>2. InputsOK' /\ UnskippableSound' /\ HardDepsEntered'
  BY <1>1, OthersKept
<1>3. ReachedFrom(point) \subseteq Handed(point) /\ ReachedFrom(point) \subseteq setscene
  BY <1>0, <1>1 DEF ReachedFrom, OnlyHanded, Handed, CollapseTypeOK
<1>4. CollapseTypeOK'
  BY <1>0, <1>1, <1>3 DEF CollapseTypeOK, inputs, skipping, Tasks
<1>5. \A t \in Tasks : Handed(t)' = Handed(t)
  BY <1>1 DEF Handed, inputs
<1>6. OnlyHanded'
  BY <1>0, <1>1, <1>3, <1>5 DEF OnlyHanded, CollapseTypeOK, Tasks
<1>7. CollatedSound'
  BY <1>0, <1>1, InputsKept DEF CollatedSound, Tasks, inputs
<1>8. NoneDropped'
  BY <1>0, <1>1, <1>5 DEF NoneDropped, CollapseTypeOK, Tasks, inputs, ReachedFrom
<1>9. TurnToCome'
  BY <1>0, <1>1 DEF TurnToCome, Listed, CollapseTypeOK, Tasks, inputs, Revdeps
<1> QED
  BY <1>1, <1>2, <1>4, <1>6, <1>7, <1>8, <1>9 DEF CollapseInv

(* Point is a plain task: it is collated under what reaches it, and hands   *)
(* that on.                                                                 *)
LEMMA PassOnPointStep ==
  ASSUME CollapseInv, NEW point \in Tasks, ProcessEndpoint(point), point \notin setscene
  PROVE  CollapseInv'
<1>0. InputsOK /\ CollapseTypeOK /\ CollatedSound /\ OnlyHanded /\ NoneDropped /\ TurnToCome
  BY DEF CollapseInv, ProcessEndpoint
<1> DEFINE reached == ReachedFrom(point)
           below   == depends[point]
           ready   == NowReady(point)
<1>1. /\ phase = "process" /\ point \in todo /\ todo' = todo \ {point}
      /\ sq_collated_deps' =
           [t \in setscene |-> IF t \in reached THEN sq_collated_deps[t] \cup {point}
                               ELSE sq_collated_deps[t]]
      /\ sq_revdeps_squash' =
           [t \in Tasks |-> IF t = point THEN {}
                            ELSE IF t \in below THEN sq_revdeps_squash[t] \cup reached
                            ELSE sq_revdeps_squash[t]]
      /\ sq_revdeps' = [t \in Tasks |-> IF t \in below THEN sq_revdeps[t] \ {point}
                                        ELSE sq_revdeps[t]]
      /\ newendpoints' =
           [t \in DOMAIN newendpoints \cup ready |->
              IF t \in ready THEN endpoints[point] ELSE newendpoints[t]]
      /\ UNCHANGED <<endpoints, phase, inputs, skipping, harddeps, todepend>>
  BY DEF ProcessEndpoint, PassOnPoint, CollatedUnder
<1>2. InputsOK' /\ UnskippableSound' /\ HardDepsEntered'
  BY <1>1, OthersKept
<1>3. /\ reached \subseteq Handed(point) /\ reached \subseteq setscene
      /\ endpoints[point] \subseteq reached /\ sq_revdeps_squash[point] \subseteq reached
      /\ below \subseteq Tasks /\ point \notin below
      /\ ready = {d \in below \ setscene : sq_revdeps[d] \ {point} = {}}
  BY <1>0, <1>1, SizeAssumption
     DEF ReachedFrom, OnlyHanded, Handed, CollapseTypeOK, InputsOK, NowReady, Tasks
<1> HIDE DEF reached, below, ready
<1>4. CollapseTypeOK'
  <2>1. endpoints[point] \subseteq setscene /\ ready \subseteq Tasks
    BY <1>0, <1>1, <1>3 DEF CollapseTypeOK
  <2>2. sq_revdeps' \in [Tasks -> SUBSET Tasks]
    BY <1>0, <1>1 DEF CollapseTypeOK
  <2>3. sq_revdeps_squash' \in [Tasks -> SUBSET setscene]
    BY <1>0, <1>1, <1>3 DEF CollapseTypeOK
  <2>4. sq_collated_deps' \in [setscene -> SUBSET (Tasks \ setscene)]
    BY <1>0, <1>1 DEF CollapseTypeOK
  <2>5. /\ DOMAIN newendpoints' \subseteq Tasks
        /\ newendpoints' \in [DOMAIN newendpoints' -> SUBSET setscene]
    BY <1>0, <1>1, <2>1 DEF CollapseTypeOK
  <2>6. Tasks' = Tasks /\ UNCHANGED <<setscene, idepends, unskippable>>
    BY <1>1 DEF Tasks, inputs, skipping
  <2> QED
    BY <1>0, <1>1, <2>2, <2>3, <2>4, <2>5, <2>6 DEF CollapseTypeOK
<1>5. \A t \in Tasks : Handed(t)' = Handed(t) \cup (IF t \in below THEN reached ELSE {})
  <2>1. \A t \in Tasks, s \in setscene : s \in Handed(t)' <=>
          t \in depends[s] \/ \E p \in sq_collated_deps'[s] : t \in depends[p]
    BY <1>1 DEF Handed, inputs
  <2>2. \A s \in setscene :
          sq_collated_deps'[s] = sq_collated_deps[s] \cup (IF s \in reached THEN {point} ELSE {})
    BY <1>1
  <2>3. \A t : Handed(t)' \subseteq setscene /\ Handed(t) \subseteq setscene
    BY <1>1 DEF Handed, inputs
  <2>4. \A t \in Tasks, s \in setscene :
          s \in Handed(t)' <=> s \in Handed(t) \/ (t \in below /\ s \in reached)
    BY <2>1, <2>2 DEF Handed, below
  <2> QED
    BY <1>3, <2>3, <2>4
<1>6. OnlyHanded'
  <2>1. \A t \in Tasks : sq_revdeps_squash'[t] \subseteq Handed(t)'
    BY <1>0, <1>1, <1>5 DEF OnlyHanded
  <2>2. \A t \in DOMAIN endpoints : endpoints[t] \subseteq Handed(t)'
    BY <1>0, <1>5 DEF OnlyHanded, CollapseTypeOK
  <2>3. \A t \in DOMAIN newendpoints' : newendpoints'[t] \subseteq Handed(t)'
    BY <1>0, <1>1, <1>3, <1>5 DEF OnlyHanded, CollapseTypeOK
  <2> QED
    BY <1>1, <2>1, <2>2, <2>3 DEF OnlyHanded, Tasks
<1>7. CollatedSound'
  <2> SUFFICES ASSUME NEW s \in setscene, NEW C \in SUBSET Tasks, Covers(s, C)
               PROVE  sq_collated_deps'[s] \subseteq C
    BY <1>0, <1>1, InputsKept DEF CollatedSound, Tasks, inputs
  <2>1. sq_collated_deps[s] \subseteq C
    BY <1>0 DEF CollatedSound
  <2>2. s \in reached => point \in C
    BY <1>3, <2>1 DEF Handed, Covers
  <2> QED
    BY <1>1, <2>1, <2>2
<1>8. NoneDropped'
  <2> SUFFICES ASSUME NEW t \in Tasks, NEW s \in Handed(t)'
               PROVE  \/ t \notin setscene /\ t \in sq_collated_deps'[s]
                      \/ s \in sq_revdeps_squash'[t]
                      \/ t \in todo' /\ s \in endpoints[t]
    BY <1>1 DEF NoneDropped, Tasks, inputs
  <2>1. s \in setscene
    BY <1>1 DEF Handed, inputs
  <2>2. CASE t \in below /\ s \in reached
    BY <1>1, <1>3, <2>2
  <2>3. CASE s \in Handed(t)
    <3>1. \/ t \notin setscene /\ t \in sq_collated_deps[s]
          \/ s \in sq_revdeps_squash[t]
          \/ t \in todo /\ s \in endpoints[t]
      BY <1>0, <2>3 DEF NoneDropped
    <3>2. CASE t = point
      BY <1>1, <1>3, <2>1, <3>1, <3>2
    <3>3. CASE t # point
      BY <1>1, <2>1, <3>1, <3>3
    <3> QED
      BY <3>2, <3>3
  <2> QED
    BY <1>5, <2>2, <2>3
<1>9. TurnToCome'
  <2>1. \A t \in Tasks : sq_revdeps'[t] \subseteq Revdeps(t) \ setscene
    BY <1>0, <1>1 DEF TurnToCome
  <2>2. ASSUME NEW t \in Tasks \ setscene
        PROVE  \/ sq_revdeps'[t] # {} \/ t \in todo' \/ t \in DOMAIN newendpoints'
               \/ /\ sq_revdeps_squash'[t] = {}
                  /\ \A d \in depends[t] : t \notin sq_revdeps'[d]
    <3>1. CASE t = point
      <4>1. \A d \in below : d \in Tasks
        BY <1>3
      <4>2. \A d \in below : point \notin sq_revdeps'[d]
        BY <1>1, <4>1
      <4> QED
        BY <1>1, <3>1, <4>2 DEF below
    <3>2. CASE t # point /\ t \in below
      BY <1>1, <1>3, <3>2
    <3>3. CASE t # point /\ t \notin below
      <4>1. sq_revdeps'[t] = sq_revdeps[t] /\ sq_revdeps_squash'[t] = sq_revdeps_squash[t]
        BY <1>1, <3>3
      <4>2. \A d \in depends[t] : d \in Tasks /\ sq_revdeps'[d] \subseteq sq_revdeps[d]
        BY <1>0, <1>1, <2>2 DEF InputsOK
      <4>3. t \in Listed => t \in todo' \/ t \in DOMAIN newendpoints'
        BY <1>1, <3>3 DEF Listed
      <4> QED
        BY <1>0, <2>2, <4>1, <4>2, <4>3 DEF TurnToCome
    <3> QED
      BY <3>1, <3>2, <3>3
  <2>3. \A t : Revdeps(t)' = Revdeps(t)
    BY <1>0, <1>1, InputsKept
  <2> QED
    BY <1>1, <2>1, <2>2, <2>3 DEF TurnToCome, Listed, Tasks, inputs
<1> QED
  BY <1>1, <1>2, <1>4, <1>6, <1>7, <1>8, <1>9 DEF CollapseInv
-----------------------------------------------------------------------------
(* With nothing listed, no plain task has anything to wait for: look at the *)
(* largest of those that seem to, and at what it waits for.                 *)
LEMMA NothingLeft ==
  ASSUME InputsOK, TurnToCome, Listed = {}
  PROVE  \A t \in Tasks \ setscene : sq_revdeps_squash[t] = {}
<1> DEFINE Left == {t \in Tasks \ setscene : sq_revdeps[t] # {}}
<1>1. ASSUME NEW t \in Left, \A u \in Left : u <= t PROVE FALSE
  <2>1. PICK r \in sq_revdeps[t] : TRUE
    OBVIOUS
  <2>2. r \in Revdeps(t) /\ r \notin setscene
    BY <2>1 DEF TurnToCome
  <2>3. r \in Tasks /\ t < r /\ t \in depends[r]
    BY <2>2, RevdepsLarger
  <2>4. sq_revdeps[r] # {}
    BY <2>1, <2>2, <2>3 DEF TurnToCome
  <2> QED
    BY <1>1, <2>2, <2>3, <2>4, SizeAssumption DEF Tasks
<1>2. Left = {}
  <2>1. Left \subseteq Tasks /\ \A x \in Left : ~\A y \in Left : y <= x
    BY <1>1
  <2> HIDE DEF Left
  <2> QED
    BY <2>1, LargestTask
<1> QED
  BY <1>2 DEF TurnToCome

LEMMA EndIsProcessed ==
  ASSUME InputsOK, CollapseTypeOK, OnlyHanded, NoneDropped, TurnToCome, Listed = {}
  PROVE  Processed
<1>1. \A t \in Tasks \ setscene : sq_revdeps_squash[t] = {}
  BY NothingLeft
<1>2. \A t \in Tasks \ setscene : \A s \in Handed(t) : t \in sq_collated_deps[s]
  BY <1>1 DEF NoneDropped, Listed
<1>3. \A s \in setscene : sq_revdeps_squash[s] = Handed(s)
  BY DEF NoneDropped, OnlyHanded, InputsOK, Listed
<1>4. ASSUME NEW s \in setscene PROVE Covers(s, sq_collated_deps[s])
  <2>1. \A t \in depends[s] \ setscene : t \in Tasks /\ s \in Handed(t)
    BY DEF InputsOK, Handed
  <2>2. ASSUME NEW p \in sq_collated_deps[s], NEW t \in depends[p] \ setscene
        PROVE  t \in Tasks /\ s \in Handed(t)
    BY DEF InputsOK, Handed, CollapseTypeOK
  <2> QED
    BY <1>2, <2>1, <2>2 DEF Covers
<1> QED
  BY <1>1, <1>3, <1>4 DEF Processed

LEMMA NextRoundStep == CollapseInv /\ NextRound => CollapseInv'
<1> SUFFICES ASSUME CollapseInv, NextRound PROVE CollapseInv'
  OBVIOUS
<1>0. InputsOK /\ CollapseTypeOK /\ CollatedSound /\ OnlyHanded /\ NoneDropped /\ TurnToCome
  BY DEF CollapseInv, NextRound
<1>1. /\ phase = "process" /\ todo = {}
      /\ UNCHANGED <<inputs, sq_revdeps, sq_revdeps_squash, sq_collated_deps, skipping,
                     harddeps, todepend>>
  BY DEF NextRound
<1>2. UNCHANGED <<depends, setscene, targets, idepends>> /\ Tasks' = Tasks
  BY <1>1 DEF inputs, Tasks
<1>3. CollatedSound' /\ \A t : Handed(t)' = Handed(t)
  BY <1>0, <1>1, <1>2, InputsKept DEF CollatedSound, Handed
<1>4. CASE DOMAIN newendpoints # {}
  <2>1. /\ endpoints' = newendpoints /\ todo' = DOMAIN newendpoints
        /\ DOMAIN newendpoints' = {} /\ newendpoints' = [t \in {} |-> newendpoints[t]]
        /\ UNCHANGED phase
    BY <1>4 DEF NextRound, Emptied
  <2>2. InputsOK' /\ UnskippableSound' /\ HardDepsEntered'
    BY <1>1, <2>1, OthersKept
  <2>3. CollapseTypeOK'
    <3>1. newendpoints' \in [DOMAIN newendpoints' -> SUBSET setscene]
      BY <2>1
    <3> QED
      BY <1>0, <1>1, <1>2, <2>1, <3>1 DEF CollapseTypeOK, skipping
  <2>4. OnlyHanded'
    BY <1>0, <1>1, <1>2, <1>3, <2>1 DEF OnlyHanded
  <2>5. NoneDropped'
    BY <1>0, <1>1, <1>2, <1>3 DEF NoneDropped
  <2>6. TurnToCome'
    <3>1. Listed' = Listed
      BY <1>1, <2>1 DEF Listed
    <3> QED
      BY <1>0, <1>1, <1>2, <3>1, InputsKept DEF TurnToCome
  <2> QED
    BY <1>1, <1>3, <2>1, <2>2, <2>3, <2>4, <2>5, <2>6 DEF CollapseInv
<1>5. CASE DOMAIN newendpoints = {}
  <2>1. phase' = "unskippable" /\ UNCHANGED <<endpoints, newendpoints, todo>>
    BY <1>5 DEF NextRound
  <2>2. Processed
    BY <1>0, <1>1, <1>5, EndIsProcessed DEF Listed
  <2>3. Processed'
    BY <1>0, <1>1, <1>2, <1>3, <2>2, InputsKept DEF Processed
  <2>4. CollapseTypeOK'
    BY <1>0, <1>1, <1>2, <2>1 DEF CollapseTypeOK, skipping
  <2>5. InputsOK'
    BY <1>0, <1>1, InputsKept
  <2>6. UnskippableSound'
    <3>1. UnskippableSound /\ \A C : Forced(C)' = Forced(C)
      BY <1>0, <1>1, InputsKept DEF CollapseInv
    <3> QED
      BY <1>0, <1>1, <1>2, <2>1, <3>1, InputsKept DEF UnskippableSound, skipping, Ready
  <2>7. HardDepsEntered'
    BY <1>1, <1>2, <2>1 DEF HardDepsEntered, CollapseInv
  <2> QED
    BY <1>3, <2>1, <2>3, <2>4, <2>5, <2>6, <2>7 DEF CollapseInv
<1> QED
  BY <1>4, <1>5

(* A round of what cannot be skipped, up to the check that nothing is left  *)
(* waiting on a plain task, which never fails.                              *)
LEMMA UnskippableRoundStep == CollapseInv /\ UnskippableRound => CollapseInv'
<1> SUFFICES ASSUME CollapseInv, UnskippableRound PROVE CollapseInv'
  OBVIOUS
<1> DEFINE plain == unskippable \ setscene
<1>0. /\ InputsOK /\ CollapseTypeOK /\ CollatedSound /\ Processed /\ UnskippableSound
      /\ HardDepsEntered
  BY DEF CollapseInv, UnskippableRound
<1>1. /\ phase = "unskippable"
      /\ unskippable' = unskippable \cup UNION {depends[t] : t \in plain}
      /\ buildable' = buildable \cup {t \in plain : depends[t] = {}}
      /\ UNCHANGED <<inputs, collapse, harddeps, todepend>>
  BY DEF UnskippableRound
<1>2. IF unskippable' # unskippable THEN phase' = phase /\ done' = done
      ELSE phase' = "harddeps" /\ done' = done \cup (unskippable' \ setscene)
  BY <1>0 DEF UnskippableRound, Processed
<1>3. /\ UNCHANGED <<depends, setscene, targets, idepends>> /\ Tasks' = Tasks
      /\ UNCHANGED <<sq_revdeps, sq_revdeps_squash, sq_collated_deps, endpoints,
                     newendpoints, todo>>
  BY <1>1 DEF inputs, Tasks, collapse
<1>4. CollatedSound' /\ InputsOK' /\ \A t : Handed(t)' = Handed(t)
  BY <1>0, <1>1, <1>3, InputsKept DEF CollatedSound, Handed
<1>5. Processed' /\ \A s \in setscene : Covers(s, sq_collated_deps[s])'
  BY <1>0, <1>1, <1>3, <1>4, InputsKept DEF Processed
<1>6. CollapseTypeOK'
  <2>1. unskippable' \subseteq Tasks
    BY <1>0, <1>1 DEF CollapseTypeOK, InputsOK
  <2>2. phase' \in {"process", "unskippable", "harddeps", "done"}
    BY <1>1, <1>2
  <2> QED
    BY <1>0, <1>1, <1>3, <2>1, <2>2 DEF CollapseTypeOK
<1>7. UnskippableSound'
  <2>1. \A C \in SUBSET Tasks : Forced(C) => unskippable' \subseteq C
    BY <1>0, <1>1 DEF UnskippableSound, Forced
  <2>2. {t \in Tasks : Revdeps(t) = {}} \cup (targets \ setscene) \subseteq unskippable
    BY <1>0 DEF UnskippableSound
  <2>3. buildable' \subseteq Ready'
    BY <1>0, <1>1, <1>3 DEF UnskippableSound, Ready
  <2>4. ASSUME unskippable' = unskippable
        PROVE  Forced(unskippable') /\ buildable' = Ready' /\ done' = unskippable' \ setscene
    <3>1. Forced(unskippable')
      BY <1>0, <1>1, <2>2, <2>4 DEF Forced
    <3>2. buildable' = Ready'
      BY <1>1, <1>3, <2>3, <2>4 DEF Ready
    <3>3. done' = unskippable' \ setscene
      BY <1>0, <1>1, <1>2, <2>4 DEF UnskippableSound
    <3> QED
      BY <3>1, <3>2, <3>3
  <2>5. done' = {} \/ phase' = "harddeps"
    BY <1>0, <1>1, <1>2 DEF UnskippableSound
  <2>6. phase' = "unskippable" \/ (phase' = "harddeps" /\ unskippable' = unskippable)
    BY <1>1, <1>2
  <2>7. (\A C : Forced(C)' = Forced(C)) /\ (\A t : Revdeps(t)' = Revdeps(t))
    BY <1>0, <1>1, InputsKept
  <2>8. Forced(unskippable)' = Forced(unskippable')
    BY <1>3, <2>7 DEF Forced
  <2>9. unskippable \subseteq unskippable'
    BY <1>1
  <2> QED
    BY <1>3, <2>1, <2>2, <2>3, <2>4, <2>5, <2>6, <2>7, <2>8, <2>9 DEF UnskippableSound
<1>8. HardDepsEntered'
  <2>1. \A s \in setscene : harddeps[s] = {}
    BY <1>0, <1>1 DEF HardDepsEntered
  <2>2. \A s \in setscene : sq_revdeps_squash[s] = Handed(s)
    BY <1>0 DEF Processed
  <2>3. phase' = "unskippable" \/ phase' = "harddeps"
    BY <1>1, <1>2
  <2> QED
    BY <1>0, <1>1, <1>3, <1>4, <2>1, <2>2, <2>3 DEF HardDepsEntered
<1> QED
  BY <1>1, <1>2, <1>3, <1>4, <1>5, <1>6, <1>7, <1>8 DEF CollapseInv
-----------------------------------------------------------------------------
(* An explicit dependency: tid waits for dep, which waits for nothing that  *)
(* merely reaches it.                                                       *)
LEMMA AddHardDepStep ==
  ASSUME CollapseInv, NEW tid \in Tasks, NEW dep \in Tasks, AddHardDep(tid, dep)
  PROVE  CollapseInv'
<1>0. InputsOK /\ CollapseTypeOK /\ CollatedSound /\ UnskippableSound /\ HardDepsEntered
  BY DEF CollapseInv
<1>1. /\ phase = "harddeps" /\ <<tid, dep>> \in todepend
      /\ harddeps' = [harddeps EXCEPT ![dep] = @ \cup {tid}]
      /\ sq_revdeps_squash' =
           [[sq_revdeps_squash EXCEPT ![tid] = @ \cup {dep}] EXCEPT ![dep] = {}]
      /\ todepend' = todepend \ {<<tid, dep>>}
      /\ UNCHANGED <<inputs, phase, sq_revdeps, sq_collated_deps, endpoints, newendpoints,
                     todo, skipping>>
  BY DEF AddHardDep, ZeroRevdeps
<1>2. <<tid, dep>> \in idepends /\ tid \in setscene /\ dep \in setscene
  BY <1>0, <1>1 DEF CollapseTypeOK, InputsOK
<1>3. tid # dep
  <2> DEFINE S == {tid}
  <2>1. S \subseteq {e[1] : e \in idepends} /\ S # {}
    BY <1>2
  <2>2. \E s \in S : \A t \in S : <<s, t>> \notin idepends
    BY <1>0, <2>1 DEF InputsOK, AcyclicRelation
  <2> QED
    BY <1>2, <2>2
<1>4. UNCHANGED <<depends, setscene, targets, idepends, unskippable, buildable, done>>
      /\ Tasks' = Tasks
  BY <1>1 DEF inputs, Tasks, skipping
<1>5. CollatedSound' /\ InputsOK' /\ \A t : Handed(t)' = Handed(t)
  BY <1>0, <1>1, <1>4, InputsKept DEF CollatedSound, Handed
<1>6. \A s \in setscene : Covers(s, sq_collated_deps[s])'
  BY <1>0, <1>1, <1>4, InputsKept DEF CollapseInv
<1>7. CollapseTypeOK'
  <2>1. sq_revdeps_squash' \in [Tasks -> SUBSET setscene]
    BY <1>0, <1>1, <1>2 DEF CollapseTypeOK, InputsOK
  <2>2. harddeps' \in [setscene -> SUBSET setscene]
    BY <1>0, <1>1, <1>2 DEF CollapseTypeOK
  <2> QED
    BY <1>0, <1>1, <1>4, <2>1, <2>2 DEF CollapseTypeOK
<1>8. UnskippableSound'
  <2>1. UNCHANGED inputs
    BY <1>1
  <2> QED
    BY <1>0, <1>1, <1>4, <2>1, InputsKept DEF UnskippableSound, Ready
<1>9. HardDepsEntered'
  <2>1. \A d \in setscene : harddeps'[d] = {t \in setscene : <<t, d>> \in idepends \ todepend'}
    <3> SUFFICES ASSUME NEW d \in setscene, NEW t \in setscene
                 PROVE  t \in harddeps'[d] <=> <<t, d>> \in idepends \ todepend'
      BY <1>7, <1>4 DEF CollapseTypeOK
    <3>1. t \in harddeps'[d] <=> t \in harddeps[d] \/ (t = tid /\ d = dep)
      BY <1>0, <1>1, <1>2 DEF CollapseTypeOK
    <3>2. t \in harddeps[d] <=> <<t, d>> \in idepends \ todepend
      BY <1>0 DEF HardDepsEntered
    <3> QED
      BY <1>1, <1>2, <3>1, <3>2
  <2> DEFINE explicit(s) == {d \in setscene : s \in harddeps'[d]}
  <2>2. \A s \in setscene : Explicit(s) \subseteq explicit(s)
    BY <1>0, <1>1, <1>2 DEF Explicit, CollapseTypeOK
  <2>3. dep \in explicit(tid)
    BY <1>0, <1>1, <1>2 DEF CollapseTypeOK
  <2>4. ASSUME NEW s \in setscene
        PROVE  /\ sq_revdeps_squash'[s] \subseteq Handed(s) \cup explicit(s)
               /\ IF harddeps'[s] = {} THEN Handed(s) \subseteq sq_revdeps_squash'[s]
                  ELSE sq_revdeps_squash'[s] \subseteq explicit(s)
    <3>0. /\ sq_revdeps_squash[s] \subseteq Handed(s) \cup Explicit(s)
          /\ IF harddeps[s] = {} THEN Handed(s) \subseteq sq_revdeps_squash[s]
             ELSE sq_revdeps_squash[s] \subseteq Explicit(s)
      BY <1>0, <1>1 DEF HardDepsEntered
    <3>1. CASE s = dep
      <4>1. sq_revdeps_squash'[s] = {} /\ harddeps'[s] # {}
        BY <1>0, <1>1, <1>2, <3>1 DEF CollapseTypeOK, InputsOK
      <4> QED
        BY <4>1
    <3>2. CASE s = tid
      <4>1. sq_revdeps_squash'[s] = sq_revdeps_squash[s] \cup {dep} /\ harddeps'[s] = harddeps[s]
        BY <1>0, <1>1, <1>2, <1>3, <3>2 DEF CollapseTypeOK, InputsOK
      <4> HIDE DEF explicit
      <4> QED
        BY <2>2, <2>3, <3>0, <3>2, <4>1
    <3>3. CASE s # dep /\ s # tid
      <4>1. sq_revdeps_squash'[s] = sq_revdeps_squash[s] /\ harddeps'[s] = harddeps[s]
        BY <1>0, <1>1, <1>2, <3>3 DEF CollapseTypeOK, InputsOK
      <4> HIDE DEF explicit
      <4> QED
        BY <2>2, <3>0, <4>1
    <3> QED
      BY <3>1, <3>2, <3>3
  <2>5. \A s : Explicit(s)' = explicit(s)
    BY <1>4 DEF Explicit
  <2> HIDE DEF explicit
  <2> QED
    BY <1>1, <1>4, <1>5, <2>1, <2>4, <2>5 DEF HardDepsEntered
<1> QED
  BY <1>1, <1>4, <1>5, <1>6, <1>7, <1>8, <1>9 DEF CollapseInv

LEMMA RestoreHardDepsStep == CollapseInv /\ RestoreHardDeps => CollapseInv'
<1> SUFFICES ASSUME CollapseInv, RestoreHardDeps PROVE CollapseInv'
  OBVIOUS
<1>0. InputsOK /\ CollapseTypeOK /\ CollatedSound /\ UnskippableSound /\ HardDepsEntered
  BY DEF CollapseInv
<1>1. /\ phase = "harddeps" /\ todepend = {} /\ phase' = "done"
      /\ sq_revdeps_squash' = [t \in Tasks |-> sq_revdeps_squash[t] \cup Explicit(t)]
      /\ UNCHANGED <<inputs, sq_revdeps, sq_collated_deps, endpoints, newendpoints, todo,
                     skipping, harddeps, todepend>>
  BY DEF RestoreHardDeps, Explicit
<1>2. UNCHANGED <<depends, setscene, targets, idepends, unskippable, buildable, done>>
      /\ Tasks' = Tasks
  BY <1>1 DEF inputs, Tasks, skipping
<1>3. /\ CollatedSound' /\ InputsOK'
      /\ \A t : Handed(t)' = Handed(t) /\ Explicit(t)' = Explicit(t)
  BY <1>0, <1>1, <1>2, InputsKept DEF CollatedSound, Handed, Explicit
<1>4. \A s \in setscene : Covers(s, sq_collated_deps[s])'
  BY <1>0, <1>1, <1>2, InputsKept DEF CollapseInv
<1>5. CollapseTypeOK'
  <2>1. sq_revdeps_squash' \in [Tasks -> SUBSET setscene]
    BY <1>0, <1>1 DEF CollapseTypeOK, Explicit
  <2> QED
    BY <1>0, <1>1, <1>2, <2>1 DEF CollapseTypeOK
<1>6. UnskippableSound'
  BY <1>0, <1>1, <1>2, InputsKept DEF UnskippableSound, Ready
<1>7. HardDepsEntered'
  <2>1. ASSUME NEW s \in setscene
        PROVE  sq_revdeps_squash'[s] =
                 (IF harddeps[s] = {} THEN Handed(s) ELSE {}) \cup Explicit(s)
    <3>1. /\ sq_revdeps_squash[s] \subseteq Handed(s) \cup Explicit(s)
          /\ IF harddeps[s] = {} THEN Handed(s) \subseteq sq_revdeps_squash[s]
             ELSE sq_revdeps_squash[s] \subseteq Explicit(s)
      BY <1>0, <1>1 DEF HardDepsEntered
    <3>2. sq_revdeps_squash'[s] = sq_revdeps_squash[s] \cup Explicit(s)
      BY <1>0, <1>1 DEF InputsOK
    <3> QED
      BY <3>1, <3>2
  <2> QED
    BY <1>0, <1>1, <1>2, <1>3, <2>1 DEF HardDepsEntered
<1> QED
  BY <1>1, <1>2, <1>3, <1>4, <1>5, <1>6, <1>7 DEF CollapseInv

LEMMA CollapseStutter == CollapseInv /\ UNCHANGED vars => CollapseInv'
<1> SUFFICES ASSUME CollapseInv, UNCHANGED vars PROVE CollapseInv'
  OBVIOUS
<1>1. UNCHANGED <<depends, setscene, idepends, targets, phase, sq_revdeps,
                  sq_revdeps_squash, sq_collated_deps, endpoints, newendpoints, todo,
                  unskippable, buildable, done, harddeps, todepend>>
  BY DEF vars, inputs, collapse, skipping
<1>2. CollapseInv' = CollapseInv
  BY <1>1 DEF CollapseInv, InputsOK, CollapseTypeOK, CollatedSound, OnlyHanded, NoneDropped,
     TurnToCome, Listed, Processed, UnskippableSound, HardDepsEntered, Handed, Covers, Forced,
     Explicit, Ready, Revdeps, Tasks, AcyclicRelation
<1> QED
  BY <1>2

LEMMA CollapseInvStep == CollapseInv /\ [Next]_vars => CollapseInv'
<1> SUFFICES ASSUME CollapseInv, [Next]_vars PROVE CollapseInv'
  OBVIOUS
<1>1. CASE \E point \in Tasks : ProcessEndpoint(point)
  BY <1>1, KeepPointStep, PassOnPointStep
<1>2. CASE NextRound
  BY <1>2, NextRoundStep
<1>3. CASE UnskippableRound
  BY <1>3, UnskippableRoundStep
<1>4. CASE \E tid, dep \in Tasks : AddHardDep(tid, dep)
  BY <1>4, AddHardDepStep
<1>5. CASE RestoreHardDeps
  BY <1>5, RestoreHardDepsStep
<1>6. CASE Finished \/ UNCHANGED vars
  BY <1>6, CollapseStutter DEF Finished
<1> QED
  BY <1>1, <1>2, <1>3, <1>4, <1>5, <1>6 DEF Next

(* The collapse of the graph of tasks to one of setscene tasks is right,    *)
(* for any acyclic graph, any tasks with setscene variants, any explicit    *)
(* dependencies between these that have no circle, and in whatever order    *)
(* Python walks its sets: the sanity check never fails, the books are the   *)
(* ones RunQueueData defines, the new graph has no circle, and no task      *)
(* falls through (build_scenequeue_data, process_endpoints).                *)
THEOREM CollapseRightAlways == Spec => []CollapseIsRight
<1>1. Spec => []CollapseInv
  BY CollapseInvInit, CollapseInvStep, PTL DEF Spec
<1> QED
  BY <1>1, CollapseInvIsRight, PTL
-----------------------------------------------------------------------------
(* The recipes of a build.                                                  *)

\* The recipes: what the parser and the command line can come to.
RecipesOK ==
  /\ tasks \in [Files -> SUBSET Names]
  /\ deps \in [Files -> SUBSET Items]
  /\ taskdeps \in [Files -> SUBSET (Names \X Items \X Names)]
  /\ eligible \in [Items -> Seq(Files)]
  /\ assumed \subseteq Items /\ required \subseteq Items
  /\ mode \in {"abort", "continue", "incomplete"}

Frames == [op : {"fail", "remove"}, what : Files \cup Items, left : SUBSET (Files \cup Items)]

\* Who fails has failed already when the cascade looks for what that means.
FrameOK(fr) ==
  \/ /\ fr.op = "fail" /\ fr.what \in failed_fns
     /\ \A j \in fr.left : j \in DOMAIN provided \ assumed /\ fr.what \in ToSet(eligible[j])
  \/ /\ fr.op = "remove" /\ fr.what \in failed_deps
     /\ \A f \in fr.left : f \in seenfns /\ fr.what \in Needs(f)

AddingOK ==
  \/ adding = NotAdding
  \/ /\ adding.item \in Items \ assumed /\ adding.left \in Seq(Files)
     /\ adding = [item |-> adding.item, left |-> adding.left]
     /\ ToSet(adding.left) \subseteq ToSet(eligible[adding.item])
     /\ stage = "targets" => adding.item \in required
     /\ cascade # <<>> => ToSet(eligible[adding.item]) \cap failed_fns # {}

ProvidedOK(p) ==
  /\ DOMAIN p \subseteq Items
  /\ \A i \in DOMAIN p :
       /\ p[i] \in Seq(Files) /\ IsInjective(p[i]) /\ ToSet(p[i]) \subseteq ToSet(eligible[i])
       /\ p[i] # <<>> => i \notin assumed

ResolvingOK ==
  /\ TaskDataTypeOK
  /\ ProvidedOK(provided)
  /\ cascade \in Seq(Frames) /\ \A fr \in ToSet(cascade) : FrameOK(fr)
  /\ AddingOK
  /\ stage = "targets" => waiting \subseteq required
  /\ stage = "NoProvider" => adding = NotAdding /\ cascade = <<>>
  /\ Resolved => waiting = {} /\ adding = NotAdding /\ cascade = <<>>

\* B has all files that need what is lost with one of B.
ClosedWithOne(B) == \A f \in Files : Needs(f) \cap LostWithOne(B) # {} => f \in B

FailedForAReason ==
  \A B \in SUBSET Files : ClosedWithOne(B) =>
    failed_fns \subseteq B /\ failed_deps \subseteq LostWithOne(B)

\* An exception has not cut a cascade short, and every item is tried.
Regular == Unscathed /\ stage # "NoProvider" /\ mode # "incomplete"

OnStack(op, what, x) ==
  \E fr \in ToSet(cascade) : fr.op = op /\ fr.what = what /\ x \in fr.left

\* What a failure means is dealt with, or on the stack.
NothingForgotten ==
  /\ \A i \in failed_deps, f \in seenfns :
       i \in deps[f] => f \in failed_fns \/ OnStack("remove", i, f)
  /\ \A i \in DOMAIN provided : \A f \in ToSet(provided[i]) :
       f \in seenfns /\ (f \in failed_fns => OnStack("fail", f, i))
  /\ \A f \in seenfns \ failed_fns : deps[f] \subseteq DOMAIN provided

\* A round that has added nothing has nothing left but what it waits for.
RoundsComplete ==
  /\ stage = "build" /\ ~added /\ adding = NotAdding => Unresolved(BuildItems) \subseteq waiting
  /\ stage = "run" /\ ~added /\ adding = NotAdding =>
       Unresolved(BuildItems) = {} /\ Unresolved(RunItems) \subseteq waiting
  /\ Resolved => Unresolved(Items) = {}

ProvidersInv ==
  /\ RecipesOK /\ ResolvingOK /\ FailedForAReason
  /\ Regular => NothingForgotten /\ RoundsComplete

-----------------------------------------------------------------------------
(* Lists of files and stacks of frames.                                     *)

LEMMA NothingInEmpty == ToSet(<<>>) = {}
BY DEF ToSet

LEMMA PushedOn ==
  ASSUME NEW S, NEW s \in Seq(S), NEW x \in S
  PROVE  /\ <<x>> \o s \in Seq(S) /\ <<x>> \o s # <<>>
         /\ ToSet(<<x>> \o s) = {x} \cup ToSet(s)
<1> DEFINE c == <<x>> \o s
<1>1. <<x>> \in Seq(S) /\ Len(<<x>>) = 1 /\ <<x>>[1] = x
  OBVIOUS
<1>2. /\ c \in Seq(S) /\ Len(c) = 1 + Len(s) /\ Len(s) \in Nat
      /\ \A i \in 1..(1 + Len(s)) : c[i] = IF i <= 1 THEN <<x>>[i] ELSE s[i - 1]
  BY <1>1, ConcatProperties
<1> HIDE DEF c
<1>3. c[1] = x /\ \A i \in 1..Len(s) : c[i + 1] = s[i]
  BY <1>2
<1>4. ToSet(c) = {x} \cup ToSet(s)
  <2>1. ASSUME NEW i \in DOMAIN c PROVE c[i] \in {x} \cup ToSet(s)
    <3>1. CASE i = 1
      BY <1>3, <3>1
    <3>2. CASE i # 1
      <4>1. i - 1 \in 1..Len(s) /\ c[i] = s[i - 1]
        BY <1>2, <2>1, <3>2
      <4> QED
        BY <4>1 DEF ToSet
    <3> QED
      BY <3>1, <3>2
  <2>2. x \in ToSet(c)
    BY <1>2, <1>3 DEF ToSet
  <2>3. ASSUME NEW i \in 1..Len(s) PROVE s[i] \in ToSet(c)
    <3>1. i + 1 \in DOMAIN c
      BY <1>2
    <3> QED
      BY <1>3, <3>1 DEF ToSet
  <2> QED
    BY <2>1, <2>2, <2>3 DEF ToSet
<1> QED
  BY <1>2, <1>4 DEF c

LEMMA TopAndRest ==
  ASSUME NEW S, NEW s \in Seq(S), s # <<>>
  PROVE  /\ Head(s) \in S /\ Tail(s) \in Seq(S)
         /\ ToSet(s) = {Head(s)} \cup ToSet(Tail(s))
<1>1. Head(s) \in S /\ Tail(s) \in Seq(S) /\ s = <<Head(s)>> \o Tail(s)
  BY HeadTailProperties, ConcatProperties
<1> QED
  BY <1>1, PushedOn

LEMMA Appended ==
  ASSUME NEW S, NEW s \in Seq(S), NEW x \in S
  PROVE  /\ Append(s, x) \in Seq(S) /\ Append(s, x) # <<>>
         /\ ToSet(Append(s, x)) = ToSet(s) \cup {x}
         /\ IsInjective(s) /\ x \notin ToSet(s) => IsInjective(Append(s, x))
<1> DEFINE c == Append(s, x)
<1>1. /\ c \in Seq(S) /\ Len(c) = Len(s) + 1 /\ Len(s) \in Nat /\ c[Len(s) + 1] = x
      /\ \A i \in 1..Len(s) : c[i] = s[i]
  BY AppendProperties
<1> HIDE DEF c
<1>2. DOMAIN c = 1..(Len(s) + 1) /\ DOMAIN s = 1..Len(s)
  BY <1>1
<1>3. \A i \in DOMAIN c : i = Len(s) + 1 \/ i \in DOMAIN s
  BY <1>1, <1>2
<1>4. ToSet(c) = ToSet(s) \cup {x}
  BY <1>1, <1>2, <1>3 DEF ToSet
<1>5. ASSUME IsInjective(s), x \notin ToSet(s) PROVE IsInjective(c)
  BY <1>1, <1>2, <1>3, <1>5 DEF IsInjective, ToSet
<1> QED
  BY <1>1, <1>4, <1>5 DEF c

(* list.remove: what is there once is gone.                                 *)
LEMMA RemovedFirst ==
  ASSUME NEW S, NEW s \in Seq(S), IsInjective(s), NEW x
  PROVE  /\ RemoveFirst(s, x) \in Seq(S) /\ IsInjective(RemoveFirst(s, x))
         /\ ToSet(RemoveFirst(s, x)) = ToSet(s) \ {x}
<1>0. Len(s) \in Nat /\ DOMAIN s = 1..Len(s)
  OBVIOUS
<1>1. CASE ~\E i \in 1..Len(s) : s[i] = x
  BY <1>0, <1>1 DEF RemoveFirst, ToSet
<1>2. CASE \E i \in 1..Len(s) : s[i] = x
  <2>1. PICK k \in 1..Len(s) : s[k] = x
    BY <1>2
  <2> DEFINE r == SubSeq(s, 1, k - 1) \o SubSeq(s, k + 1, Len(s))
  <2>2. RemoveFirst(s, x) = r
    <3> DEFINE I == {i \in 1..Len(s) : s[i] = x}
    <3>1. I = {k}
      BY <1>0, <2>1 DEF IsInjective
    <3>2. Min(I) = k
      BY <3>1 DEF Min
    <3>3. I # {} /\ \E i \in 1..Len(s) : s[i] = x
      BY <1>2
    <3>4. RemoveFirst(s, x) = RemoveAt(s, IF I # {} THEN Min(I) ELSE 0)
      BY <3>3 DEF RemoveFirst, SelectInSeq
    <3> HIDE DEF I
    <3> QED
      BY <3>2, <3>3, <3>4 DEF RemoveAt
  <2>3. /\ SubSeq(s, 1, k - 1) \in Seq(S) /\ Len(SubSeq(s, 1, k - 1)) = k - 1
        /\ \A i \in 1..(k - 1) : SubSeq(s, 1, k - 1)[i] = s[i]
    BY <1>0, <2>1
  <2>4. /\ SubSeq(s, k + 1, Len(s)) \in Seq(S) /\ Len(SubSeq(s, k + 1, Len(s))) = Len(s) - k
        /\ \A i \in 1..(Len(s) - k) : SubSeq(s, k + 1, Len(s))[i] = s[k + i]
    <3> HIDE DEF r
    <3>1. k \in Nat /\ 1 <= k /\ k <= Len(s)
      BY <1>0, <2>1
    <3> DEFINE two == SubSeq(s, k + 1, Len(s))
    <3>2. \A i \in (k + 1)..Len(s) : s[i] \in S
      BY <1>0, <3>1
    <3>3. /\ two \in Seq(S)
          /\ Len(two) = IF k + 1 <= Len(s) THEN Len(s) - (k + 1) + 1 ELSE 0
          /\ \A i \in 1..(Len(s) - (k + 1) + 1) : two[i] = s[(k + 1) + i - 1]
      BY <1>0, <3>1, <3>2, SubSeqProperties
    <3> HIDE DEF two
    <3>4. Len(two) = Len(s) - k /\ Len(s) - (k + 1) + 1 = Len(s) - k
      <4> DEFINE n == Len(s)
      <4>1. n \in Nat /\ k <= n
        BY <1>0, <3>1
      <4>2. Len(two) = IF k + 1 <= n THEN n - (k + 1) + 1 ELSE 0
        BY <3>3
      <4> HIDE DEF n
      <4>3. n - (k + 1) + 1 = n - k /\ (~(k + 1 <= n) => n - k = 0)
        BY <3>1, <4>1
      <4>4. Len(two) = n - k
        BY <4>2, <4>3
      <4> QED
        BY <4>3, <4>4 DEF n
    <3>5. ASSUME NEW i \in 1..(Len(s) - k) PROVE two[i] = s[k + i]
      <4>1. (k + 1) + i - 1 = k + i
        BY <3>1
      <4> QED
        BY <3>3, <3>4, <4>1
    <3> QED
      BY <3>3, <3>4, <3>5 DEF two
  <2>5. /\ r \in Seq(S) /\ Len(r) = Len(s) - 1 /\ DOMAIN r = 1..(Len(s) - 1)
        /\ \A i \in 1..(Len(s) - 1) : r[i] = IF i < k THEN s[i] ELSE s[i + 1]
    <3> DEFINE one == SubSeq(s, 1, k - 1)
               two == SubSeq(s, k + 1, Len(s))
    <3>1. one \in Seq(S) /\ two \in Seq(S) /\ Len(one) = k - 1 /\ Len(two) = Len(s) - k
      BY <2>3, <2>4
    <3>2. r = one \o two
      OBVIOUS
    <3>3. /\ \A i \in 1..(k - 1) : one[i] = s[i]
          /\ \A i \in 1..(Len(s) - k) : two[i] = s[k + i]
      BY <2>3, <2>4
    <3> HIDE DEF one, two
    <3>4. /\ one \o two \in Seq(S) /\ Len(one \o two) = Len(one) + Len(two)
          /\ \A i \in 1..(Len(one) + Len(two)) :
               (one \o two)[i] = IF i <= Len(one) THEN one[i] ELSE two[i - Len(one)]
      BY <3>1, ConcatProperties
    <3>5. k \in Nat /\ 1 <= k /\ k <= Len(s)
      BY <2>1, <1>0
    <3>6. Len(one) + Len(two) = Len(s) - 1
      BY <1>0, <3>1, <3>5
    <3>7. ASSUME NEW i \in 1..(Len(s) - 1)
          PROVE  (one \o two)[i] = IF i < k THEN s[i] ELSE s[i + 1]
      <4>1. CASE i < k
        BY <1>0, <3>1, <3>3, <3>4, <3>5, <3>6, <4>1
      <4>2. CASE ~(i < k)
        <5>1. i - (k - 1) \in 1..(Len(s) - k) /\ k + (i - (k - 1)) = i + 1
          BY <1>0, <3>5, <4>2
        <5>2. (one \o two)[i] = two[i - (k - 1)]
          BY <1>0, <3>1, <3>4, <3>5, <3>6, <4>2
        <5> QED
          BY <3>3, <4>2, <5>1, <5>2
      <4> QED
        BY <4>1, <4>2
    <3>8. DOMAIN (one \o two) = 1..(Len(s) - 1)
      BY <3>4, <3>6
    <3> QED
      BY <3>2, <3>4, <3>6, <3>7, <3>8
  <2> HIDE DEF r
  <2>6. ASSUME NEW i \in 1..(Len(s) - 1)
        PROVE  \E j \in (1..Len(s)) \ {k} : r[i] = s[j] /\ j = IF i < k THEN i ELSE i + 1
    BY <1>0, <2>1, <2>5
  <2>7. ASSUME NEW j \in (1..Len(s)) \ {k}
        PROVE  \E i \in 1..(Len(s) - 1) : r[i] = s[j]
    <3>1. CASE j < k
      <4>1. j \in 1..(Len(s) - 1)
        BY <1>0, <2>1, <3>1
      <4> QED
        BY <2>5, <3>1, <4>1
    <3>2. CASE ~(j < k)
      <4>1. j - 1 \in 1..(Len(s) - 1) /\ ~(j - 1 < k) /\ (j - 1) + 1 = j
        BY <1>0, <2>1, <2>7, <3>2
      <4> QED
        BY <2>5, <4>1
    <3> QED
      BY <3>1, <3>2
  <2>8. ToSet(r) = ToSet(s) \ {x}
    <3>1. \A j \in 1..Len(s) : s[j] = x <=> j = k
      BY <1>0, <2>1 DEF IsInjective
    <3>2. ToSet(r) = {r[i] : i \in 1..(Len(s) - 1)} /\ ToSet(s) = {s[j] : j \in 1..Len(s)}
      BY <1>0, <2>5 DEF ToSet
    <3>3. ASSUME NEW i \in 1..(Len(s) - 1) PROVE r[i] \in ToSet(s) \ {x}
      <4>1. PICK j \in (1..Len(s)) \ {k} : r[i] = s[j]
        BY <2>6
      <4> QED
        BY <3>1, <3>2, <4>1
    <3>4. ASSUME NEW j \in 1..Len(s), s[j] # x PROVE s[j] \in ToSet(r)
      <4>1. j \in (1..Len(s)) \ {k}
        BY <3>1, <3>4
      <4>2. PICK i \in 1..(Len(s) - 1) : r[i] = s[j]
        BY <2>7, <4>1
      <4> QED
        BY <3>2, <4>2
    <3> QED
      BY <3>2, <3>3, <3>4
  <2>9. IsInjective(r)
    <3> SUFFICES ASSUME NEW p \in 1..(Len(s) - 1), NEW q \in 1..(Len(s) - 1), r[p] = r[q]
                 PROVE  p = q
      BY <2>5 DEF IsInjective
    <3>1. PICK jp \in (1..Len(s)) \ {k} : r[p] = s[jp] /\ jp = IF p < k THEN p ELSE p + 1
      BY <2>6
    <3>2. PICK jq \in (1..Len(s)) \ {k} : r[q] = s[jq] /\ jq = IF q < k THEN q ELSE q + 1
      BY <2>6
    <3>3. jp = jq
      BY <1>0, <3>1, <3>2 DEF IsInjective
    <3> QED
      BY <1>0, <2>1, <3>1, <3>2, <3>3
  <2> QED
    BY <2>2, <2>5, <2>8, <2>9
<1> QED
  BY <1>1, <1>2
-----------------------------------------------------------------------------
(* The operators of TaskData.                                               *)

LEMMA RecipesKept ==
  ASSUME RecipesOK, UNCHANGED recipes
  PROVE  /\ UNCHANGED <<tasks, deps, taskdeps, eligible, assumed, required, mode>>
         /\ RecipesOK'
         /\ \A f : Needs(f)' = Needs(f)
         /\ \A B : LostWithOne(B)' = LostWithOne(B) /\ ClosedWithOne(B)' = ClosedWithOne(B)
         /\ \A p : ProvidedOK(p)' = ProvidedOK(p)
BY DEF recipes, RecipesOK, Needs, Asks, LostWithOne, ClosedWithOne, ProvidedOK

LEMMA NeedsType ==
  ASSUME RecipesOK, NEW f \in Files
  PROVE  Needs(f) \subseteq Items /\ Asks(f) \subseteq Items /\ deps[f] \subseteq Items
BY DEF RecipesOK, Needs, Asks

LEMMA WithSeenOK ==
  ASSUME NEW p, ProvidedOK(p), NEW S, S \subseteq Items
  PROVE  /\ ProvidedOK(WithSeen(S, p)) /\ DOMAIN WithSeen(S, p) = DOMAIN p \cup S
         /\ \A j \in DOMAIN p : WithSeen(S, p)[j] = p[j]
         /\ \A j \in DOMAIN WithSeen(S, p) : ToSet(WithSeen(S, p)[j]) # {} => j \in DOMAIN p
<1>1. /\ DOMAIN WithSeen(S, p) = DOMAIN p \cup S
      /\ \A j \in DOMAIN p : WithSeen(S, p)[j] = p[j]
      /\ \A j \in DOMAIN WithSeen(S, p) : j \notin DOMAIN p => WithSeen(S, p)[j] = <<>>
  BY DEF WithSeen
<1>2. <<>> \in Seq(Files) /\ IsInjective(<<>>) /\ ToSet(<<>>) = {}
  BY NothingInEmpty DEF IsInjective
<1> QED
  BY <1>1, <1>2 DEF ProvidedOK

LEMMA WithProviderOK ==
  ASSUME RecipesOK, ProvidedOK(provided), NEW i \in Items \ assumed,
         NEW f \in ToSet(eligible[i])
  PROVE  /\ ProvidedOK(WithProvider(i, f))
         /\ DOMAIN WithProvider(i, f) = DOMAIN provided \cup {i}
         /\ \A j \in DOMAIN provided : provided[j] # <<>> => WithProvider(i, f)[j] # <<>>
         /\ \A j \in DOMAIN WithProvider(i, f) : \A g \in ToSet(WithProvider(i, f)[j]) :
              (j = i /\ g = f) \/ (j \in DOMAIN provided /\ g \in ToSet(provided[j]))
<1> DEFINE S == {i}
           p == WithSeen(S, provided)
           w == WithProvider(i, f)
<1>1. f \in Files
  BY DEF RecipesOK, ToSet
<1>2. /\ ProvidedOK(p) /\ DOMAIN p = DOMAIN provided \cup S
      /\ \A j \in DOMAIN provided : p[j] = provided[j]
      /\ \A j \in DOMAIN p : ToSet(p[j]) # {} => j \in DOMAIN provided
  <2>1. S \subseteq Items
    OBVIOUS
  <2> HIDE DEF S
  <2> QED
    BY <2>1, WithSeenOK
<1>3. w = [p EXCEPT ![i] = IF f \in ToSet(@) THEN @ ELSE Append(@, f)]
  BY DEF WithProvider
<1> HIDE DEF p, w
<1>4. p[i] \in Seq(Files) /\ IsInjective(p[i]) /\ ToSet(p[i]) \subseteq ToSet(eligible[i])
  BY <1>2 DEF ProvidedOK
<1>5. /\ w[i] \in Seq(Files) /\ IsInjective(w[i]) /\ ToSet(w[i]) = ToSet(p[i]) \cup {f}
      /\ w[i] # <<>>
  <2>1. CASE f \in ToSet(p[i])
    <3>1. w[i] = p[i]
      BY <1>2, <1>3, <2>1
    <3> QED
      BY <1>4, <2>1, <3>1 DEF ToSet
  <2>2. CASE f \notin ToSet(p[i])
    <3>1. w[i] = Append(p[i], f)
      BY <1>2, <1>3, <2>2
    <3> QED
      BY <1>1, <1>4, <2>2, <3>1, Appended
  <2> QED
    BY <2>1, <2>2
<1>6. DOMAIN w = DOMAIN p /\ \A j \in DOMAIN p : j # i => w[j] = p[j]
  BY <1>3
<1>7. ProvidedOK(w)
  BY <1>2, <1>4, <1>5, <1>6 DEF ProvidedOK
<1>8. \A j \in DOMAIN w : \A g \in ToSet(w[j]) :
        (j = i /\ g = f) \/ (j \in DOMAIN provided /\ g \in ToSet(provided[j]))
  <2> SUFFICES ASSUME NEW j \in DOMAIN w, NEW g \in ToSet(w[j]), ~(j = i /\ g = f)
               PROVE  j \in DOMAIN provided /\ g \in ToSet(provided[j])
    OBVIOUS
  <2>1. g \in ToSet(p[j])
    BY <1>5, <1>6
  <2> QED
    BY <1>2, <1>6, <2>1
<1> QED
  BY <1>2, <1>5, <1>6, <1>7, <1>8 DEF w

\* A frame stays right when more files are seen and more fails.
LEMMA FrameKept ==
  ASSUME RecipesOK, UNCHANGED recipes, DOMAIN provided \subseteq DOMAIN provided',
         failed_fns \subseteq failed_fns', failed_deps \subseteq failed_deps',
         seenfns \subseteq seenfns', NEW fr, FrameOK(fr)
  PROVE  FrameOK(fr)'
<1>1. UNCHANGED <<eligible, assumed>> /\ \A f : Needs(f)' = Needs(f)
  BY RecipesKept
<1> QED
  BY <1>1 DEF FrameOK

LEMMA RemoveFrameOK ==
  ASSUME RecipesOK, UNCHANGED <<recipes, seenfns>>, NEW i, i \in failed_deps',
         NEW fr, fr = Frame("remove", i, Dependees(i))
  PROVE  FrameOK(fr)'
<1>1. \A f : Needs(f)' = Needs(f)
  BY RecipesKept
<1>2. fr.op = "remove" /\ fr.what = i /\ fr.left = {f \in seenfns : i \in Needs(f)}
  BY DEF Frame, Dependees
<1> QED
  BY <1>1, <1>2 DEF FrameOK

\* The top frame with x off its list.
TopWithout(x) == [Head(cascade) EXCEPT !.left = @ \ {x}]

LEMMA BelowIs ==
  ASSUME cascade \in Seq(Frames), cascade # <<>>, NEW x
  PROVE  /\ Below(x) \in Seq(Frames) /\ Below(x) # <<>>
         /\ ToSet(Below(x)) = {TopWithout(x)} \cup ToSet(Tail(cascade))
         /\ ToSet(cascade) = {Head(cascade)} \cup ToSet(Tail(cascade))
         /\ Head(cascade) \in Frames /\ Tail(cascade) \in Seq(Frames)
         /\ TopWithout(x).op = Head(cascade).op /\ TopWithout(x).what = Head(cascade).what
         /\ TopWithout(x).left = Head(cascade).left \ {x}
         /\ FrameOK(Head(cascade)) => FrameOK(TopWithout(x))
<1>1. /\ Head(cascade) \in Frames /\ Tail(cascade) \in Seq(Frames)
      /\ ToSet(cascade) = {Head(cascade)} \cup ToSet(Tail(cascade))
  BY TopAndRest
<1>2. /\ TopWithout(x) \in Frames
      /\ TopWithout(x).op = Head(cascade).op /\ TopWithout(x).what = Head(cascade).what
      /\ TopWithout(x).left = Head(cascade).left \ {x}
  BY <1>1 DEF TopWithout, Frames
<1>3. /\ Below(x) \in Seq(Frames) /\ Below(x) # <<>>
      /\ ToSet(Below(x)) = {TopWithout(x)} \cup ToSet(Tail(cascade))
  BY <1>1, <1>2, PushedOn DEF Below, TopWithout
<1>4. FrameOK(Head(cascade)) => FrameOK(TopWithout(x))
  BY <1>2 DEF FrameOK
<1> QED
  BY <1>1, <1>2, <1>3, <1>4

\* remove_buildtarget and remove_runtarget begin.
LEMMA RemoveItemIs ==
  ASSUME NEW i \in Items, NEW below \in Seq(Frames), seenfns \subseteq Files,
         RemoveItem(i, below)
  PROVE  /\ failed_deps' = failed_deps \cup {i}
         /\ cascade' \in Seq(Frames) /\ cascade' # <<>>
         /\ ToSet(cascade') = {Frame("remove", i, Dependees(i))} \cup ToSet(below)
<1>1. Frame("remove", i, Dependees(i)) \in Frames
  BY DEF Frame, Frames, Dependees
<1> QED
  BY <1>1, PushedOn DEF RemoveItem

\* What add_tasks is called for, and what comes of it.
LEMMA AddFileIs ==
  ASSUME RecipesOK, ResolvingOK, AddFile
  PROVE  /\ adding # NotAdding /\ Head(adding.left) \in Files
         /\ Head(adding.left) \in ToSet(eligible[adding.item])
         /\ cascade = <<>> /\ adding' = [adding EXCEPT !.left = Tail(@)]
         /\ Tail(adding.left) \in Seq(Files)
         /\ ToSet(Tail(adding.left)) \subseteq ToSet(eligible[adding.item])
         /\ UNCHANGED <<recipes, external_targets, failed_deps, stage, waiting, added, runlist>>
         /\ ProvidedOK(provided') /\ DOMAIN provided \subseteq DOMAIN provided'
         /\ \A j \in DOMAIN provided : provided[j] # <<>> => provided'[j] # <<>>
         /\ \A j \in DOMAIN provided' : \A g \in ToSet(provided'[j]) :
              \/ j \in DOMAIN provided /\ g \in ToSet(provided[j])
              \/ g = Head(adding.left) /\ g \in seenfns' /\ g \notin failed_fns
         /\ LET f == Head(adding.left)
            IN  \/ UNCHANGED <<seenfns, failed_fns, cascade>>
                \/ /\ f \notin seenfns /\ seenfns' = seenfns \cup {f} /\ Gone(f) = {}
                   /\ Needs(f) \subseteq DOMAIN provided' /\ UNCHANGED <<failed_fns, cascade>>
                \/ /\ f \notin seenfns /\ seenfns' = seenfns \cup {f} /\ Gone(f) # {}
                   /\ failed_fns' = failed_fns \cup {f}
                   /\ cascade' \in Seq(Frames) /\ cascade' # <<>>
                   /\ ToSet(cascade') =
                        {Frame("fail", f, {j \in DOMAIN provided' : f \in ToSet(provided'[j])})}
<1> DEFINE f == Head(adding.left)
           w == WithProvider(adding.item, f)
<1>0. /\ cascade = <<>> /\ adding.left # <<>> /\ adding' = [adding EXCEPT !.left = Tail(@)]
      /\ UNCHANGED <<recipes, external_targets, failed_deps, stage, waiting, added, runlist>>
  BY DEF AddFile
<1>1. /\ adding # NotAdding /\ adding.left \in Seq(Files) /\ adding.item \in Items \ assumed
      /\ ToSet(adding.left) \subseteq ToSet(eligible[adding.item]) /\ ProvidedOK(provided)
  BY <1>0 DEF ResolvingOK, AddingOK, NotAdding
<1>2. /\ f \in Files /\ Tail(adding.left) \in Seq(Files)
      /\ ToSet(adding.left) = {f} \cup ToSet(Tail(adding.left))
  BY <1>0, <1>1, TopAndRest
<1>3. /\ f \in ToSet(eligible[adding.item])
      /\ ToSet(Tail(adding.left)) \subseteq ToSet(eligible[adding.item])
  BY <1>1, <1>2
<1>4. /\ ProvidedOK(w) /\ DOMAIN w = DOMAIN provided \cup {adding.item}
      /\ \A j \in DOMAIN provided : provided[j] # <<>> => w[j] # <<>>
      /\ \A j \in DOMAIN w : \A g \in ToSet(w[j]) :
              (j = adding.item /\ g = f) \/ (j \in DOMAIN provided /\ g \in ToSet(provided[j]))
  BY <1>1, <1>3, WithProviderOK
<1>5. /\ f \in failed_fns => UNCHANGED <<provided, seenfns, failed_fns, cascade>>
      /\ f \notin failed_fns /\ f \in seenfns =>
           provided' = w /\ UNCHANGED <<seenfns, failed_fns, cascade>>
      /\ f \notin failed_fns /\ f \notin seenfns => seenfns' = seenfns \cup {f} /\ AddTasks(f, w)
  BY DEF AddFile
<1> HIDE DEF f, w
<1>6. CASE f \in failed_fns
  BY <1>0, <1>1, <1>2, <1>3, <1>5, <1>6 DEF f
<1>7. CASE f \notin failed_fns /\ f \in seenfns
  BY <1>0, <1>1, <1>2, <1>3, <1>4, <1>5, <1>7 DEF f
<1>8. CASE f \notin failed_fns /\ f \notin seenfns
  <2>1. Needs(f) \subseteq Items /\ Asks(f) \subseteq Items /\ deps[f] \subseteq Items
    BY <1>2, NeedsType
  <2>2. ASSUME NEW S, S \subseteq Items, provided' = WithSeen(S, w)
        PROVE  /\ ProvidedOK(provided') /\ DOMAIN provided \subseteq DOMAIN provided'
               /\ S \subseteq DOMAIN provided' /\ DOMAIN provided' \subseteq Items
               /\ \A j \in DOMAIN provided : provided[j] # <<>> => provided'[j] # <<>>
               /\ \A j \in DOMAIN provided' : \A g \in ToSet(provided'[j]) :
                    \/ j \in DOMAIN provided /\ g \in ToSet(provided[j])
                    \/ g = f /\ g \in seenfns' /\ g \notin failed_fns
    <3>1. /\ ProvidedOK(provided') /\ DOMAIN provided' = DOMAIN w \cup S
          /\ \A j \in DOMAIN w : provided'[j] = w[j]
          /\ \A j \in DOMAIN provided' : ToSet(provided'[j]) # {} => j \in DOMAIN w
      BY <1>4, <2>2, WithSeenOK
    <3> QED
      BY <1>4, <1>5, <1>8, <3>1 DEF ProvidedOK
  <2>3. CASE Gone(f) = {}
    <3>1. provided' = WithSeen(Needs(f), w) /\ UNCHANGED <<failed_fns, cascade>>
      BY <1>5, <1>8, <2>3 DEF AddTasks
    <3>2. /\ ProvidedOK(provided') /\ DOMAIN provided \subseteq DOMAIN provided'
          /\ Needs(f) \subseteq DOMAIN provided'
          /\ \A j \in DOMAIN provided : provided[j] # <<>> => provided'[j] # <<>>
          /\ \A j \in DOMAIN provided' : \A g \in ToSet(provided'[j]) :
               \/ j \in DOMAIN provided /\ g \in ToSet(provided[j])
               \/ g = f /\ g \in seenfns' /\ g \notin failed_fns
      BY <2>1, <2>2, <3>1
    <3> QED
      BY <1>0, <1>1, <1>2, <1>3, <1>5, <1>8, <2>3, <3>1, <3>2 DEF f
  <2>4. CASE Gone(f) # {}
    <3>1. PICK S : S \subseteq Items /\ provided' = WithSeen(S, w) /\ Fail(f, provided', <<>>)
      <4> DEFINE early == Gone(f) \cap BuildItems
                 past  == IF early # {} THEN {} ELSE deps[f] \cap BuildItems
      <4>1. PICK d \in IF early # {} THEN early ELSE Gone(f), more \in SUBSET (deps[f] \ Gone(f)) :
              /\ provided' = WithSeen(past \cup more \cup {d} \cup Asks(f), w)
              /\ Fail(f, provided', <<>>)
        BY <1>5, <1>8, <2>4 DEF AddTasks
      <4>2. past \subseteq Items /\ d \in Items /\ more \subseteq Items
        BY <2>1 DEF Gone
      <4> QED
        BY <2>1, <4>1, <4>2
    <3>2. /\ ProvidedOK(provided') /\ DOMAIN provided \subseteq DOMAIN provided'
          /\ DOMAIN provided' \subseteq Items
          /\ \A j \in DOMAIN provided : provided[j] # <<>> => provided'[j] # <<>>
          /\ \A j \in DOMAIN provided' : \A g \in ToSet(provided'[j]) :
               \/ j \in DOMAIN provided /\ g \in ToSet(provided[j])
               \/ g = f /\ g \in seenfns' /\ g \notin failed_fns
      BY <2>2, <3>1
    <3>3. /\ failed_fns' = failed_fns \cup {f} /\ cascade' \in Seq(Frames) /\ cascade' # <<>>
          /\ ToSet(cascade') =
               {Frame("fail", f, {j \in DOMAIN provided' : f \in ToSet(provided'[j])})}
                 \cup ToSet(<<>>)
      <4> DEFINE fr == Frame("fail", f, {j \in DOMAIN provided' : f \in ToSet(provided'[j])})
      <4>1. fr \in Frames /\ <<>> \in Seq(Frames)
        BY <1>2, <3>2 DEF Frame, Frames
      <4>2. failed_fns' = failed_fns \cup {f} /\ cascade' = <<fr>> \o <<>>
        BY <3>1 DEF Fail
      <4> HIDE DEF fr
      <4>3. /\ <<fr>> \o <<>> \in Seq(Frames) /\ <<fr>> \o <<>> # <<>>
            /\ ToSet(<<fr>> \o <<>>) = {fr} \cup ToSet(<<>>)
        BY <4>1, PushedOn
      <4> QED
        BY <4>2, <4>3 DEF fr
    <3>4. ToSet(<<>>) = {}
      BY NothingInEmpty
    <3> QED
      BY <1>0, <1>1, <1>2, <1>3, <1>5, <1>8, <2>4, <3>2, <3>3, <3>4 DEF f
  <2> QED
    BY <2>3, <2>4
<1> QED
  BY <1>6, <1>7, <1>8
-----------------------------------------------------------------------------
(* Files fail for a reason: the steps keep what is known of the stack and   *)
(* of what has failed.                                                      *)

Reasons == RecipesOK /\ ResolvingOK /\ FailedForAReason

\* The parts of ResolvingOK that most steps leave alone.
LEMMA ReasonsFacts ==
  ASSUME Reasons
  PROVE  /\ RecipesOK /\ ResolvingOK /\ FailedForAReason /\ TaskDataTypeOK
         /\ ProvidedOK(provided)
         /\ cascade \in Seq(Frames) /\ (\A fr \in ToSet(cascade) : FrameOK(fr)) /\ AddingOK
         /\ seenfns \subseteq Files /\ failed_fns \subseteq seenfns /\ waiting \subseteq Items
         /\ DOMAIN provided \subseteq Items
         /\ failed_deps \subseteq Items \ assumed
BY DEF Reasons, ResolvingOK, TaskDataTypeOK

\* add_provider returns, or need not do anything.
LEMMA ReturnedIs ==
  ASSUME Reasons, NEW i \in Items, stage = "targets" => i \in required, Returned(i)
  PROVE  /\ external_targets' \subseteq required /\ runlist' \subseteq required \X Files
         /\ added' \in BOOLEAN
         /\ stage = "targets" => UNCHANGED added
         /\ stage # "targets" => added'
<1>1. /\ external_targets \subseteq required /\ runlist \subseteq required \X Files
      /\ added \in BOOLEAN
  BY DEF Reasons, ResolvingOK, TaskDataTypeOK
<1>2. Has(i) => provided[i][1] \in Files
  <2>1. ASSUME Has(i) PROVE provided[i][1] \in Files
    <3>1. provided[i] \in Seq(Files) /\ provided[i] # <<>>
      BY <2>1 DEF Reasons, ResolvingOK, ProvidedOK, Has
    <3> QED
      BY <3>1
  <2> QED
    BY <2>1
<1>3. CASE stage = "targets"
  <2>1. /\ external_targets' = external_targets \cup {i} /\ added' = added
        /\ runlist' = IF Has(i) THEN runlist \cup {<<i, provided[i][1]>>} ELSE runlist
    BY <1>3 DEF Returned
  <2>2. runlist' \subseteq required \X Files
    BY <1>1, <1>2, <1>3, <2>1
  <2> QED
    BY <1>1, <1>3, <2>1, <2>2
<1>4. CASE stage # "targets"
  BY <1>1, <1>4 DEF Returned
<1> QED
  BY <1>3, <1>4

LEMMA NothingToAddReasons ==
  ASSUME Reasons, NEW i \in Items, NothingToAdd(i)
  PROVE  Reasons'
<1>0. /\ RecipesOK /\ ResolvingOK /\ FailedForAReason /\ TaskDataTypeOK
  BY DEF Reasons, ResolvingOK
<1>1. /\ adding = NotAdding /\ cascade = <<>> /\ stage # "NoProvider"
      /\ i \in waiting /\ waiting' = waiting \ {i} /\ Returned(i)
      /\ UNCHANGED <<recipes, provided, seenfns, failed_fns, failed_deps, stage, adding,
                     cascade>>
  BY DEF NothingToAdd, Turn
<1>2. /\ external_targets' \subseteq required /\ runlist' \subseteq required \X Files
      /\ added' \in BOOLEAN
  BY <1>0, <1>1, ReturnedIs DEF ResolvingOK
<1>3. /\ UNCHANGED <<eligible, assumed, required, mode>> /\ RecipesOK'
      /\ \A B : LostWithOne(B)' = LostWithOne(B) /\ ClosedWithOne(B)' = ClosedWithOne(B)
      /\ ProvidedOK(provided)' = ProvidedOK(provided)
  BY <1>0, <1>1, RecipesKept
<1>4. TaskDataTypeOK'
  BY <1>0, <1>1, <1>2, <1>3 DEF TaskDataTypeOK
<1>5. ToSet(cascade)' = {} /\ Resolved' = Resolved
  BY <1>1 DEF ToSet, Resolved
<1>6. ResolvingOK'
  BY <1>0, <1>1, <1>3, <1>4, <1>5 DEF ResolvingOK, AddingOK
<1>7. FailedForAReason'
  BY <1>0, <1>1, <1>3 DEF FailedForAReason
<1> QED
  BY <1>3, <1>6, <1>7 DEF Reasons

LEMMA AddProviderReasons ==
  ASSUME Reasons, NEW i \in Items, AddProvider(i)
  PROVE  Reasons'
<1>0. /\ RecipesOK /\ ResolvingOK /\ FailedForAReason /\ TaskDataTypeOK
  BY DEF Reasons, ResolvingOK
<1>1. /\ cascade = <<>> /\ stage # "NoProvider" /\ i \notin assumed
      /\ i \in waiting /\ waiting' = waiting \ {i}
      /\ adding' = [item |-> i, left |-> eligible[i]]
      /\ UNCHANGED <<recipes, data, stage, added, cascade, runlist>>
      /\ UNCHANGED provided
  BY DEF AddProvider, Turn, data
<1>2. /\ UNCHANGED <<eligible, assumed, required, mode>> /\ RecipesOK'
      /\ \A B : LostWithOne(B)' = LostWithOne(B) /\ ClosedWithOne(B)' = ClosedWithOne(B)
      /\ ProvidedOK(provided)' = ProvidedOK(provided)
  BY <1>0, <1>1, RecipesKept DEF ProvidedOK
<1>3. UNCHANGED <<provided, seenfns, external_targets, failed_fns, failed_deps>>
  BY <1>1 DEF data
<1>4. TaskDataTypeOK'
  BY <1>0, <1>1, <1>2, <1>3 DEF TaskDataTypeOK
<1>5. ToSet(cascade)' = {} /\ Resolved' = Resolved
  BY <1>1 DEF ToSet, Resolved
<1>6. AddingOK'
  <2>1. adding'.item = i /\ adding'.left = eligible[i] /\ eligible[i] \in Seq(Files)
    BY <1>0, <1>1 DEF RecipesOK
  <2> QED
    BY <1>0, <1>1, <1>2, <2>1 DEF AddingOK, ResolvingOK
<1>7. ~Resolved
  BY <1>0, <1>1 DEF ResolvingOK
<1>8. ResolvingOK'
  BY <1>0, <1>1, <1>2, <1>3, <1>4, <1>5, <1>6, <1>7 DEF ResolvingOK
<1>9. FailedForAReason'
  BY <1>0, <1>2, <1>3 DEF FailedForAReason
<1> QED
  BY <1>2, <1>8, <1>9 DEF Reasons

\* An item without providers is one of those lost.
LEMMA NoProviderReasons ==
  ASSUME Reasons, NEW i \in Items, NoProvider(i)
  PROVE  Reasons'
<1>0. /\ RecipesOK /\ ResolvingOK /\ FailedForAReason /\ TaskDataTypeOK
  BY DEF Reasons, ResolvingOK
<1>1. /\ cascade = <<>> /\ adding = NotAdding /\ stage # "NoProvider" /\ i \notin assumed
      /\ i \in waiting /\ waiting' = waiting \ {i} /\ Candidates(i) = {}
      /\ UNCHANGED <<recipes, provided, seenfns, failed_fns, added, adding, runlist>>
  BY DEF NoProvider, Turn
<1>2. /\ UNCHANGED <<eligible, assumed, required, mode>> /\ RecipesOK'
      /\ \A B : LostWithOne(B)' = LostWithOne(B) /\ ClosedWithOne(B)' = ClosedWithOne(B)
      /\ ProvidedOK(provided)' = ProvidedOK(provided) /\ \A f : Needs(f)' = Needs(f)
  BY <1>0, <1>1, RecipesKept
<1>3. external_targets' \subseteq required
  BY <1>0, <1>1 DEF NoProvider, ResolvingOK, TaskDataTypeOK
<1>4. \/ failed_deps' = failed_deps /\ cascade' = <<>> /\ stage' \in {stage, "NoProvider"}
      \/ RemoveItem(i, <<>>) /\ stage' = stage
  BY <1>1 DEF NoProvider
<1>5. ~Resolved /\ ~Resolved'
  BY <1>0, <1>1, <1>4 DEF ResolvingOK, Resolved
<1>6. CASE failed_deps' = failed_deps /\ cascade' = <<>> /\ stage' \in {stage, "NoProvider"}
  <2>1. TaskDataTypeOK'
    BY <1>0, <1>1, <1>2, <1>3, <1>6 DEF TaskDataTypeOK
  <2>2. ToSet(cascade)' = {}
    BY <1>6 DEF ToSet
  <2>3. ResolvingOK'
    BY <1>0, <1>1, <1>2, <1>5, <1>6, <2>1, <2>2 DEF ResolvingOK, AddingOK
  <2>4. FailedForAReason'
    BY <1>0, <1>1, <1>2, <1>6 DEF FailedForAReason
  <2> QED
    BY <1>2, <2>3, <2>4 DEF Reasons
<1>7. CASE RemoveItem(i, <<>>) /\ stage' = stage
  <2>1. /\ failed_deps' = failed_deps \cup {i} /\ cascade' \in Seq(Frames) /\ cascade' # <<>>
        /\ ToSet(cascade') = {Frame("remove", i, Dependees(i))} \cup ToSet(<<>>)
    <3>1. <<>> \in Seq(Frames) /\ seenfns \subseteq Files
      BY <1>0 DEF TaskDataTypeOK
    <3> QED
      BY <1>7, <3>1, RemoveItemIs
  <2>2. TaskDataTypeOK'
    BY <1>0, <1>1, <1>2, <1>3, <2>1 DEF TaskDataTypeOK
  <2>3. \A fr \in ToSet(cascade') : FrameOK(fr)'
    <3>1. ToSet(cascade') = {Frame("remove", i, Dependees(i))} /\ i \in failed_deps'
      BY <2>1, NothingInEmpty
    <3> QED
      BY <1>0, <1>1, <3>1, RemoveFrameOK
  <2>4. ResolvingOK'
    BY <1>0, <1>1, <1>2, <1>5, <1>7, <2>1, <2>2, <2>3 DEF ResolvingOK, AddingOK
  <2>5. FailedForAReason'
    <3> SUFFICES ASSUME NEW B \in SUBSET Files, ClosedWithOne(B)
                 PROVE  failed_fns \subseteq B /\ failed_deps \cup {i} \subseteq LostWithOne(B)
      BY <1>1, <1>2, <2>1 DEF FailedForAReason
    <3>1. failed_fns \subseteq B /\ failed_deps \subseteq LostWithOne(B)
      BY <1>0 DEF FailedForAReason
    <3>2. i \in LostWithOne(B)
      <4>1. eligible[i] \in Seq(Files) /\ ToSet(eligible[i]) \subseteq failed_fns
        BY <1>0, <1>1 DEF RecipesOK, Candidates
      <4>2. eligible[i] = <<>> \/ ToSet(eligible[i]) # {}
        <5>1. CASE eligible[i] # <<>>
          <6> DEFINE e == eligible[i]
          <6>1. e \in Seq(Files) /\ e # <<>>
            BY <4>1, <5>1
          <6> HIDE DEF e
          <6>2. ToSet(e) = {Head(e)} \cup ToSet(Tail(e))
            BY <6>1, TopAndRest
          <6> QED
            BY <6>2 DEF e
        <5> QED
          BY <5>1
      <4> QED
        BY <1>1, <3>1, <4>1, <4>2 DEF LostWithOne
    <3> QED
      BY <3>1, <3>2
  <2> QED
    BY <1>2, <2>4, <2>5 DEF Reasons
<1> QED
  BY <1>4, <1>6, <1>7

\* The cascade goes on only while items are being resolved.
LEMMA TopFrame ==
  ASSUME Reasons, cascade # <<>>
  PROVE  /\ Head(cascade) \in Frames /\ Tail(cascade) \in Seq(Frames)
         /\ FrameOK(Head(cascade)) /\ \A fr \in ToSet(Tail(cascade)) : FrameOK(fr)
         /\ ToSet(cascade) = {Head(cascade)} \cup ToSet(Tail(cascade))
         /\ stage # "NoProvider" /\ ~Resolved
<1>1. /\ cascade \in Seq(Frames) /\ \A fr \in ToSet(cascade) : FrameOK(fr)
      /\ stage # "NoProvider" /\ ~Resolved
  BY DEF Reasons, ResolvingOK
<1>2. /\ Head(cascade) \in Frames /\ Tail(cascade) \in Seq(Frames)
      /\ ToSet(cascade) = {Head(cascade)} \cup ToSet(Tail(cascade))
  BY <1>1, TopAndRest
<1> QED
  BY <1>1, <1>2

\* With one more off the list of the top frame, and more seen and failed,
\* every frame is still right.
LEMMA BelowKept ==
  ASSUME Reasons, cascade # <<>>, UNCHANGED recipes, NEW x,
         DOMAIN provided \subseteq DOMAIN provided', seenfns \subseteq seenfns',
         failed_fns \subseteq failed_fns', failed_deps \subseteq failed_deps'
  PROVE  /\ Below(x) \in Seq(Frames) /\ Below(x) # <<>>
         /\ \A fr \in ToSet(Below(x)) : FrameOK(fr)'
<1>1. /\ Head(cascade) \in Frames /\ Tail(cascade) \in Seq(Frames)
      /\ FrameOK(Head(cascade)) /\ \A fr \in ToSet(Tail(cascade)) : FrameOK(fr)
  BY TopFrame
<1>2. /\ Below(x) \in Seq(Frames) /\ Below(x) # <<>>
      /\ ToSet(Below(x)) = {TopWithout(x)} \cup ToSet(Tail(cascade))
      /\ FrameOK(TopWithout(x))
  BY <1>1, BelowIs DEF Reasons, ResolvingOK
<1>3. \A fr \in ToSet(Below(x)) : FrameOK(fr)
  BY <1>1, <1>2
<1>4. ASSUME NEW fr \in ToSet(Below(x)) PROVE FrameOK(fr)'
  BY <1>3, FrameKept DEF Reasons
<1> QED
  BY <1>2, <1>4

\* A failed file is taken from an item, which is lost with it if that was all
\* it had.
LEMMA FailFnReasons ==
  ASSUME Reasons, NEW i \in Items, FailFn(i)
  PROVE  Reasons'
<1> DEFINE top  == Head(cascade)
           f    == Head(cascade).what
           rest == RemoveFirst(provided[i], Head(cascade).what)
<1>0. /\ RecipesOK /\ ResolvingOK /\ FailedForAReason /\ TaskDataTypeOK
      /\ ProvidedOK(provided) /\ AddingOK /\ seenfns \subseteq Files
  BY ReasonsFacts
<1>1. /\ cascade # <<>> /\ top.op = "fail" /\ i \in top.left
      /\ provided' = [provided EXCEPT ![i] = rest]
      /\ IF rest = <<>> THEN RemoveItem(i, Below(i))
         ELSE cascade' = Below(i) /\ failed_deps' = failed_deps
      /\ UNCHANGED <<recipes, seenfns, external_targets, failed_fns, stage, waiting, added,
                     adding, runlist>>
  BY DEF FailFn
<1>2. /\ FrameOK(top) /\ stage # "NoProvider" /\ ~Resolved
  BY <1>1, TopFrame
<1>3. f \in failed_fns /\ i \in DOMAIN provided \ assumed /\ f \in ToSet(eligible[i])
  BY <1>1, <1>2 DEF FrameOK
<1>4. /\ UNCHANGED <<eligible, assumed, required, mode>> /\ RecipesOK'
      /\ \A B : LostWithOne(B)' = LostWithOne(B) /\ ClosedWithOne(B)' = ClosedWithOne(B)
      /\ \A p : ProvidedOK(p)' = ProvidedOK(p)
  BY <1>0, <1>1, RecipesKept
<1>5. /\ rest \in Seq(Files) /\ IsInjective(rest) /\ ToSet(rest) \subseteq ToSet(eligible[i])
  <2>1. provided[i] \in Seq(Files) /\ IsInjective(provided[i])
        /\ ToSet(provided[i]) \subseteq ToSet(eligible[i])
    BY <1>0, <1>3 DEF ProvidedOK
  <2>2. rest \in Seq(Files) /\ IsInjective(rest) /\ ToSet(rest) = ToSet(provided[i]) \ {f}
    BY <2>1, RemovedFirst
  <2> QED
    BY <2>1, <2>2
<1> HIDE DEF rest
<1>6. /\ DOMAIN provided' = DOMAIN provided /\ provided'[i] = rest
      /\ \A j \in DOMAIN provided : j # i => provided'[j] = provided[j]
  BY <1>1, <1>3
<1>7. ProvidedOK(provided')
  BY <1>0, <1>3, <1>5, <1>6 DEF ProvidedOK
<1>8. /\ failed_deps \subseteq failed_deps' /\ failed_deps' \subseteq failed_deps \cup {i}
  BY <1>1 DEF RemoveItem
<1>9. /\ Below(i) \in Seq(Frames) /\ Below(i) # <<>>
      /\ \A fr \in ToSet(Below(i)) : FrameOK(fr)'
  BY <1>1, <1>6, <1>8, BelowKept
<1>10. cascade' \in Seq(Frames) /\ cascade' # <<>> /\ \A fr \in ToSet(cascade') : FrameOK(fr)'
  <2>1. CASE rest = <<>>
    <3>1. /\ failed_deps' = failed_deps \cup {i} /\ cascade' \in Seq(Frames)
          /\ cascade' # <<>>
          /\ ToSet(cascade') = {Frame("remove", i, Dependees(i))} \cup ToSet(Below(i))
      BY <1>0, <1>1, <1>9, <2>1, RemoveItemIs
    <3>2. ASSUME NEW fr, fr = Frame("remove", i, Dependees(i)) PROVE FrameOK(fr)'
      <4>1. i \in failed_deps' /\ UNCHANGED <<recipes, seenfns>>
        BY <1>1, <3>1
      <4> QED
        BY <1>0, <3>2, <4>1, RemoveFrameOK
    <3> QED
      BY <1>9, <3>1, <3>2
  <2>2. CASE rest # <<>>
    BY <1>1, <1>9, <2>2
  <2> QED
    BY <2>1, <2>2
<1>11. TaskDataTypeOK'
  <2>1. \A j \in DOMAIN provided' : ToSet(provided'[j]) \subseteq ToSet(eligible[j])
    BY <1>7 DEF ProvidedOK
  <2> QED
    BY <1>0, <1>1, <1>3, <1>4, <1>6, <1>8, <2>1 DEF TaskDataTypeOK
<1>12. AddingOK'
  BY <1>0, <1>1, <1>4 DEF AddingOK
<1>13. ResolvingOK'
  <2>1. ~Resolved'
    BY <1>1, <1>2 DEF Resolved
  <2> QED
    BY <1>0, <1>1, <1>2, <1>4, <1>7, <1>10, <1>11, <1>12, <2>1 DEF ResolvingOK
<1>14. FailedForAReason'
  <2> SUFFICES ASSUME NEW B \in SUBSET Files, ClosedWithOne(B)
               PROVE  failed_fns \subseteq B /\ failed_deps' \subseteq LostWithOne(B)
    BY <1>1, <1>4 DEF FailedForAReason
  <2>1. failed_fns \subseteq B /\ failed_deps \subseteq LostWithOne(B)
    BY <1>0 DEF FailedForAReason
  <2>2. i \in LostWithOne(B)
    BY <1>3, <2>1 DEF LostWithOne
  <2> QED
    BY <1>8, <2>1, <2>2
<1> QED
  BY <1>4, <1>13, <1>14 DEF Reasons

\* A file fails that needs an item which is lost.
LEMMA RemoveTargetReasons ==
  ASSUME Reasons, NEW f \in Files, RemoveTarget(f)
  PROVE  Reasons'
<1> DEFINE top == Head(cascade)
           i   == Head(cascade).what
<1>0. /\ RecipesOK /\ ResolvingOK /\ FailedForAReason /\ TaskDataTypeOK
      /\ ProvidedOK(provided) /\ AddingOK /\ seenfns \subseteq Files
  BY ReasonsFacts
<1>1. /\ cascade # <<>> /\ top.op = "remove" /\ f \in top.left
      /\ IF f \in failed_fns THEN cascade' = Below(f) /\ failed_fns' = failed_fns
         ELSE Fail(f, provided, Below(f))
      /\ UNCHANGED <<recipes, provided, seenfns, external_targets, failed_deps, stage,
                     waiting, added, adding, runlist>>
  BY DEF RemoveTarget
<1>2. /\ FrameOK(top) /\ stage # "NoProvider" /\ ~Resolved
  BY <1>1, TopFrame
<1>3. i \in failed_deps /\ f \in seenfns /\ i \in Needs(f)
  BY <1>1, <1>2 DEF FrameOK
<1>4. /\ UNCHANGED <<eligible, assumed, required, mode>> /\ RecipesOK'
      /\ \A B : LostWithOne(B)' = LostWithOne(B) /\ ClosedWithOne(B)' = ClosedWithOne(B)
      /\ \A p : ProvidedOK(p)' = ProvidedOK(p)
  BY <1>0, <1>1, RecipesKept
<1>5. failed_fns \subseteq failed_fns' /\ failed_fns' \subseteq failed_fns \cup {f}
  BY <1>1 DEF Fail
<1>6. /\ Below(f) \in Seq(Frames) /\ Below(f) # <<>>
      /\ \A fr \in ToSet(Below(f)) : FrameOK(fr)'
  BY <1>1, <1>5, BelowKept
<1>7. cascade' \in Seq(Frames) /\ cascade' # <<>> /\ \A fr \in ToSet(cascade') : FrameOK(fr)'
  <2>1. CASE f \notin failed_fns
    <3> DEFINE new == Frame("fail", f, {j \in DOMAIN provided : f \in ToSet(provided[j])})
    <3>1. DOMAIN provided \subseteq Items
      BY <1>0 DEF ProvidedOK
    <3>2. /\ failed_fns' = failed_fns \cup {f} /\ cascade' \in Seq(Frames)
          /\ cascade' # <<>>
          /\ ToSet(cascade') = {new} \cup ToSet(Below(f))
      <4>1. new \in Frames
        BY <3>1 DEF Frame, Frames
      <4>2. failed_fns' = failed_fns \cup {f} /\ cascade' = <<new>> \o Below(f)
        BY <1>1, <2>1 DEF Fail
      <4> HIDE DEF new
      <4> QED
        BY <1>6, <4>1, <4>2, PushedOn
    <3>3. ASSUME NEW fr, fr = new PROVE FrameOK(fr)'
      <4>1. /\ fr.op = "fail" /\ fr.what = f
            /\ fr.left = {j \in DOMAIN provided : f \in ToSet(provided[j])}
        BY <3>3 DEF Frame
      <4>2. \A j \in fr.left : j \in DOMAIN provided \ assumed /\ f \in ToSet(eligible[j])
        BY <1>0, <4>1 DEF ProvidedOK, ToSet
      <4> QED
        BY <1>1, <1>4, <3>2, <4>1, <4>2 DEF FrameOK
    <3> HIDE DEF new
    <3> QED
      BY <1>6, <3>2, <3>3
  <2>2. CASE f \in failed_fns
    BY <1>1, <1>6, <2>2
  <2> QED
    BY <2>1, <2>2
<1>8. TaskDataTypeOK'
  BY <1>0, <1>1, <1>3, <1>4, <1>5 DEF TaskDataTypeOK
<1>9. AddingOK'
  BY <1>0, <1>1, <1>4, <1>5 DEF AddingOK
<1>10. ResolvingOK'
  <2>1. ~Resolved'
    BY <1>1, <1>2 DEF Resolved
  <2> QED
    BY <1>0, <1>1, <1>2, <1>4, <1>7, <1>8, <1>9, <2>1 DEF ResolvingOK
<1>11. FailedForAReason'
  <2> SUFFICES ASSUME NEW B \in SUBSET Files, ClosedWithOne(B)
               PROVE  failed_fns' \subseteq B /\ failed_deps \subseteq LostWithOne(B)
    BY <1>1, <1>4 DEF FailedForAReason
  <2>1. failed_fns \subseteq B /\ failed_deps \subseteq LostWithOne(B)
    BY <1>0 DEF FailedForAReason
  <2>2. f \in B
    BY <1>3, <2>1 DEF ClosedWithOne
  <2> QED
    BY <1>5, <2>1, <2>2
<1> QED
  BY <1>4, <1>10, <1>11 DEF Reasons

\* A file is added; with a dependency that has failed it fails.
LEMMA AddFileReasons ==
  ASSUME Reasons, AddFile
  PROVE  Reasons'
<1> DEFINE f == Head(adding.left)
<1>0. /\ RecipesOK /\ ResolvingOK /\ FailedForAReason /\ TaskDataTypeOK
      /\ AddingOK /\ seenfns \subseteq Files
  BY ReasonsFacts
<1>1. /\ adding # NotAdding /\ f \in Files /\ f \in ToSet(eligible[adding.item])
      /\ cascade = <<>> /\ adding' = [adding EXCEPT !.left = Tail(@)]
      /\ Tail(adding.left) \in Seq(Files)
      /\ ToSet(Tail(adding.left)) \subseteq ToSet(eligible[adding.item])
      /\ UNCHANGED <<recipes, external_targets, failed_deps, stage, waiting, added, runlist>>
      /\ ProvidedOK(provided')
      /\ \/ UNCHANGED <<seenfns, failed_fns, cascade>>
         \/ seenfns' = seenfns \cup {f} /\ UNCHANGED <<failed_fns, cascade>>
         \/ /\ seenfns' = seenfns \cup {f} /\ Gone(f) # {}
            /\ failed_fns' = failed_fns \cup {f}
            /\ cascade' \in Seq(Frames) /\ cascade' # <<>>
            /\ ToSet(cascade') =
                 {Frame("fail", f, {j \in DOMAIN provided' : f \in ToSet(provided'[j])})}
  BY <1>0, AddFileIs
<1> HIDE DEF f
<1>2. /\ UNCHANGED <<eligible, assumed, required, mode, deps>> /\ RecipesOK'
      /\ \A B : LostWithOne(B)' = LostWithOne(B) /\ ClosedWithOne(B)' = ClosedWithOne(B)
      /\ \A p : ProvidedOK(p)' = ProvidedOK(p)
  BY <1>0, <1>1, RecipesKept
<1>3. /\ failed_fns' \subseteq failed_fns \cup {f} /\ seenfns' \subseteq seenfns \cup {f}
      /\ failed_fns \subseteq failed_fns' /\ failed_fns' \subseteq seenfns'
  BY <1>0, <1>1 DEF TaskDataTypeOK
<1>4. failed_fns' # failed_fns => f \in failed_fns' /\ Gone(f) # {}
  BY <1>1
<1>5. stage # "NoProvider" /\ ~Resolved /\ ~Resolved'
  BY <1>0, <1>1 DEF ResolvingOK, Resolved
<1>6. cascade' \in Seq(Frames) /\ \A fr \in ToSet(cascade') : FrameOK(fr)'
  <2>1. CASE cascade' = <<>>
    BY <2>1 DEF ToSet
  <2>2. CASE cascade' # <<>>
    <3> DEFINE new == Frame("fail", f, {j \in DOMAIN provided' : f \in ToSet(provided'[j])})
    <3>1. cascade' \in Seq(Frames) /\ f \in failed_fns' /\ ToSet(cascade') = {new}
      BY <1>1, <2>2
    <3>2. ASSUME NEW fr, fr = new PROVE FrameOK(fr)'
      <4>1. /\ fr.op = "fail" /\ fr.what = f
            /\ fr.left = {j \in DOMAIN provided' : f \in ToSet(provided'[j])}
        BY <3>2 DEF Frame
      <4>2. ASSUME NEW j \in fr.left
            PROVE  j \in DOMAIN provided' \ assumed /\ f \in ToSet(eligible[j])
        <5>1. j \in DOMAIN provided' /\ f \in ToSet(provided'[j])
          BY <4>1
        <5>2. provided'[j] # <<>>
          BY <5>1 DEF ToSet
        <5> QED
          BY <1>1, <5>1, <5>2 DEF ProvidedOK
      <4> QED
        BY <1>2, <3>1, <4>1, <4>2 DEF FrameOK
    <3> HIDE DEF new
    <3> QED
      BY <3>1, <3>2
  <2> QED
    BY <2>1, <2>2
<1>7. TaskDataTypeOK'
  <2>1. \A j \in DOMAIN provided' : ToSet(provided'[j]) \subseteq ToSet(eligible[j])
    BY <1>1 DEF ProvidedOK
  <2>2. DOMAIN provided' \subseteq Items
    BY <1>1 DEF ProvidedOK
  <2> QED
    BY <1>0, <1>1, <1>2, <1>3, <2>1, <2>2 DEF TaskDataTypeOK
<1>8. AddingOK'
  <2>1. /\ adding.item \in Items \ assumed
        /\ adding = [item |-> adding.item, left |-> adding.left]
        /\ stage = "targets" => adding.item \in required
    BY <1>0, <1>1 DEF AddingOK
  <2>2. adding' = [item |-> adding.item, left |-> Tail(adding.left)]
    BY <1>1, <2>1
  <2>3. adding'.item = adding.item /\ adding'.left = Tail(adding.left)
    BY <2>2
  <2>4. cascade' # <<>> => ToSet(eligible[adding.item]) \cap failed_fns' # {}
    <3>1. cascade' # <<>> => f \in failed_fns'
      BY <1>1
    <3> QED
      BY <1>1, <3>1
  <2> QED
    BY <1>1, <1>2, <2>1, <2>2, <2>3, <2>4 DEF AddingOK
<1>9. ResolvingOK'
  BY <1>0, <1>1, <1>2, <1>5, <1>6, <1>7, <1>8 DEF ResolvingOK
<1>10. FailedForAReason'
  <2> SUFFICES ASSUME NEW B \in SUBSET Files, ClosedWithOne(B)
               PROVE  failed_fns' \subseteq B /\ failed_deps \subseteq LostWithOne(B)
    BY <1>1, <1>2 DEF FailedForAReason
  <2>1. failed_fns \subseteq B /\ failed_deps \subseteq LostWithOne(B)
    BY <1>0 DEF FailedForAReason
  <2>2. ASSUME Gone(f) # {} PROVE f \in B
    <3>1. Needs(f) \cap LostWithOne(B) # {}
      BY <2>1, <2>2 DEF Gone, Needs
    <3> QED
      BY <1>1, <3>1 DEF ClosedWithOne
  <2> QED
    BY <1>3, <1>4, <2>1, <2>2
<1> QED
  BY <1>2, <1>9, <1>10 DEF Reasons

LEMMA AddedAllReasons ==
  ASSUME Reasons, AddedAll
  PROVE  Reasons'
<1>0. /\ RecipesOK /\ ResolvingOK /\ FailedForAReason /\ TaskDataTypeOK
  BY DEF Reasons, ResolvingOK
<1>1. /\ cascade = <<>> /\ adding # NotAdding /\ Returned(adding.item) /\ adding' = NotAdding
      /\ UNCHANGED <<recipes, provided, seenfns, failed_fns, failed_deps, stage, waiting,
                     cascade>>
  BY DEF AddedAll
<1>2. adding.item \in Items /\ (stage = "targets" => adding.item \in required)
  BY <1>0, <1>1 DEF ResolvingOK, AddingOK
<1>3. /\ external_targets' \subseteq required /\ runlist' \subseteq required \X Files
      /\ added' \in BOOLEAN
  BY <1>1, <1>2, ReturnedIs
<1>4. /\ UNCHANGED <<eligible, assumed, required, mode>> /\ RecipesOK'
      /\ \A B : LostWithOne(B)' = LostWithOne(B) /\ ClosedWithOne(B)' = ClosedWithOne(B)
      /\ ProvidedOK(provided)' = ProvidedOK(provided)
  BY <1>0, <1>1, RecipesKept DEF ProvidedOK
<1>5. TaskDataTypeOK'
  BY <1>0, <1>1, <1>3, <1>4 DEF TaskDataTypeOK
<1>6. ToSet(cascade)' = {} /\ Resolved' = Resolved
  BY <1>1 DEF ToSet, Resolved
<1>7. ResolvingOK'
  BY <1>0, <1>1, <1>4, <1>5, <1>6 DEF ResolvingOK, AddingOK
<1>8. FailedForAReason'
  BY <1>0, <1>1, <1>4 DEF FailedForAReason
<1> QED
  BY <1>4, <1>7, <1>8 DEF Reasons

\* A function of the cascade returns, or raises NoProvider; add_unresolved
\* may catch that, and the target it was at has lost a provider.
LEMMA ReturnReasons ==
  ASSUME Reasons, Return
  PROVE  Reasons'
<1>0. /\ RecipesOK /\ ResolvingOK /\ FailedForAReason /\ TaskDataTypeOK /\ AddingOK
      /\ seenfns \subseteq Files
  BY ReasonsFacts
<1>1. /\ cascade # <<>>
      /\ \/ cascade' = Tail(cascade) /\ UNCHANGED <<adding, stage, failed_deps>>
         \/ adding' = NotAdding /\ stage' = "NoProvider" /\ cascade' = <<>>
              /\ failed_deps' = failed_deps
         \/ /\ adding' = NotAdding /\ stage' = stage /\ adding.item \in BuildItems
            /\ RemoveItem(adding.item, <<>>)
      /\ UNCHANGED <<recipes, provided, seenfns, external_targets, failed_fns, waiting,
                     added, runlist>>
  BY DEF Return, Raise
<1>2. /\ Tail(cascade) \in Seq(Frames) /\ \A fr \in ToSet(Tail(cascade)) : FrameOK(fr)
      /\ stage # "NoProvider" /\ ~Resolved
  BY <1>1, TopFrame
<1>3. /\ UNCHANGED <<eligible, assumed, required, mode>> /\ RecipesOK'
      /\ \A B : LostWithOne(B)' = LostWithOne(B) /\ ClosedWithOne(B)' = ClosedWithOne(B)
      /\ ProvidedOK(provided)' = ProvidedOK(provided)
  BY <1>0, <1>1, RecipesKept DEF ProvidedOK
<1>4. ~Resolved'
  BY <1>1, <1>2 DEF Resolved
<1>5. failed_deps \subseteq failed_deps'
  BY <1>1 DEF RemoveItem
<1>6. CASE cascade' = Tail(cascade) /\ UNCHANGED <<adding, stage, failed_deps>>
  <2>1. TaskDataTypeOK'
    BY <1>0, <1>1, <1>3, <1>6 DEF TaskDataTypeOK
  <2>2. \A fr \in ToSet(cascade') : FrameOK(fr)'
    BY <1>0, <1>1, <1>2, <1>5, <1>6, FrameKept
  <2>3. AddingOK'
    BY <1>0, <1>1, <1>3, <1>6 DEF AddingOK
  <2>4. ResolvingOK'
    BY <1>0, <1>1, <1>2, <1>3, <1>4, <1>6, <2>1, <2>2, <2>3 DEF ResolvingOK
  <2>5. FailedForAReason'
    BY <1>0, <1>1, <1>3, <1>6 DEF FailedForAReason
  <2> QED
    BY <1>3, <2>4, <2>5 DEF Reasons
<1>7. CASE adding' = NotAdding /\ stage' = "NoProvider" /\ cascade' = <<>>
             /\ failed_deps' = failed_deps
  <2>1. TaskDataTypeOK'
    BY <1>0, <1>1, <1>3, <1>7 DEF TaskDataTypeOK
  <2>2. ToSet(cascade)' = {}
    BY <1>7 DEF ToSet
  <2>3. ResolvingOK'
    BY <1>0, <1>1, <1>3, <1>4, <1>7, <2>1, <2>2 DEF ResolvingOK, AddingOK
  <2>4. FailedForAReason'
    BY <1>0, <1>1, <1>3, <1>7 DEF FailedForAReason
  <2> QED
    BY <1>3, <2>3, <2>4 DEF Reasons
<1>8. CASE /\ adding' = NotAdding /\ stage' = stage /\ adding.item \in BuildItems
           /\ RemoveItem(adding.item, <<>>)
  <2> DEFINE i == adding.item
  <2>1. adding # NotAdding
    BY <1>8, TaskDataAssumption DEF NotAdding, Items
  <2>2. i \in Items \ assumed /\ ToSet(eligible[i]) \cap failed_fns # {}
    BY <1>0, <1>1, <2>1 DEF AddingOK
  <2>3. RemoveItem(i, <<>>) /\ <<>> \in Seq(Frames)
    BY <1>8
  <2> HIDE DEF i
  <2>4. /\ failed_deps' = failed_deps \cup {i} /\ cascade' \in Seq(Frames)
        /\ cascade' # <<>>
        /\ ToSet(cascade') = {Frame("remove", i, Dependees(i))} \cup ToSet(<<>>)
    BY <1>0, <2>2, <2>3, RemoveItemIs
  <2>5. \A fr \in ToSet(cascade') : FrameOK(fr)'
    <3>1. ToSet(cascade') = {Frame("remove", i, Dependees(i))} /\ i \in failed_deps'
      BY <2>4, NothingInEmpty
    <3> QED
      BY <1>0, <1>1, <3>1, RemoveFrameOK
  <2>6. TaskDataTypeOK'
    BY <1>0, <1>1, <1>3, <2>2, <2>4 DEF TaskDataTypeOK
  <2>7. ResolvingOK'
    BY <1>0, <1>1, <1>2, <1>3, <1>4, <1>8, <2>4, <2>5, <2>6 DEF ResolvingOK, AddingOK
  <2>8. FailedForAReason'
    <3> SUFFICES ASSUME NEW B \in SUBSET Files, ClosedWithOne(B)
                 PROVE  failed_fns \subseteq B /\ failed_deps' \subseteq LostWithOne(B)
      BY <1>1, <1>3 DEF FailedForAReason
    <3>1. failed_fns \subseteq B /\ failed_deps \subseteq LostWithOne(B)
      BY <1>0 DEF FailedForAReason
    <3>2. i \in LostWithOne(B)
      BY <2>2, <3>1 DEF LostWithOne
    <3> QED
      BY <2>4, <3>1, <3>2
  <2> QED
    BY <1>3, <2>7, <2>8 DEF Reasons
<1> QED
  BY <1>1, <1>6, <1>7, <1>8

LEMMA NextStageReasons ==
  ASSUME Reasons, NextStage
  PROVE  Reasons'
<1>0. /\ RecipesOK /\ ResolvingOK /\ FailedForAReason /\ TaskDataTypeOK
  BY DEF Reasons, ResolvingOK
<1>1. /\ waiting = {} /\ adding = NotAdding /\ cascade = <<>>
      /\ UNCHANGED <<recipes, data, adding, cascade, runlist>>
      /\ stage' \in {"build", "run", "resolved"}
      /\ \/ waiting' = Unresolved(RunItems) /\ added' = added
         \/ waiting' = Unresolved(BuildItems) /\ added' = FALSE
         \/ waiting' = waiting /\ added' = added
      /\ stage' = "resolved" => waiting' = waiting
  BY DEF NextStage
<1>2. UNCHANGED <<provided, seenfns, external_targets, failed_fns, failed_deps>>
  BY <1>1 DEF data
<1>3. /\ UNCHANGED <<eligible, assumed, required, mode>> /\ RecipesOK'
      /\ \A B : LostWithOne(B)' = LostWithOne(B) /\ ClosedWithOne(B)' = ClosedWithOne(B)
      /\ ProvidedOK(provided)' = ProvidedOK(provided)
  BY <1>0, <1>1, <1>2, RecipesKept DEF ProvidedOK
<1>4. waiting' \subseteq Items /\ added' \in BOOLEAN
  BY <1>0, <1>1 DEF TaskDataTypeOK, Unresolved
<1>5. TaskDataTypeOK'
  BY <1>0, <1>1, <1>2, <1>3, <1>4 DEF TaskDataTypeOK
<1>6. ToSet(cascade)' = {}
  BY <1>1 DEF ToSet
<1>7. Resolved' => waiting' = {}
  BY <1>1 DEF Resolved
<1>8. ResolvingOK'
  BY <1>0, <1>1, <1>2, <1>3, <1>5, <1>6, <1>7 DEF ResolvingOK, AddingOK
<1>9. FailedForAReason'
  BY <1>0, <1>2, <1>3 DEF FailedForAReason
<1> QED
  BY <1>3, <1>8, <1>9 DEF Reasons

\* What comes after has the recipes as they are.
LEMMA LaterReasons ==
  ASSUME Reasons, UNCHANGED resolution,
         UNCHANGED stage \/ (Resolved /\ Resolved')
  PROVE  Reasons'
<1>0. /\ RecipesOK /\ ResolvingOK /\ FailedForAReason /\ TaskDataTypeOK
  BY DEF Reasons, ResolvingOK
<1>1. /\ UNCHANGED recipes
      /\ UNCHANGED <<provided, seenfns, external_targets, failed_fns, failed_deps>>
      /\ UNCHANGED <<waiting, added, adding, cascade, runlist>>
  BY DEF resolution, data
<1>2. /\ UNCHANGED <<eligible, assumed, required, mode>> /\ RecipesOK'
      /\ \A B : LostWithOne(B)' = LostWithOne(B) /\ ClosedWithOne(B)' = ClosedWithOne(B)
      /\ ProvidedOK(provided)' = ProvidedOK(provided)
  BY <1>0, <1>1, RecipesKept DEF ProvidedOK
<1>3. TaskDataTypeOK'
  BY <1>0, <1>1, <1>2 DEF TaskDataTypeOK
<1>4. \A fr \in ToSet(cascade') : FrameOK(fr)'
  BY <1>0, <1>1, FrameKept DEF ResolvingOK
<1>5. (stage' = stage /\ (Resolved' <=> Resolved)) \/ (Resolved /\ stage' \notin {"targets", "NoProvider"})
  BY DEF Resolved
<1>6. AddingOK'
  BY <1>0, <1>1, <1>2, <1>5 DEF ResolvingOK, AddingOK
<1>7. ResolvingOK'
  BY <1>0, <1>1, <1>2, <1>3, <1>4, <1>5, <1>6 DEF ResolvingOK
<1>8. FailedForAReason'
  BY <1>0, <1>1, <1>2 DEF FailedForAReason
<1> QED
  BY <1>2, <1>7, <1>8 DEF Reasons

\* The steps after the recipes are found
LaterSteps ==
  \/ ResolveDepends \/ WalkUp \/ WalkedUp
  \/ \E t \in again : Recurse(t)
  \/ Recursed \/ MarkAndPrune \/ RunAll \/ RunOnly \/ CheckGraph \/ Weigh \/ Weighed

LEMMA LaterIs ==
  ASSUME LaterSteps
  PROVE  UNCHANGED resolution /\ Resolved /\ Resolved'
<1>1. CASE ResolveDepends
  BY <1>1 DEF ResolveDepends, Goes, Resolved
<1>2. CASE WalkUp
  BY <1>2 DEF WalkUp, Goes, Resolved
<1>3. CASE WalkedUp
  BY <1>3 DEF WalkedUp, Goes, Resolved
<1>4. ASSUME NEW t \in again, Recurse(t) PROVE UNCHANGED resolution /\ Resolved /\ Resolved'
  BY <1>4 DEF Recurse, Goes, Resolved
<1>5. CASE Recursed
  BY <1>5 DEF Recursed, Goes, Resolved
<1>6. CASE MarkAndPrune
  BY <1>6 DEF MarkAndPrune, Goes, Resolved
<1>7. CASE RunAll
  <2>1. stage = "runall" /\ UNCHANGED resolution
        /\ stage' \in {"runonly", "KeyError", "no tasks of the name"}
    BY <1>7 DEF RunAll, Goes
  <2> QED
    BY <2>1 DEF Resolved
<1>8. CASE RunOnly
  <2>1. stage = "runonly" /\ UNCHANGED resolution
        /\ stage' \in {"check", "no tasks of the name"}
    BY <1>8 DEF RunOnly, Goes
  <2> QED
    BY <2>1 DEF Resolved
<1>9. CASE CheckGraph
  <2>1. stage = "check" /\ UNCHANGED resolution
        /\ stage' \in {"please report", "incomplete", "loop", "weigh"}
    BY <1>9 DEF CheckGraph, Goes
  <2> QED
    BY <2>1 DEF Resolved
<1>10. CASE Weigh
  BY <1>10 DEF Weigh, Goes, Resolved
<1>11. CASE Weighed
  <2>1. stage = "weigh" /\ UNCHANGED resolution /\ stage' \in {"prepared", "loop"}
    BY <1>11 DEF Weighed, Goes
  <2> QED
    BY <2>1 DEF Resolved
<1> QED
  BY <1>1, <1>2, <1>3, <1>4, <1>5, <1>6, <1>7, <1>8, <1>9, <1>10, <1>11 DEF LaterSteps

LEMMA PrepareNextIs ==
  ASSUME [PrepareNext]_<<taskdatavars, preparevars>>
  PROVE  TaskDataNext \/ LaterSteps \/ UNCHANGED <<taskdatavars, preparevars>>
BY DEF PrepareNext, LaterSteps

LEMMA ReasonsStep ==
  ASSUME Reasons, [PrepareNext]_<<taskdatavars, preparevars>>
  PROVE  Reasons'
<1>1. CASE TaskDataNext
  BY <1>1, NothingToAddReasons, AddProviderReasons, NoProviderReasons, FailFnReasons,
     RemoveTargetReasons, AddFileReasons, AddedAllReasons, ReturnReasons, NextStageReasons
     DEF TaskDataNext
<1>2. CASE LaterSteps
  BY <1>2, LaterIs, LaterReasons
<1>3. CASE UNCHANGED <<taskdatavars, preparevars>>
  BY <1>3, LaterReasons DEF taskdatavars, resolution
<1> QED
  BY <1>1, <1>2, <1>3, PrepareNextIs

-----------------------------------------------------------------------------
(* Nothing is forgotten: what a failure means is found out in the end, and  *)
(* so is what each item has for providers.                                  *)

Progress == NothingForgotten /\ RoundsComplete

LEMMA RegularBefore ==
  ASSUME Reasons, UNCHANGED recipes, failed_deps \subseteq failed_deps',
         stage # "NoProvider", Regular'
  PROVE  Regular
BY RecipesKept DEF Reasons, Regular, Unscathed

\* With one of these two changed, and where nothing is left an item has
\* failed, nothing more is unresolved.
LEMMA UnresolvedLess ==
  ASSUME Reasons, UNCHANGED recipes, DOMAIN provided' = DOMAIN provided,
         failed_deps \subseteq failed_deps',
         \A i \in DOMAIN provided :
           provided'[i] = <<>> => provided[i] = <<>> \/ i \in failed_deps'
  PROVE  \A kind : Unresolved(kind)' \subseteq Unresolved(kind)
BY RecipesKept DEF Reasons, Unresolved

LEMMA NothingOnEmpty ==
  ASSUME cascade = <<>> PROVE \A op, what, x : ~OnStack(op, what, x)
BY DEF OnStack, ToSet

\* All but what is taken off the list of the top frame stays on the stack.
LEMMA StaysOnStack ==
  ASSUME Reasons, cascade # <<>>, NEW x, ToSet(Below(x)) \subseteq ToSet(cascade'),
         NEW op, NEW what, NEW y, OnStack(op, what, y),
         ~(op = Head(cascade).op /\ what = Head(cascade).what /\ y = x)
  PROVE  OnStack(op, what, y)'
<1>1. /\ ToSet(Below(x)) = {TopWithout(x)} \cup ToSet(Tail(cascade))
      /\ ToSet(cascade) = {Head(cascade)} \cup ToSet(Tail(cascade))
      /\ TopWithout(x).op = Head(cascade).op /\ TopWithout(x).what = Head(cascade).what
      /\ TopWithout(x).left = Head(cascade).left \ {x}
  BY BelowIs DEF Reasons, ResolvingOK
<1>2. PICK fr \in ToSet(cascade) : fr.op = op /\ fr.what = what /\ y \in fr.left
  BY DEF OnStack
<1>3. CASE fr = Head(cascade)
  BY <1>1, <1>2, <1>3 DEF OnStack
<1>4. CASE fr # Head(cascade)
  BY <1>1, <1>2, <1>4 DEF OnStack
<1> QED
  BY <1>3, <1>4

\* The same, when all that changes is the item add_provider is about.
LEMMA SameProgress ==
  ASSUME Reasons, NothingForgotten, UNCHANGED <<recipes, provided, seenfns, failed_fns,
         failed_deps, cascade>>
  PROVE  NothingForgotten' /\ \A kind : Unresolved(kind)' = Unresolved(kind)
BY RecipesKept DEF Reasons, NothingForgotten, OnStack, Unresolved

LEMMA NothingToAddProgress ==
  ASSUME Reasons, Regular => Progress, NEW i \in Items, NothingToAdd(i), Regular'
  PROVE  Progress'
<1>1. /\ stage # "NoProvider" /\ i \in waiting /\ Returned(i)
      /\ UNCHANGED <<recipes, provided, seenfns, failed_fns, failed_deps, stage, adding,
                     cascade>>
  BY DEF NothingToAdd, Turn
<1>2. Regular /\ NothingForgotten
  BY <1>1, RegularBefore DEF Progress
<1>3. stage \in {"targets", "build", "run"} /\ ~Resolved'
  BY <1>1 DEF Reasons, ResolvingOK, Resolved
<1>4. stage # "targets" => added'
  BY <1>1 DEF Returned
<1>5. RoundsComplete'
  BY <1>1, <1>3, <1>4 DEF RoundsComplete
<1> QED
  BY <1>1, <1>2, <1>5, SameProgress DEF Progress

LEMMA AddProviderProgress ==
  ASSUME Reasons, Regular => Progress, NEW i \in Items, AddProvider(i), Regular'
  PROVE  Progress'
<1>1. /\ stage # "NoProvider" /\ i \in waiting /\ adding' = [item |-> i, left |-> eligible[i]]
      /\ UNCHANGED <<recipes, stage, cascade>>
      /\ UNCHANGED <<provided, seenfns, failed_fns, failed_deps>>
  BY DEF AddProvider, Turn, data
<1>2. Regular /\ NothingForgotten
  BY <1>1, RegularBefore DEF Progress
<1>3. ~Resolved'
  BY <1>1 DEF Reasons, ResolvingOK, Resolved
<1>4. adding' # NotAdding
  <2>1. adding'.item = i /\ i # None
    BY <1>1, TaskDataAssumption
  <2> QED
    BY <2>1 DEF NotAdding
<1>5. RoundsComplete'
  BY <1>3, <1>4 DEF RoundsComplete, NotAdding
<1> QED
  BY <1>1, <1>2, <1>5, SameProgress DEF Progress

\* When an item is removed, all that depend on it are on the stack.
LEMMA RemovedProgress ==
  ASSUME Reasons, NothingForgotten, NEW i \in Items, NEW below \in Seq(Frames),
         RemoveItem(i, below), UNCHANGED <<recipes, seenfns, failed_fns>>
  PROVE  /\ ToSet(below) \subseteq ToSet(cascade')
         /\ \A f \in seenfns : i \in deps[f] => OnStack("remove", i, f)'
         /\ failed_deps' = failed_deps \cup {i}
<1>1. /\ failed_deps' = failed_deps \cup {i}
      /\ ToSet(cascade') = {Frame("remove", i, Dependees(i))} \cup ToSet(below)
  BY ReasonsFacts, RemoveItemIs
<1>2. ASSUME NEW f \in seenfns, i \in deps[f] PROVE OnStack("remove", i, f)'
  <2> DEFINE fr == Frame("remove", i, Dependees(i))
  <2>1. fr.op = "remove" /\ fr.what = i /\ f \in fr.left
    BY <1>2 DEF Frame, Dependees, Needs
  <2>2. fr \in ToSet(cascade')
    BY <1>1
  <2> HIDE DEF fr
  <2> QED
    BY <2>1, <2>2 DEF OnStack
<1> QED
  BY <1>1, <1>2

LEMMA NoProviderProgress ==
  ASSUME Reasons, Regular => Progress, NEW i \in Items, NoProvider(i), Regular'
  PROVE  Progress'
<1>1. /\ stage # "NoProvider" /\ i \in waiting /\ waiting' = waiting \ {i} /\ cascade = <<>>
      /\ UNCHANGED <<recipes, provided, seenfns, failed_fns, added, adding, runlist>>
      /\ UNCHANGED mode
  BY DEF NoProvider, Turn, recipes
<1>2. RemoveItem(i, <<>>) /\ UNCHANGED stage
  BY <1>1 DEF NoProvider, Regular
<1>3. failed_deps' = failed_deps \cup {i}
  BY <1>2 DEF RemoveItem
<1>4. NothingForgotten /\ RoundsComplete
  BY <1>1, <1>3, RegularBefore DEF Progress
<1>5. \A f \in seenfns : i \in deps[f] => OnStack("remove", i, f)'
  <2>1. <<>> \in Seq(Frames)
    OBVIOUS
  <2> QED
    BY <1>1, <1>2, <1>4, <2>1, RemovedProgress
<1>6. \A op, what, x : ~OnStack(op, what, x)
  BY <1>1, NothingOnEmpty
<1>7. NothingForgotten'
  BY <1>1, <1>3, <1>4, <1>5, <1>6 DEF NothingForgotten, recipes
<1>8. \A kind : Unresolved(kind)' \subseteq Unresolved(kind) \ {i}
  BY <1>1, <1>3 DEF Unresolved, recipes
<1>9. ~Resolved'
  BY <1>1, <1>2 DEF Reasons, ResolvingOK, Resolved
<1>10. RoundsComplete'
  <2>1. /\ Unresolved(BuildItems)' \subseteq Unresolved(BuildItems) \ {i}
        /\ Unresolved(RunItems)' \subseteq Unresolved(RunItems) \ {i}
    BY <1>8
  <2> QED
    BY <1>1, <1>2, <1>4, <1>9, <2>1 DEF RoundsComplete
<1> QED
  BY <1>7, <1>10 DEF Progress

LEMMA FailFnProgress ==
  ASSUME Reasons, Regular => Progress, NEW i \in Items, FailFn(i), Regular'
  PROVE  Progress'
<1> DEFINE f    == Head(cascade).what
           rest == RemoveFirst(provided[i], Head(cascade).what)
<1>1. /\ cascade # <<>> /\ Head(cascade).op = "fail" /\ i \in Head(cascade).left
      /\ provided' = [provided EXCEPT ![i] = rest]
      /\ IF rest = <<>> THEN RemoveItem(i, Below(i))
         ELSE cascade' = Below(i) /\ failed_deps' = failed_deps
      /\ UNCHANGED <<recipes, seenfns, external_targets, failed_fns, stage, waiting, added,
                     adding, runlist>>
  BY DEF FailFn
<1>2. /\ FrameOK(Head(cascade)) /\ stage # "NoProvider" /\ ~Resolved /\ ~Resolved'
      /\ Below(i) \in Seq(Frames)
  <2>1. cascade \in Seq(Frames)
    BY DEF Reasons, ResolvingOK
  <2> QED
    BY <1>1, <2>1, TopFrame, BelowIs DEF Resolved
<1>3. i \in DOMAIN provided
  BY <1>1, <1>2 DEF FrameOK
<1>4. ToSet(rest) = ToSet(provided[i]) \ {f}
  <2>1. provided[i] \in Seq(Files) /\ IsInjective(provided[i])
    BY <1>3, ReasonsFacts DEF ProvidedOK
  <2> QED
    BY <2>1, RemovedFirst
<1> HIDE DEF rest
<1>5. /\ DOMAIN provided' = DOMAIN provided /\ provided'[i] = rest
      /\ \A j \in DOMAIN provided : j # i => provided'[j] = provided[j]
  BY <1>1, <1>3
<1>6. /\ failed_deps \subseteq failed_deps' /\ failed_deps' \subseteq failed_deps \cup {i}
      /\ rest = <<>> => i \in failed_deps'
  BY <1>1 DEF RemoveItem
<1>7. NothingForgotten /\ RoundsComplete
  BY <1>1, <1>2, <1>6, RegularBefore DEF Progress
<1>8. /\ ToSet(Below(i)) \subseteq ToSet(cascade')
      /\ failed_deps' # failed_deps =>
           \A g \in seenfns : i \in deps[g] => OnStack("remove", i, g)'
  <2>1. CASE rest = <<>>
    BY <1>1, <1>2, <1>7, <2>1, RemovedProgress
  <2>2. CASE rest # <<>>
    BY <1>1, <2>2
  <2> QED
    BY <2>1, <2>2
<1>9. \A op, what, y : OnStack(op, what, y) =>
        OnStack(op, what, y)' \/ (op = "fail" /\ what = f /\ y = i)
  BY <1>1, <1>8, StaysOnStack
<1>10. NothingForgotten'
  <2>1. ASSUME NEW j \in failed_deps', NEW g \in seenfns, j \in deps[g]
        PROVE  g \in failed_fns \/ OnStack("remove", j, g)'
    <3>1. CASE j \in failed_deps
      BY <1>7, <1>9, <2>1, <3>1 DEF NothingForgotten
    <3>2. CASE j \notin failed_deps
      BY <1>6, <1>8, <2>1, <3>2
    <3> QED
      BY <3>1, <3>2
  <2>2. ASSUME NEW j \in DOMAIN provided, NEW g \in ToSet(provided'[j])
        PROVE  g \in seenfns /\ (g \in failed_fns => OnStack("fail", g, j)')
    <3>1. g \in ToSet(provided[j]) /\ ~(g = f /\ j = i)
      BY <1>4, <1>5, <2>2
    <3> QED
      BY <1>7, <1>9, <3>1 DEF NothingForgotten
  <2> QED
    BY <1>1, <1>5, <1>7, <2>1, <2>2 DEF NothingForgotten, recipes
<1>11. \A kind : Unresolved(kind)' \subseteq Unresolved(kind)
  BY <1>1, <1>5, <1>6, UnresolvedLess
<1>12. RoundsComplete'
  <2>1. /\ Unresolved(BuildItems)' \subseteq Unresolved(BuildItems)
        /\ Unresolved(RunItems)' \subseteq Unresolved(RunItems)
    BY <1>11
  <2> QED
    BY <1>1, <1>2, <1>7, <2>1 DEF RoundsComplete, NotAdding
<1> QED
  BY <1>10, <1>12 DEF Progress

LEMMA RemoveTargetProgress ==
  ASSUME Reasons, Regular => Progress, NEW f \in Files, RemoveTarget(f), Regular'
  PROVE  Progress'
<1> DEFINE i == Head(cascade).what
<1>1. /\ cascade # <<>> /\ Head(cascade).op = "remove" /\ f \in Head(cascade).left
      /\ IF f \in failed_fns THEN cascade' = Below(f) /\ failed_fns' = failed_fns
         ELSE Fail(f, provided, Below(f))
      /\ UNCHANGED <<recipes, provided, seenfns, external_targets, failed_deps, stage,
                     waiting, added, adding, runlist>>
  BY DEF RemoveTarget
<1>2. /\ stage # "NoProvider" /\ ~Resolved /\ ~Resolved' /\ Below(f) \in Seq(Frames)
  <2>1. cascade \in Seq(Frames)
    BY DEF Reasons, ResolvingOK
  <2> QED
    BY <1>1, <2>1, TopFrame, BelowIs DEF Resolved
<1>3. failed_fns' = failed_fns \cup {f}
  BY <1>1 DEF Fail
<1>4. NothingForgotten /\ RoundsComplete
  BY <1>1, <1>2, RegularBefore DEF Progress
<1>5. /\ ToSet(Below(f)) \subseteq ToSet(cascade')
      /\ f \notin failed_fns =>
           \A j \in DOMAIN provided : f \in ToSet(provided[j]) => OnStack("fail", f, j)'
  <2>1. CASE f \notin failed_fns
    <3> DEFINE new == Frame("fail", f, {j \in DOMAIN provided : f \in ToSet(provided[j])})
    <3>1. new \in Frames
      BY ReasonsFacts DEF Frame, Frames
    <3>2. cascade' = <<new>> \o Below(f)
      BY <1>1, <2>1 DEF Fail
    <3>3. /\ new.op = "fail" /\ new.what = f
          /\ new.left = {j \in DOMAIN provided : f \in ToSet(provided[j])}
      BY DEF Frame
    <3> HIDE DEF new
    <3>4. ToSet(cascade') = {new} \cup ToSet(Below(f))
      BY <1>2, <3>1, <3>2, PushedOn
    <3> QED
      BY <3>3, <3>4 DEF OnStack
  <2>2. CASE f \in failed_fns
    BY <1>1, <2>2
  <2> QED
    BY <2>1, <2>2
<1>6. \A op, what, y : OnStack(op, what, y) =>
        OnStack(op, what, y)' \/ (op = "remove" /\ what = i /\ y = f)
  BY <1>1, <1>5, StaysOnStack
<1>7. NothingForgotten'
  <2>1. ASSUME NEW j \in failed_deps, NEW g \in seenfns, j \in deps[g]
        PROVE  g \in failed_fns' \/ OnStack("remove", j, g)'
    BY <1>3, <1>4, <1>6, <2>1 DEF NothingForgotten
  <2>2. ASSUME NEW j \in DOMAIN provided, NEW g \in ToSet(provided[j])
        PROVE  g \in seenfns /\ (g \in failed_fns' => OnStack("fail", g, j)')
    <3>1. g \in seenfns /\ (g \in failed_fns => OnStack("fail", g, j))
      BY <1>4 DEF NothingForgotten
    <3>2. CASE g \in failed_fns
      BY <1>6, <3>1, <3>2
    <3>3. CASE g \notin failed_fns
      BY <1>3, <1>5, <3>1, <3>3
    <3> QED
      BY <3>2, <3>3
  <2> QED
    BY <1>1, <1>3, <1>4, <2>1, <2>2 DEF NothingForgotten, recipes
<1>8. \A kind : Unresolved(kind)' = Unresolved(kind)
  BY <1>1 DEF Unresolved, recipes
<1>9. RoundsComplete'
  BY <1>1, <1>2, <1>4, <1>8 DEF RoundsComplete, NotAdding
<1> QED
  BY <1>7, <1>9 DEF Progress

LEMMA AddFileProgress ==
  ASSUME Reasons, Regular => Progress, AddFile, Regular'
  PROVE  Progress'
<1> DEFINE f == Head(adding.left)
<1>1. /\ adding # NotAdding /\ cascade = <<>>
      /\ adding' = [adding EXCEPT !.left = Tail(@)]
      /\ UNCHANGED <<recipes, external_targets, failed_deps, stage, waiting, added, runlist>>
      /\ DOMAIN provided \subseteq DOMAIN provided'
      /\ \A j \in DOMAIN provided' : \A g \in ToSet(provided'[j]) :
           \/ j \in DOMAIN provided /\ g \in ToSet(provided[j])
           \/ g = f /\ g \in seenfns' /\ g \notin failed_fns
      /\ \/ UNCHANGED <<seenfns, failed_fns, cascade>>
         \/ /\ seenfns' = seenfns \cup {f} /\ Gone(f) = {}
            /\ Needs(f) \subseteq DOMAIN provided' /\ UNCHANGED <<failed_fns, cascade>>
         \/ /\ f \notin seenfns /\ seenfns' = seenfns \cup {f}
            /\ failed_fns' = failed_fns \cup {f}
            /\ ToSet(cascade') =
                 {Frame("fail", f, {j \in DOMAIN provided' : f \in ToSet(provided'[j])})}
  BY ReasonsFacts, AddFileIs
<1> HIDE DEF f
<1>2. adding' # NotAdding
  <2>1. adding = [item |-> adding.item, left |-> adding.left] /\ adding.item \in Items
    BY <1>1 DEF Reasons, ResolvingOK, AddingOK
  <2>2. adding'.item = adding.item
    BY <1>1, <2>1
  <2>3. adding'.item # None
    BY <2>1, <2>2, TaskDataAssumption
  <2> QED
    BY <2>3 DEF NotAdding
<1>3. stage # "NoProvider" /\ ~Resolved'
  BY <1>1 DEF Reasons, ResolvingOK, Resolved
<1>4. NothingForgotten
  BY <1>1, <1>3, RegularBefore DEF Progress
<1>5. /\ \A i \in failed_deps, g \in seenfns : i \in deps[g] => g \in failed_fns
      /\ \A i \in DOMAIN provided : \A g \in ToSet(provided[i]) :
           g \in seenfns /\ g \notin failed_fns
      /\ \A g \in seenfns \ failed_fns : deps[g] \subseteq DOMAIN provided
  BY <1>1, <1>4, NothingOnEmpty DEF NothingForgotten
<1>6. UNCHANGED deps /\ NotAdding' = NotAdding
  BY <1>1 DEF recipes, NotAdding
<1>7. NothingForgotten'
  <2>1. CASE UNCHANGED <<seenfns, failed_fns, cascade>>
    BY <1>1, <1>5, <1>6, <2>1 DEF NothingForgotten
  <2>2. CASE /\ seenfns' = seenfns \cup {f} /\ Gone(f) = {}
             /\ Needs(f) \subseteq DOMAIN provided' /\ UNCHANGED <<failed_fns, cascade>>
    BY <1>1, <1>5, <1>6, <2>2 DEF NothingForgotten, Gone, Needs
  <2>3. CASE /\ f \notin seenfns /\ seenfns' = seenfns \cup {f}
             /\ failed_fns' = failed_fns \cup {f}
             /\ ToSet(cascade') =
                  {Frame("fail", f, {j \in DOMAIN provided' : f \in ToSet(provided'[j])})}
    <3> DEFINE new == Frame("fail", f, {j \in DOMAIN provided' : f \in ToSet(provided'[j])})
    <3>1. /\ new.op = "fail" /\ new.what = f
          /\ new.left = {j \in DOMAIN provided' : f \in ToSet(provided'[j])}
      BY DEF Frame
    <3>2. new \in ToSet(cascade')
      BY <2>3
    <3> HIDE DEF new
    <3>3. ASSUME NEW g, g = f, NEW j \in DOMAIN provided', g \in ToSet(provided'[j])
          PROVE  OnStack("fail", g, j)'
      BY <3>1, <3>2, <3>3 DEF OnStack
    <3>4. \A i \in failed_deps', g \in seenfns' : i \in deps'[g] => g \in failed_fns'
      BY <1>1, <1>5, <1>6, <2>3
    <3>5. \A i \in DOMAIN provided' : \A g \in ToSet(provided'[i]) :
            g \in seenfns' /\ (g \in failed_fns' => g = f)
      BY <1>1, <1>5, <2>3
    <3>6. \A g \in seenfns' \ failed_fns' : deps'[g] \subseteq DOMAIN provided'
      BY <1>1, <1>5, <1>6, <2>3
    <3> QED
      BY <3>3, <3>4, <3>5, <3>6 DEF NothingForgotten
  <2> QED
    BY <1>1, <2>1, <2>2, <2>3
<1>8. RoundsComplete'
  BY <1>2, <1>3, <1>6 DEF RoundsComplete
<1> QED
  BY <1>7, <1>8 DEF Progress

LEMMA AddedAllProgress ==
  ASSUME Reasons, Regular => Progress, AddedAll, Regular'
  PROVE  Progress'
<1>1. /\ cascade = <<>> /\ adding # NotAdding /\ Returned(adding.item)
      /\ UNCHANGED <<recipes, provided, seenfns, failed_fns, failed_deps, stage, waiting,
                     cascade>>
  BY DEF AddedAll
<1>2. stage \in {"targets", "build", "run"} /\ ~Resolved'
  BY <1>1 DEF Reasons, ResolvingOK, Resolved
<1>3. Regular /\ NothingForgotten
  BY <1>1, <1>2, RegularBefore DEF Progress
<1>4. stage # "targets" => added'
  BY <1>1 DEF Returned
<1>5. RoundsComplete'
  BY <1>1, <1>2, <1>4 DEF RoundsComplete
<1> QED
  BY <1>1, <1>3, <1>5, SameProgress DEF Progress

\* Raise is for a required target that has failed.
LEMMA ReturnProgress ==
  ASSUME Reasons, Regular => Progress, Return, Regular'
  PROVE  Progress'
<1>1. /\ cascade # <<>> /\ Head(cascade).left = {}
      /\ IF mode = "abort" /\ Head(cascade).op = "remove"
              /\ Head(cascade).what \in external_targets
         THEN failed_deps \subseteq failed_deps'
         ELSE cascade' = Tail(cascade) /\ UNCHANGED <<adding, stage, failed_deps>>
      /\ UNCHANGED <<recipes, provided, seenfns, external_targets, failed_fns, waiting,
                     added, runlist>>
  BY DEF Return, Raise, RemoveItem
<1>2. /\ FrameOK(Head(cascade)) /\ stage # "NoProvider" /\ ~Resolved
      /\ ToSet(cascade) = {Head(cascade)} \cup ToSet(Tail(cascade))
  BY <1>1, TopFrame
<1>3. ~(mode = "abort" /\ Head(cascade).op = "remove"
          /\ Head(cascade).what \in external_targets)
  <2> SUFFICES ASSUME mode = "abort", Head(cascade).op = "remove",
                      Head(cascade).what \in external_targets
               PROVE  FALSE
    OBVIOUS
  <2>1. Head(cascade).what \in failed_deps'
    BY <1>1, <1>2 DEF FrameOK
  <2>2. Head(cascade).what \in required
    BY ReasonsFacts DEF TaskDataTypeOK
  <2>3. mode' = "abort" /\ required' = required
    BY <1>1 DEF recipes
  <2> QED
    BY <2>1, <2>2, <2>3 DEF Regular, Unscathed
<1>4. cascade' = Tail(cascade) /\ UNCHANGED <<adding, stage, failed_deps>>
  BY <1>1, <1>3
<1>5. NothingForgotten /\ RoundsComplete
  BY <1>1, <1>2, <1>4, RegularBefore DEF Progress
<1>6. \A op, what, x : OnStack(op, what, x) => OnStack(op, what, x)'
  BY <1>1, <1>2, <1>4 DEF OnStack
<1>7. NothingForgotten'
  BY <1>1, <1>4, <1>5, <1>6 DEF NothingForgotten, recipes
<1>8. \A kind : Unresolved(kind)' = Unresolved(kind)
  BY <1>1, <1>4 DEF Unresolved, recipes
<1>9. Resolved' = Resolved
  BY <1>4 DEF Resolved
<1>10. RoundsComplete'
  BY <1>1, <1>4, <1>5, <1>8, <1>9 DEF RoundsComplete, NotAdding
<1> QED
  BY <1>7, <1>10 DEF Progress

LEMMA NextStageProgress ==
  ASSUME Reasons, Regular => Progress, NextStage, Regular'
  PROVE  Progress'
<1>1. /\ stage \in {"targets", "build", "run"}
      /\ waiting = {} /\ adding = NotAdding
      /\ UNCHANGED <<recipes, adding, cascade>>
      /\ UNCHANGED <<provided, seenfns, failed_fns, failed_deps>>
      /\ IF stage = "build"
         THEN stage' = "run" /\ waiting' = Unresolved(RunItems) /\ added' = added
         ELSE IF stage = "targets" \/ added
         THEN stage' = "build" /\ waiting' = Unresolved(BuildItems) /\ added' = FALSE
         ELSE stage' = "resolved"
  BY DEF NextStage, data
<1>2. NothingForgotten /\ RoundsComplete
  BY <1>1, RegularBefore DEF Progress
<1>3. NothingForgotten' /\ \A kind : Unresolved(kind)' = Unresolved(kind)
  BY <1>1, <1>2, SameProgress
<1>4. /\ Unresolved(BuildItems)' = Unresolved(BuildItems)
      /\ Unresolved(RunItems)' = Unresolved(RunItems)
      /\ Unresolved(Items)' = Unresolved(BuildItems)' \cup Unresolved(RunItems)'
  BY <1>3 DEF Unresolved, Items
<1>5. RoundsComplete'
  <2>1. CASE stage = "build"
    BY <1>1, <1>2, <1>4, <2>1 DEF RoundsComplete, Resolved
  <2>2. CASE stage # "build" /\ (stage = "targets" \/ added)
    BY <1>1, <1>2, <1>4, <2>2 DEF RoundsComplete, Resolved
  <2>3. CASE stage = "run" /\ ~added
    BY <1>1, <1>2, <1>4, <2>3 DEF RoundsComplete, Resolved
  <2> QED
    BY <1>1, <2>1, <2>2, <2>3
<1> QED
  BY <1>3, <1>5 DEF Progress

LEMMA LaterProgress ==
  ASSUME Reasons, Regular => Progress, UNCHANGED resolution,
         UNCHANGED stage \/ (Resolved /\ Resolved'), Regular'
  PROVE  Progress'
<1>1. /\ UNCHANGED <<recipes, provided, seenfns, failed_fns, failed_deps, cascade>>
      /\ UNCHANGED <<waiting, added, adding>>
  BY DEF resolution, data
<1>2. stage # "NoProvider"
  BY DEF Regular, Resolved
<1>3. NothingForgotten /\ RoundsComplete
  BY <1>1, <1>2, RegularBefore DEF Progress
<1>4. NothingForgotten' /\ \A kind : Unresolved(kind)' = Unresolved(kind)
  BY <1>1, <1>3, SameProgress
<1>5. RoundsComplete'
  BY <1>1, <1>3, <1>4 DEF RoundsComplete, Resolved, NotAdding
<1> QED
  BY <1>4, <1>5 DEF Progress

LEMMA ProgressStep ==
  ASSUME Reasons, Regular => Progress, [PrepareNext]_<<taskdatavars, preparevars>>, Regular'
  PROVE  Progress'
<1>1. CASE TaskDataNext
  BY <1>1, NothingToAddProgress, AddProviderProgress, NoProviderProgress, FailFnProgress,
     RemoveTargetProgress, AddFileProgress, AddedAllProgress, ReturnProgress,
     NextStageProgress DEF TaskDataNext
<1>2. CASE LaterSteps
  BY <1>2, LaterIs, LaterProgress
<1>3. CASE UNCHANGED <<taskdatavars, preparevars>>
  BY <1>3, LaterProgress DEF taskdatavars, resolution
<1> QED
  BY <1>1, <1>2, <1>3, PrepareNextIs

-----------------------------------------------------------------------------
(* The least sets of files that cannot be built.                            *)

LEMMA UnbuildableWithOne ==
  ASSUME RecipesOK
  PROVE  /\ Unbuildable(LostWithOne, Needs) \subseteq Files
         /\ ClosedWithOne(Unbuildable(LostWithOne, Needs))
<1> DEFINE m == [B \in SUBSET Files |-> {f \in Files : Needs(f) \cap LostWithOne(B) # {}}]
           grow[B \in SUBSET Files] ==
             LET more == {f \in Files : Needs(f) \cap LostWithOne(B) # {}}
             IN  IF more \subseteq B THEN B ELSE grow[B \cup more]
           Is(g) == g = [B \in SUBSET Files |->
                          LET more == {f \in Files : Needs(f) \cap LostWithOne(B) # {}}
                          IN  IF more \subseteq B THEN B ELSE g[B \cup more]]
<1>1. /\ m \in [SUBSET Files -> SUBSET Files]
      /\ \A D, E \in SUBSET Files : D \subseteq E => m[D] \subseteq m[E]
  <2>1. \A D, E \in SUBSET Files : D \subseteq E => LostWithOne(D) \subseteq LostWithOne(E)
    BY DEF LostWithOne
  <2> QED
    BY <2>1
<1>2. \A C \in SUBSET Files : m[C] \subseteq C <=> ClosedWithOne(C)
  BY DEF ClosedWithOne
<1>3. Unbuildable(LostWithOne, Needs) = grow[{}]
  BY DEF Unbuildable
<1>4. ASSUME NEW g PROVE GrowsBy(Files, m, g) <=> Is(g)
  <2> DEFINE one   == [B \in SUBSET Files |-> IF m[B] \subseteq B THEN B ELSE g[B \cup m[B]]]
             other == [B \in SUBSET Files |->
                         LET more == {f \in Files : Needs(f) \cap LostWithOne(B) # {}}
                         IN  IF more \subseteq B THEN B ELSE g[B \cup more]]
  <2>1. DOMAIN one = DOMAIN other /\ \A B \in SUBSET Files : one[B] = other[B]
    OBVIOUS
  <2>2. one = other
    BY <2>1
  <2> QED
    BY <2>2 DEF GrowsBy
<1> HIDE DEF m
<1>5. GrowsBy(Files, m, LeastFixed(Files, m))
  BY <1>1, GrowthDefined
<1>6. GrowsBy(Files, m, grow)
  <2> HIDE DEF Is
  <2>1. Is(LeastFixed(Files, m))
    BY <1>4, <1>5
  <2>2. \E g : Is(g)
    BY <2>1
  <2>3. Is(grow)
    BY <2>2 DEF Is
  <2> HIDE DEF grow
  <2> QED
    BY <1>4, <2>3
<1> HIDE DEF grow
<1>7. grow[{}] \subseteq Files /\ m[grow[{}]] \subseteq grow[{}]
  <2> DEFINE S == {}
  <2>1. S \in SUBSET Files /\ IsFiniteSet(Files)
    BY TaskDataAssumption
  <2> HIDE DEF S
  <2>2. grow[S] \subseteq Files /\ m[grow[S]] \subseteq grow[S]
    BY <1>1, <1>6, <2>1, GrowthEnds
  <2> QED
    BY <2>2 DEF S
<1> QED
  BY <1>2, <1>3, <1>7

LEMMA UnbuildableWithAll ==
  ASSUME RecipesOK, NEW C, C \subseteq Files,
         \A f \in Files : deps[f] \cap LostWithAll(C) # {} => f \in C
  PROVE  Unbuildable(LostWithAll, LAMBDA f : deps[f]) \subseteq C
<1> DEFINE m == [B \in SUBSET Files |-> {f \in Files : deps[f] \cap LostWithAll(B) # {}}]
           grow[B \in SUBSET Files] ==
             LET more == {f \in Files : deps[f] \cap LostWithAll(B) # {}}
             IN  IF more \subseteq B THEN B ELSE grow[B \cup more]
           Is(g) == g = [B \in SUBSET Files |->
                          LET more == {f \in Files : deps[f] \cap LostWithAll(B) # {}}
                          IN  IF more \subseteq B THEN B ELSE g[B \cup more]]
<1>1. /\ m \in [SUBSET Files -> SUBSET Files]
      /\ \A D, E \in SUBSET Files : D \subseteq E => m[D] \subseteq m[E]
  <2>1. \A D, E \in SUBSET Files : D \subseteq E => LostWithAll(D) \subseteq LostWithAll(E)
    BY DEF LostWithAll
  <2> QED
    BY <2>1
<1>2. m[C] \subseteq C
  OBVIOUS
<1>3. Unbuildable(LostWithAll, LAMBDA f : deps[f]) = grow[{}]
  BY DEF Unbuildable
<1>4. ASSUME NEW g PROVE GrowsBy(Files, m, g) <=> Is(g)
  <2> DEFINE one   == [B \in SUBSET Files |-> IF m[B] \subseteq B THEN B ELSE g[B \cup m[B]]]
             other == [B \in SUBSET Files |->
                         LET more == {f \in Files : deps[f] \cap LostWithAll(B) # {}}
                         IN  IF more \subseteq B THEN B ELSE g[B \cup more]]
  <2>1. DOMAIN one = DOMAIN other /\ \A B \in SUBSET Files : one[B] = other[B]
    OBVIOUS
  <2>2. one = other
    BY <2>1
  <2> QED
    BY <2>2 DEF GrowsBy
<1> HIDE DEF m
<1>5. GrowsBy(Files, m, LeastFixed(Files, m))
  BY <1>1, GrowthDefined
<1>6. GrowsBy(Files, m, grow)
  <2> HIDE DEF Is
  <2>1. Is(LeastFixed(Files, m))
    BY <1>4, <1>5
  <2>2. \E g : Is(g)
    BY <2>1
  <2>3. Is(grow)
    BY <2>2 DEF Is
  <2> HIDE DEF grow
  <2> QED
    BY <1>4, <2>3
<1> HIDE DEF grow
<1>7. grow[{}] \subseteq C
  <2> DEFINE S == {}
  <2>1. S \in SUBSET Files /\ S \subseteq C /\ IsFiniteSet(Files) /\ C \in SUBSET Files
    BY TaskDataAssumption
  <2> HIDE DEF S
  <2>2. /\ S \subseteq grow[S] /\ grow[S] \subseteq Files /\ m[grow[S]] \subseteq grow[S]
        /\ \A D \in SUBSET Files : S \subseteq D /\ m[D] \subseteq D => grow[S] \subseteq D
    BY <1>1, <1>6, <2>1, GrowthEnds
  <2> QED
    BY <1>2, <2>1, <2>2 DEF S
<1> QED
  BY <1>3, <1>7

\* In the end a file that is seen and has not failed has, for all that it
\* needs, a provider of which the same is true.
LEMMA InvResolves == ProvidersInv => ProvidersResolved
<1> SUFFICES ASSUME ProvidersInv PROVE ProvidersResolved
  OBVIOUS
<1>1. Reasons /\ (Regular => Progress)
  BY DEF ProvidersInv, Reasons, Progress
<1>2. TaskDataTypeOK /\ RecipesOK /\ seenfns \subseteq Files /\ FailedForAReason
  BY <1>1, ReasonsFacts
<1>3. OnlyHopelessFailed
  <2> DEFINE B == Unbuildable(LostWithOne, Needs)
  <2>1. B \in SUBSET Files /\ ClosedWithOne(B)
    BY <1>2, UnbuildableWithOne
  <2> HIDE DEF B
  <2>2. failed_fns \subseteq B /\ failed_deps \subseteq LostWithOne(B)
    BY <1>2, <2>1 DEF FailedForAReason
  <2> QED
    BY <2>2 DEF OnlyHopelessFailed, B
<1>4. HopelessFailed
  <2> SUFFICES ASSUME Resolved, Unscathed, mode # "incomplete"
               PROVE  seenfns \cap Unbuildable(LostWithAll, LAMBDA f : deps[f])
                        \subseteq failed_fns
    BY DEF HopelessFailed
  <2>1. NothingForgotten /\ RoundsComplete /\ cascade = <<>>
    BY <1>1 DEF Regular, Resolved, Progress, Reasons, ResolvingOK
  <2> DEFINE C == Files \ (seenfns \ failed_fns)
  <2>2. ASSUME NEW f \in Files, deps[f] \cap LostWithAll(C) # {} PROVE f \in C
    <3> SUFFICES ASSUME f \in seenfns \ failed_fns PROVE FALSE
      OBVIOUS
    <3>1. PICK i \in deps[f] : i \in LostWithAll(C)
      BY <2>2
    <3>2. i \in DOMAIN provided /\ i \in Items \ assumed /\ ToSet(eligible[i]) \subseteq C
      BY <2>1, <3>1 DEF NothingForgotten, LostWithAll
    <3>3. i \notin failed_deps
      BY <2>1, <3>1, NothingOnEmpty DEF NothingForgotten
    <3>4. provided[i] # <<>>
      BY <2>1, <3>2, <3>3 DEF RoundsComplete, Unresolved
    <3>5. provided[i] \in Seq(Files) /\ ToSet(provided[i]) \subseteq ToSet(eligible[i])
      BY <1>1, <3>2, ReasonsFacts DEF ProvidedOK
    <3>6. PICK g : g \in ToSet(provided[i])
      <4>1. ToSet(provided[i]) # {}
        BY <3>4, <3>5, TopAndRest
      <4> QED
        BY <4>1
    <3>7. g \in seenfns /\ g \notin failed_fns
      BY <2>1, <3>2, <3>6, NothingOnEmpty DEF NothingForgotten
    <3> QED
      BY <3>2, <3>5, <3>6, <3>7
  <2>3. C \subseteq Files
    OBVIOUS
  <2>4. Unbuildable(LostWithAll, LAMBDA f : deps[f]) \subseteq C
    <3> HIDE DEF C
    <3> QED
      BY <1>2, <2>2, <2>3, UnbuildableWithAll
  <2> QED
    BY <2>4
<1> QED
  BY <1>2, <1>3, <1>4 DEF ProvidersResolved

RecipesSpec ==
  RecipesOK /\ TaskDataInit /\ PrepareInit /\ [][PrepareNext]_<<taskdatavars, preparevars>>

LEMMA ProvidersInvInit == RecipesOK /\ TaskDataInit => ProvidersInv
<1> SUFFICES ASSUME RecipesOK, TaskDataInit PROVE ProvidersInv
  OBVIOUS
<1>1. /\ DOMAIN provided = {} /\ seenfns = {} /\ external_targets = {} /\ failed_fns = {}
      /\ failed_deps = {} /\ stage = "targets" /\ waiting = required /\ added = FALSE
      /\ adding = NotAdding /\ cascade = <<>> /\ runlist = {}
  BY DEF TaskDataInit
<1>2. required \subseteq Items /\ assumed \subseteq Items
  BY DEF RecipesOK
<1>3. TaskDataTypeOK
  BY <1>1, <1>2 DEF TaskDataTypeOK
<1>4. ~Resolved /\ ToSet(cascade) = {}
  BY <1>1 DEF Resolved, ToSet
<1>5. ResolvingOK
  BY <1>1, <1>3, <1>4 DEF ResolvingOK, ProvidedOK, AddingOK
<1>6. FailedForAReason
  BY <1>1 DEF FailedForAReason
<1>7. NothingForgotten /\ RoundsComplete
  BY <1>1, <1>4 DEF NothingForgotten, RoundsComplete
<1> QED
  BY <1>5, <1>6, <1>7 DEF ProvidersInv

LEMMA ProvidersInvStep ==
  ProvidersInv /\ [PrepareNext]_<<taskdatavars, preparevars>> => ProvidersInv'
<1> SUFFICES ASSUME ProvidersInv, [PrepareNext]_<<taskdatavars, preparevars>>
             PROVE  ProvidersInv'
  OBVIOUS
<1>1. Reasons /\ (Regular => Progress)
  BY DEF ProvidersInv, Reasons, Progress
<1>2. Reasons' /\ (Regular' => Progress')
  BY <1>1, ReasonsStep, ProgressStep
<1> QED
  BY <1>2 DEF ProvidersInv, Reasons, Progress

(* Whatever the recipes provide, need and lack, and in whatever order they  *)
(* are looked at: a file is only given up when something it needs could not *)
(* be provided, and when all is resolved none is left in that needs, as a   *)
(* whole, what none can provide (buildTaskData, add_provider, fail_fn,      *)
(* remove_buildtarget, remove_runtarget, add_unresolved).                   *)
THEOREM ProvidersResolvedAlways == RecipesSpec => []ProvidersResolved
<1>1. RecipesOK /\ TaskDataInit => ProvidersInv
  BY ProvidersInvInit
<1>2. ProvidersInv /\ [PrepareNext]_<<taskdatavars, preparevars>> => ProvidersInv'
  BY ProvidersInvStep
<1>3. ProvidersInv => ProvidersResolved
  BY InvResolves
<1> QED
  BY <1>1, <1>2, <1>3, PTL DEF RecipesSpec

-----------------------------------------------------------------------------
(* The graph of the tasks.                                                  *)

Weighing == {"weigh", "prepared", "loop"}
Checked  == {"check", "please report", "incomplete"} \cup Weighing
Graphed  ==
  {"walk", "recurse", "mark", "runall", "runonly", "no such task", "KeyError",
   "no tasks of the name"} \cup Checked

GraphTypeOK ==
  /\ PrepareTypeOK
  /\ IF stage \in Graphed
     THEN /\ Entries # {} /\ taskdepends \in [Entries -> SUBSET Entries]
          /\ active \subseteq Entries /\ again \subseteq Recursive
     ELSE active = {} /\ again = {}
  /\ stage \notin Weighing => DOMAIN weight = {}

\* What is asked for, as it is narrowed down; nothing else is at the top.
AskedFor(t) ==
  IF runonly # None /\ stage \in Checked THEN t[2] = runonly
  ELSE IF runall # None /\ stage # "runall" THEN t[2] = runall
  ELSE t \in Marked

MarkedRight ==
  stage \in {"runall", "runonly"} \cup Checked =>
    /\ Marked \subseteq Entries
    /\ \A t \in active : taskdepends[t] \subseteq active
    /\ \A t \in TopTasks : AskedFor(t)
    /\ (stage = "runall" \/ runall = None) /\ (stage \notin Checked \/ runonly = None)
         => Marked \subseteq active
    /\ active = {} =>
         (stage = "runall" \/ runall = None) /\ (stage \notin Checked \/ runonly = None)

\* The tasks whose weight has been handed down.
HandedDown == {t \in active : revdepsleft[t] = 0} \ ends

\* Weighing goes from the top down, and never comes back.
WeighedRight ==
  /\ stage = "weigh" =>
       /\ weight \in [active -> Nat \ {0}] /\ revdepsleft \in [active -> Nat]
       /\ ends \subseteq active
       /\ \A t \in ends : revdepsleft[t] = 0
       /\ \A t \in active : revdepsleft[t] = Cardinality(Waiters(t) \ HandedDown)
       /\ NoneStuck(taskdepends, HandedDown)
       /\ \A d \in active : \A t \in Waiters(d) \cap HandedDown : weight[d] > weight[t]
  /\ stage = "prepared" =>
       /\ NoneStuck(taskdepends, active)
       /\ \A d \in active : \A t \in Waiters(d) : weight[d] > weight[t]
  /\ stage = "loop" => ~NoneStuck(taskdepends, active)

GraphInv == GraphTypeOK /\ MarkedRight /\ WeighedRight

LEMMA EntriesFinite == IsFiniteSet(Entries)
<1>1. IsFiniteSet(Files \X Names)
  BY TaskDataAssumption, FS_Product
<1> QED
  BY <1>1, FS_Subset DEF Entries

LEMMA ReachIs ==
  ASSUME NEW g \in [Entries -> SUBSET Entries], NEW S \in SUBSET Entries
  PROVE  /\ S \subseteq Reach(g, S) /\ Reach(g, S) \subseteq Entries
         /\ \A t \in Reach(g, S) : g[t] \subseteq Reach(g, S)
         /\ \A C \in SUBSET Entries : S \subseteq C /\ (\A t \in C : g[t] \subseteq C)
              => Reach(g, S) \subseteq C
<1>1. DOMAIN g = Entries
  OBVIOUS
<1>2. Reach(g, S) = LeastClosure(g, S)
  BY <1>1 DEF Reach, LeastClosure
<1> QED
  BY <1>2, EntriesFinite, LeastClosureIs

LEMMA UnloopedIs ==
  ASSUME NEW g, NEW S \in SUBSET Entries
  PROVE  Unlooped(g, S) <=> NoneStuck(g, S)
<1>1. Unlooped(g, S) = PeelsOff(Entries, g, S)
  BY DEF Unlooped, PeelsOff
<1> QED
  BY <1>1, EntriesFinite, PeelsOffIs

LEMMA WeightsAdd ==
  ASSUME NEW w, NEW S, IsFiniteSet(S), \A x \in S : w[x] \in Nat
  PROVE  /\ FoldFunctionOnSet(+, 0, w, S) \in Nat
         /\ S = {} => FoldFunctionOnSet(+, 0, w, S) = 0
         /\ \A x \in S : w[x] <= FoldFunctionOnSet(+, 0, w, S)
<1>1. FoldFunctionOnSet(+, 0, w, S) = SumOf(w, S)
  BY DEF FoldFunctionOnSet, MapThenFoldSet, SumOf
<1> QED
  BY <1>1, SumOfIs

-----------------------------------------------------------------------------
(* What the steps leave alone.                                              *)

LEMMA TaskDataBefore ==
  ASSUME Reasons, PrepareTypeOK, TaskDataNext
  PROVE  /\ stage \in {"targets", "build", "run"}
         /\ stage' \in {"targets", "build", "run", "resolved", "NoProvider"}
<1>1. ASSUME NEW i \in Items, NothingToAdd(i) \/ AddProvider(i) \/ NoProvider(i) \/ FailFn(i)
      PROVE  /\ stage # "NoProvider" /\ ~Resolved
             /\ stage' = stage \/ stage' = "NoProvider"
  BY <1>1 DEF NothingToAdd, AddProvider, NoProvider, FailFn, Turn, Reasons, ResolvingOK
<1>2. ASSUME NEW f \in Files, RemoveTarget(f)
      PROVE  stage # "NoProvider" /\ ~Resolved /\ stage' = stage
  BY <1>2 DEF RemoveTarget, Reasons, ResolvingOK
<1>3. CASE AddFile
  <2>1. adding # NotAdding
    BY <1>3 DEF AddFile, NotAdding
  <2>2. stage # "NoProvider" /\ ~Resolved /\ stage' = stage
    BY <1>3, <2>1 DEF AddFile, Reasons, ResolvingOK
  <2> QED
    BY <2>2 DEF Resolved
<1>4. CASE AddedAll
  <2>1. stage # "NoProvider" /\ ~Resolved /\ stage' = stage
    BY <1>4 DEF AddedAll, Reasons, ResolvingOK
  <2> QED
    BY <2>1 DEF Resolved
<1>5. CASE Return
  <2>1. stage # "NoProvider" /\ ~Resolved /\ (stage' = stage \/ stage' = "NoProvider")
    BY <1>5 DEF Return, Raise, Reasons, ResolvingOK
  <2> QED
    BY <2>1 DEF Resolved
<1>6. CASE NextStage
  BY <1>6 DEF NextStage
<1> QED
  BY <1>1, <1>2, <1>3, <1>4, <1>5, <1>6 DEF TaskDataNext, Resolved

LEMMA EntriesKept ==
  ASSUME UNCHANGED resolution
  PROVE  /\ Entries' = Entries /\ Recursive' = Recursive /\ SelfReferring' = SelfReferring
         /\ \A t : DirectDepends(t)' = DirectDepends(t)
         /\ \A fs, names : TasksOf(fs, names)' = TasksOf(fs, names)
<1>1. UNCHANGED <<tasks, deps, taskdeps, provided, seenfns, failed_fns, failed_deps>>
  BY DEF resolution, recipes, data
<1>2. Entries' = Entries
  BY <1>1 DEF Entries
<1>3. \A i : Has(i)' = Has(i)
  BY <1>1 DEF Has
<1>4. \A items : Providers(items)' = Providers(items)
  BY <1>1, <1>3 DEF Providers
<1>5. \A t : Intertask(t)' = Intertask(t)
  BY <1>1, <1>3 DEF Intertask
<1>6. \A fs, names : TasksOf(fs, names)' = TasksOf(fs, names)
  BY <1>2 DEF TasksOf
<1>7. \A t : DirectDepends(t)' = DirectDepends(t)
  BY <1>1, <1>4, <1>5, <1>6 DEF DirectDepends
<1> QED
  BY <1>1, <1>2, <1>6, <1>7 DEF Recursive, SelfReferring

LEMMA MarkedKept ==
  ASSUME UNCHANGED <<resolution, command, taskdepends>>
  PROVE  Targeted' = Targeted /\ Marked' = Marked
<1>1. UNCHANGED <<provided, failed_fns, failed_deps, runlist, request>>
  BY DEF resolution, data, command
<1>2. Targeted' = Targeted
  BY <1>1 DEF Targeted, Has
<1> QED
  BY <1>1, <1>2 DEF Marked, DependsOf

LEMMA WaitersKept ==
  ASSUME UNCHANGED <<active, taskdepends>>
  PROVE  (\A t : Waiters(t)' = Waiters(t)) /\ TopTasks' = TopTasks
BY DEF Waiters, TopTasks

\* What is reached, but not from any of what is reached, was given.
LEMMA ReachTops ==
  ASSUME NEW g \in [Entries -> SUBSET Entries], NEW S \in SUBSET Entries,
         NEW t \in Reach(g, S), \A r \in Reach(g, S) : t \notin g[r]
  PROVE  t \in S
<1> DEFINE C == Reach(g, S) \ {t}
<1>1. /\ S \subseteq Reach(g, S) /\ Reach(g, S) \subseteq Entries
      /\ \A r \in Reach(g, S) : g[r] \subseteq Reach(g, S)
      /\ \A D \in SUBSET Entries : S \subseteq D /\ (\A r \in D : g[r] \subseteq D)
           => Reach(g, S) \subseteq D
  BY ReachIs
<1>2. C \in SUBSET Entries /\ \A r \in C : g[r] \subseteq C
  BY <1>1
<1>3. ~(S \subseteq C)
  <2> HIDE DEF C
  <2>1. t \notin C
    BY DEF C
  <2> QED
    BY <1>1, <1>2, <2>1
<1> QED
  BY <1>1, <1>3

LEMMA DirectInGraph ==
  ASSUME \A u \in Entries : u[1] \notin failed_fns => Intertask(u) \subseteq Entries,
         NEW t \in Entries
  PROVE  DirectDepends(t) \subseteq Entries
<1>1. \A fs, names : TasksOf(fs, names) \subseteq Entries
  BY DEF TasksOf
<1> QED
  BY <1>1 DEF DirectDepends

\* The same graph, at a stage where as much is claimed.
LEMMA MarkedStays ==
  ASSUME MarkedRight, UNCHANGED <<resolution, command, taskdepends, active>>,
         stage' = stage \/ (stage \in Checked /\ stage' \in Checked)
  PROVE  MarkedRight'
<1>1. /\ Marked' = Marked /\ Entries' = Entries /\ TopTasks' = TopTasks
      /\ UNCHANGED <<runall, runonly, active, taskdepends>>
  BY MarkedKept, EntriesKept, WaitersKept DEF command
<1>2. (stage \in Checked <=> stage' \in Checked) /\ (stage = "runall" <=> stage' = "runall")
      /\ (stage = "runonly" <=> stage' = "runonly")
  BY DEF Checked, Weighing
<1>3. \A t : AskedFor(t) <=> AskedFor(t)'
  BY <1>1, <1>2 DEF AskedFor
<1> QED
  BY <1>1, <1>2, <1>3 DEF MarkedRight

-----------------------------------------------------------------------------
(* The steps of prepare.                                                    *)

\* Before there is a graph, and as long as nothing is marked.
LEMMA BeforeGraph ==
  ASSUME GraphTypeOK, stage' \notin Graphed, active' = {}, again' = {}, DOMAIN weight' = {},
         stage' \in {"targets", "build", "run", "resolved", "NoProvider", "nothing to do",
                     "non-existent task"}
  PROVE  GraphInv'
<1>1. PrepareTypeOK'
  BY DEF PrepareTypeOK, Outcomes
<1>2. GraphTypeOK'
  BY <1>1 DEF GraphTypeOK
<1>3. stage' \notin {"runall", "runonly"} \cup Checked
  BY DEF Graphed
<1>4. MarkedRight'
  BY <1>3 DEF MarkedRight
<1>5. WeighedRight'
  BY DEF WeighedRight
<1> QED
  BY <1>2, <1>4, <1>5 DEF GraphInv

LEMMA EarlyGraph ==
  ASSUME GraphTypeOK', stage' \in {"walk", "recurse", "mark", "no such task", "KeyError",
                                   "no tasks of the name"}
  PROVE  GraphInv'
BY DEF GraphInv, MarkedRight, WeighedRight, Checked, Weighing

LEMMA ResolveDependsStep ==
  ASSUME GraphInv, ResolveDepends
  PROVE  GraphInv'
<1>1. /\ stage = "resolved" /\ UNCHANGED resolution /\ UNCHANGED <<again, weight>>
      /\ \/ stage' \in {"nothing to do", "non-existent task"} /\ UNCHANGED active
         \/ /\ stage' = "walk" /\ Entries # {} /\ active' = Entries
            /\ taskdepends' = [t \in Entries |-> DirectDepends(t)]
            /\ \A u \in Entries : u[1] \notin failed_fns => Intertask(u) \subseteq Entries
  BY DEF ResolveDepends, Goes, recursion, weights
<1>2. /\ GraphTypeOK /\ active = {} /\ again = {} /\ DOMAIN weight = {}
  BY <1>1 DEF GraphInv, GraphTypeOK, Graphed, Checked, Weighing
<1>3. Entries' = Entries
  BY <1>1, EntriesKept
<1>4. CASE stage' \in {"nothing to do", "non-existent task"} /\ UNCHANGED active
  <2>1. stage' \notin Graphed
    BY <1>4 DEF Graphed, Checked, Weighing
  <2> QED
    BY <1>1, <1>2, <1>4, <2>1, BeforeGraph
<1>5. CASE /\ stage' = "walk" /\ Entries # {} /\ active' = Entries
           /\ taskdepends' = [t \in Entries |-> DirectDepends(t)]
           /\ \A u \in Entries : u[1] \notin failed_fns => Intertask(u) \subseteq Entries
  <2>1. taskdepends' \in [Entries -> SUBSET Entries] /\ DOMAIN taskdepends' = Entries
    BY <1>5, DirectInGraph
  <2>2. stage' \in Graphed /\ stage' \notin Weighing
    BY <1>5 DEF Graphed, Weighing
  <2>3. PrepareTypeOK'
    BY <1>1, <1>2, <1>5, <2>1 DEF PrepareTypeOK
  <2>4. GraphTypeOK'
    BY <1>1, <1>2, <1>3, <1>5, <2>1, <2>2, <2>3 DEF GraphTypeOK
  <2> QED
    BY <1>5, <2>4, EarlyGraph
<1> QED
  BY <1>1, <1>4, <1>5

\* What GraphTypeOK says where there is a graph.
LEMMA GraphTyped ==
  ASSUME GraphInv, stage \in Graphed
  PROVE  /\ Entries # {} /\ taskdepends \in [Entries -> SUBSET Entries]
         /\ DOMAIN taskdepends = Entries
         /\ active \subseteq Entries /\ again \subseteq Recursive /\ Recursive \subseteq Entries
         /\ DOMAIN weight \subseteq active
         /\ stage \notin Weighing => DOMAIN weight = {}
BY DEF GraphInv, GraphTypeOK, PrepareTypeOK, Recursive

\* As long as entries are not added, only few things can go wrong.
LEMMA StaysTyped ==
  ASSUME GraphInv, stage \in Graphed, stage' \in Graphed, UNCHANGED resolution,
         taskdepends' \in [Entries -> SUBSET Entries], active' \subseteq Entries,
         again' \subseteq Recursive, DOMAIN weight' \subseteq active',
         stage' \notin Weighing => DOMAIN weight' = {}
  PROVE  GraphTypeOK'
<1>1. Entries # {} /\ Entries' = Entries /\ Recursive' = Recursive /\ Recursive \subseteq Entries
  BY GraphTyped, EntriesKept
<1>2. stage' \in Outcomes \cup {"walk", "recurse", "mark", "runall", "runonly", "check", "weigh"}
  BY DEF Graphed, Checked, Weighing, Outcomes
<1>3. PrepareTypeOK'
  BY <1>1, <1>2 DEF PrepareTypeOK, Outcomes
<1> QED
  BY <1>1, <1>3 DEF GraphTypeOK

LEMMA WalkStep ==
  ASSUME GraphInv, WalkUp \/ WalkedUp
  PROVE  GraphInv'
<1>1. /\ stage = "walk" /\ stage' \in {"walk", "recurse"} /\ UNCHANGED resolution
      /\ UNCHANGED <<taskdepends, active, weight>>
      /\ again' = again \/ again' = Recursive
  BY DEF WalkUp, WalkedUp, Goes, recursion, weights
<1>2. /\ stage \in Graphed /\ stage' \in Graphed /\ stage \notin Weighing
      /\ stage' \notin Weighing
  BY <1>1 DEF Graphed, Weighing
<1>3. GraphTypeOK'
  BY <1>1, <1>2, GraphTyped, StaysTyped
<1> QED
  BY <1>1, <1>3, EarlyGraph

\* A turn of the loop over the recursive tasks, and the end of a round.
LEMMA RecurseIs ==
  ASSUME taskdepends \in [Entries -> SUBSET Entries], NEW t \in Recursive, Recurse(t)
  PROVE  /\ taskdepends' \in [Entries -> SUBSET Entries]
         /\ \A u \in Entries : u # t => taskdepends'[u] = taskdepends[u]
         /\ taskdepends[t] \subseteq taskdepends'[t]
         /\ TasksOf(UNION {cumulativedeps[d] : d \in taskdepends[t]}, RecrDepTask[t[2]]) \ {t}
              \subseteq taskdepends'[t]
<1> DEFINE names == RecrDepTask[t[2]]
           itasks == TasksOf({t[1]}, RecIDepTask[t[2]])
           total == taskdepends[t] \cup itasks \cup DependsOf(itasks)
           found == taskdepends[t]
             \cup (TasksOf(UNION {cumulativedeps[d] : d \in total}, names) \ {t})
           taken == {d \in DependsOf(found \cap Recursive) : d[2] \in names}
<1>1. taskdepends' = [taskdepends EXCEPT ![t] = found \cup taken]
  BY DEF Recurse
<1>2. \A fs, ns : TasksOf(fs, ns) \subseteq Entries
  BY DEF TasksOf
<1>3. t \in Entries /\ found \subseteq Entries
  BY <1>2 DEF Recursive
<1>4. taken \subseteq Entries
  <2> HIDE DEF found
  <2>1. DependsOf(found \cap Recursive) \subseteq Entries
    BY <1>3 DEF DependsOf
  <2> QED
    BY <2>1
<1>5. TasksOf(UNION {cumulativedeps[d] : d \in taskdepends[t]}, names) \ {t} \subseteq found
  <2>1. taskdepends[t] \subseteq total
    OBVIOUS
  <2> HIDE DEF total
  <2>2. UNION {cumulativedeps[d] : d \in taskdepends[t]} \subseteq UNION {cumulativedeps[d] : d \in total}
    BY <2>1
  <2>3. TasksOf(UNION {cumulativedeps[d] : d \in taskdepends[t]}, names)
          \subseteq TasksOf(UNION {cumulativedeps[d] : d \in total}, names)
    BY <2>2 DEF TasksOf
  <2> QED
    BY <2>3
<1>6. taskdepends[t] \subseteq found
  OBVIOUS
<1> HIDE DEF found, taken
<1> QED
  BY <1>1, <1>3, <1>4, <1>5, <1>6

LEMMA RecursedIs ==
  ASSUME taskdepends \in [Entries -> SUBSET Entries], Recursed
  PROVE  /\ taskdepends' \in [Entries -> SUBSET Entries]
         /\ again' \subseteq Recursive \/ again' = again
         /\ stage' = "recurse" => taskdepends' = taskdepends /\ again' = Recursive
         /\ stage' = "mark" => \A u \in Entries :
              taskdepends'[u] = taskdepends[u] \ (IF u \in SelfReferring THEN SelfReferring ELSE {})
         /\ stage' \in {"recurse", "mark"}
<1>1. CASE extradeps
  BY <1>1 DEF Recursed, Goes
<1>2. CASE ~extradeps
  <2>1. /\ stage' = "mark" /\ again' = again
        /\ taskdepends' = [t \in Entries |-> IF t \in SelfReferring
                                             THEN taskdepends[t] \ SelfReferring
                                             ELSE taskdepends[t]]
    BY <1>2 DEF Recursed, Goes, recursion
  <2> QED
    BY <2>1
<1> QED
  BY <1>1, <1>2

LEMMA RecurseStep ==
  ASSUME GraphInv, (\E t \in again : Recurse(t)) \/ Recursed
  PROVE  GraphInv'
<1>1. /\ stage = "recurse" /\ stage' \in {"recurse", "mark"} /\ UNCHANGED resolution
      /\ UNCHANGED <<active, weight>>
  <2>1. CASE Recursed
    BY <2>1 DEF Recursed, Goes, weights
  <2>2. ASSUME NEW t \in again, Recurse(t)
        PROVE  /\ stage = "recurse" /\ stage' = "recurse" /\ UNCHANGED resolution
               /\ UNCHANGED <<active, weight>>
    BY <2>2 DEF Recurse, Goes, weights
  <2> QED
    BY <2>1, <2>2
<1>2. /\ stage \in Graphed /\ stage' \in Graphed /\ stage \notin Weighing
      /\ stage' \notin Weighing
  BY <1>1 DEF Graphed, Weighing
<1>3. /\ taskdepends \in [Entries -> SUBSET Entries]
      /\ active \subseteq Entries /\ again \subseteq Recursive /\ DOMAIN weight \subseteq active
      /\ DOMAIN weight = {}
  BY <1>2, GraphTyped
<1>4. taskdepends' \in [Entries -> SUBSET Entries] /\ again' \subseteq Recursive
  <2>1. CASE Recursed
    BY <1>3, <2>1, RecursedIs
  <2>2. ASSUME NEW t \in again, Recurse(t)
        PROVE  taskdepends' \in [Entries -> SUBSET Entries] /\ again' \subseteq Recursive
    <3>1. again' = again \ {t}
      BY <2>2 DEF Recurse
    <3> QED
      BY <1>3, <2>2, <3>1, RecurseIs
  <2> QED
    BY <2>1, <2>2
<1>5. GraphTypeOK'
  BY <1>1, <1>2, <1>3, <1>4, StaysTyped
<1> QED
  BY <1>1, <1>5, EarlyGraph

LEMMA NotWeighed ==
  ASSUME stage' \notin Weighing PROVE WeighedRight'
BY DEF WeighedRight, Weighing

LEMMA MarkAndPruneStep ==
  ASSUME GraphInv, MarkAndPrune
  PROVE  GraphInv'
<1>1. /\ stage = "mark" /\ UNCHANGED resolution
      /\ UNCHANGED <<command, taskdepends, again, weight>>
      /\ \/ stage' = "no such task" /\ active' = active
         \/ /\ stage' = "runall" /\ Targeted \subseteq Entries
            /\ active' = Reach(taskdepends, Marked)
  BY DEF MarkAndPrune, Goes, recursion, weights
<1>2. /\ stage \in Graphed /\ stage' \in Graphed /\ stage \notin Weighing
      /\ stage' \notin Weighing
  BY <1>1 DEF Graphed, Weighing
<1>3. /\ taskdepends \in [Entries -> SUBSET Entries]
      /\ active \subseteq Entries /\ again \subseteq Recursive /\ DOMAIN weight = {}
  BY <1>2, GraphTyped
<1>4. Entries' = Entries /\ Marked' = Marked
  BY <1>1, EntriesKept, MarkedKept
<1>5. CASE stage' = "no such task" /\ active' = active
  <2>1. GraphTypeOK'
    BY <1>1, <1>2, <1>3, <1>5, StaysTyped
  <2> QED
    BY <1>5, <2>1, EarlyGraph
<1>6. CASE /\ stage' = "runall" /\ Targeted \subseteq Entries
           /\ active' = Reach(taskdepends, Marked)
  <2>1. Marked \subseteq Entries
    BY <1>3, <1>6 DEF Marked, DependsOf
  <2>2. /\ Marked \subseteq active' /\ active' \subseteq Entries
        /\ \A t \in active' : taskdepends[t] \subseteq active'
    BY <1>3, <1>6, <2>1, ReachIs
  <2>3. GraphTypeOK'
    BY <1>1, <1>2, <1>3, <2>2, StaysTyped
  <2>4. \A t \in TopTasks' : t \in Marked
    <3> SUFFICES ASSUME NEW t \in TopTasks' PROVE t \in Marked
      OBVIOUS
    <3>1. t \in active' /\ \A r \in active' : t \notin taskdepends[r]
      BY <1>1 DEF TopTasks, Waiters
    <3> QED
      BY <1>3, <1>6, <2>1, <3>1, ReachTops
  <2>5. \A t : AskedFor(t)' <=> t \in Marked
    BY <1>4, <1>6 DEF AskedFor, Checked, Weighing
  <2>6. MarkedRight'
    BY <1>1, <1>4, <1>6, <2>1, <2>2, <2>4, <2>5 DEF MarkedRight, Checked, Weighing
  <2> QED
    BY <1>2, <2>3, <2>6, NotWeighed DEF GraphInv
<1> QED
  BY <1>1, <1>5, <1>6

LEMMA RunAllStep ==
  ASSUME GraphInv, RunAll
  PROVE  GraphInv'
<1> DEFINE marked == Reach(taskdepends, RunallTids)
<1>1. /\ stage = "runall" /\ UNCHANGED resolution
      /\ UNCHANGED <<command, taskdepends, again, weight>>
      /\ UNCHANGED <<runall, runonly>>
      /\ \/ runall = None /\ stage' = "runonly" /\ active' = active
         \/ runall # None /\ stage' = "KeyError" /\ active' = active
         \/ runall # None /\ stage' = "no tasks of the name" /\ active' = marked
         \/ runall # None /\ stage' = "runonly" /\ active' = marked /\ marked # {}
  BY DEF RunAll, Goes, recursion, weights, command
<1>2. /\ stage \in Graphed /\ stage' \in Graphed /\ stage \notin Weighing
      /\ stage' \notin Weighing
  BY <1>1 DEF Graphed, Weighing
<1>3. /\ taskdepends \in [Entries -> SUBSET Entries]
      /\ active \subseteq Entries /\ again \subseteq Recursive /\ DOMAIN weight = {}
  BY <1>2, GraphTyped
<1>4. Entries' = Entries /\ Marked' = Marked
  BY <1>1, EntriesKept, MarkedKept
<1>5. RunallTids \in SUBSET Entries /\ \A t \in RunallTids : t[2] = runall
  BY DEF RunallTids, TasksOf
<1>6. /\ marked \subseteq Entries /\ \A t \in marked : taskdepends[t] \subseteq marked
  BY <1>3, <1>5, ReachIs
<1>7. GraphTypeOK'
  BY <1>1, <1>2, <1>3, <1>6, StaysTyped
<1>8. /\ Marked \subseteq Entries /\ \A t \in active : taskdepends[t] \subseteq active
      /\ \A t \in TopTasks : t \in Marked
      /\ Marked \subseteq active
  BY <1>1 DEF GraphInv, MarkedRight, AskedFor, Checked, Weighing
<1>9. CASE runall = None /\ stage' = "runonly" /\ active' = active
  <2>1. \A t \in TopTasks' : AskedFor(t)'
    BY <1>1, <1>4, <1>8, <1>9, WaitersKept DEF AskedFor, Checked, Weighing
  <2>2. MarkedRight'
    BY <1>1, <1>4, <1>8, <1>9, <2>1 DEF MarkedRight, Checked, Weighing
  <2> QED
    BY <1>2, <1>7, <2>2, NotWeighed DEF GraphInv
<1>10. CASE runall # None /\ stage' = "runonly" /\ active' = marked /\ marked # {}
  <2>1. \A t \in TopTasks' : t[2] = runall
    <3> SUFFICES ASSUME NEW t \in TopTasks' PROVE t[2] = runall
      OBVIOUS
    <3>1. t \in marked /\ \A r \in marked : t \notin taskdepends[r]
      BY <1>1, <1>10 DEF TopTasks, Waiters
    <3> QED
      BY <1>3, <1>5, <3>1, ReachTops
  <2>2. \A t \in TopTasks' : AskedFor(t)'
    BY <1>1, <1>10, <2>1 DEF AskedFor, Checked, Weighing
  <2> HIDE DEF marked
  <2>3. MarkedRight'
    BY <1>1, <1>4, <1>6, <1>8, <1>10, <2>2 DEF MarkedRight, Checked, Weighing
  <2> QED
    BY <1>2, <1>7, <2>3, NotWeighed DEF GraphInv
<1> QED
  BY <1>1, <1>7, <1>9, <1>10, EarlyGraph

LEMMA RunOnlyStep ==
  ASSUME GraphInv, RunOnly
  PROVE  GraphInv'
<1> DEFINE named  == {t \in active : t[2] = runonly}
           marked == Reach(taskdepends, named)
<1>1. /\ stage = "runonly" /\ UNCHANGED resolution
      /\ UNCHANGED <<command, taskdepends, again, weight>>
      /\ UNCHANGED <<runall, runonly>>
      /\ \/ runonly = None /\ stage' = "check" /\ active' = active
         \/ runonly # None /\ stage' = "no tasks of the name" /\ active' = marked
         \/ runonly # None /\ stage' = "check" /\ active' = marked /\ marked # {}
  BY DEF RunOnly, Goes, recursion, weights, command
<1>2. /\ stage \in Graphed /\ stage' \in Graphed /\ stage \notin Weighing
      /\ stage' \notin Weighing
  BY <1>1 DEF Graphed, Checked, Weighing
<1>3. /\ taskdepends \in [Entries -> SUBSET Entries]
      /\ active \subseteq Entries /\ again \subseteq Recursive /\ DOMAIN weight = {}
  BY <1>2, GraphTyped
<1>4. Entries' = Entries /\ Marked' = Marked
  BY <1>1, EntriesKept, MarkedKept
<1>5. named \in SUBSET Entries /\ \A t \in named : t[2] = runonly
  BY <1>3
<1>6. /\ marked \subseteq Entries /\ \A t \in marked : taskdepends[t] \subseteq marked
  <2> HIDE DEF named
  <2> QED
    BY <1>3, <1>5, ReachIs
<1>7. GraphTypeOK'
  BY <1>1, <1>2, <1>3, <1>6, StaysTyped
<1>8. /\ Marked \subseteq Entries /\ \A t \in active : taskdepends[t] \subseteq active
      /\ \A t \in TopTasks : AskedFor(t)
      /\ runall = None => Marked \subseteq active
      /\ active = {} => runall = None
  BY <1>1 DEF GraphInv, MarkedRight, Checked, Weighing
<1>9. CASE runonly = None /\ stage' = "check" /\ active' = active
  <2>1. \A t \in TopTasks' : AskedFor(t)'
    BY <1>1, <1>4, <1>8, <1>9, WaitersKept DEF AskedFor, Checked, Weighing
  <2>2. MarkedRight'
    BY <1>1, <1>4, <1>8, <1>9, <2>1 DEF MarkedRight, Checked, Weighing
  <2> QED
    BY <1>2, <1>7, <2>2, NotWeighed DEF GraphInv
<1>10. CASE runonly # None /\ stage' = "check" /\ active' = marked /\ marked # {}
  <2>1. \A t \in TopTasks' : t[2] = runonly
    <3> SUFFICES ASSUME NEW t \in TopTasks' PROVE t[2] = runonly
      OBVIOUS
    <3>1. t \in marked /\ \A r \in marked : t \notin taskdepends[r]
      BY <1>1, <1>10 DEF TopTasks, Waiters
    <3> HIDE DEF named
    <3> QED
      BY <1>3, <1>5, <3>1, ReachTops
  <2>2. \A t \in TopTasks' : AskedFor(t)'
    BY <1>1, <1>10, <2>1 DEF AskedFor, Checked, Weighing
  <2> HIDE DEF marked
  <2>3. MarkedRight'
    BY <1>1, <1>4, <1>6, <1>8, <1>10, <2>2 DEF MarkedRight, Checked, Weighing
  <2> QED
    BY <1>2, <1>7, <2>3, NotWeighed DEF GraphInv
<1> QED
  BY <1>1, <1>7, <1>9, <1>10, EarlyGraph

LEMMA CheckGraphStep ==
  ASSUME GraphInv, CheckGraph
  PROVE  GraphInv'
<1>1. /\ stage = "check" /\ UNCHANGED resolution
      /\ UNCHANGED <<command, taskdepends, active, again>>
      /\ \/ stage' \in {"please report", "incomplete"} /\ weight' = weight
         \/ /\ stage' = "loop" /\ weight' = weight
            /\ \E t \in active : Waiters(t) \cap taskdepends[t] # {}
         \/ /\ stage' = "weigh"
            /\ weight' = [t \in active |-> IF t \in TopTasks THEN 10 ELSE 1]
            /\ revdepsleft' = [t \in active |-> Cardinality(Waiters(t))]
            /\ ends' = TopTasks
  BY DEF CheckGraph, Goes, recursion, weights
<1>2. stage \in Graphed /\ stage' \in Graphed /\ stage \in Checked /\ stage' \in Checked
  BY <1>1 DEF Graphed, Checked, Weighing
<1>3. /\ taskdepends \in [Entries -> SUBSET Entries]
      /\ active \subseteq Entries /\ again \subseteq Recursive /\ DOMAIN weight = {}
  BY <1>1, <1>2, GraphTyped DEF Weighing
<1>4. MarkedRight'
  BY <1>1, <1>2, MarkedStays DEF GraphInv
<1>5. CASE stage' \in {"please report", "incomplete"} /\ weight' = weight
  <2>1. GraphTypeOK' /\ stage' \notin Weighing
    BY <1>1, <1>2, <1>3, <1>5, StaysTyped DEF Weighing
  <2> QED
    BY <1>4, <2>1, NotWeighed DEF GraphInv
<1>6. CASE /\ stage' = "loop" /\ weight' = weight
           /\ \E t \in active : Waiters(t) \cap taskdepends[t] # {}
  <2>1. GraphTypeOK'
    BY <1>1, <1>2, <1>3, <1>6, StaysTyped DEF Weighing
  <2>2. PICK t \in active, r \in active : t \in taskdepends[r] /\ r \in taskdepends[t]
    BY <1>6 DEF Waiters
  <2>3. ~NoneStuck(taskdepends, active)
    <3> DEFINE C == {t, r}
    <3>1. C \in SUBSET active /\ C # {} /\ \A u \in C : taskdepends[u] \cap C # {}
      BY <2>2
    <3> HIDE DEF C
    <3> QED
      BY <3>1 DEF NoneStuck
  <2>4. WeighedRight'
    <3>1. ~NoneStuck(taskdepends', active')
      BY <1>1, <2>3
    <3> QED
      BY <1>6, <3>1 DEF WeighedRight
  <2> QED
    BY <1>4, <2>1, <2>4 DEF GraphInv
<1>7. CASE /\ stage' = "weigh"
           /\ weight' = [t \in active |-> IF t \in TopTasks THEN 10 ELSE 1]
           /\ revdepsleft' = [t \in active |-> Cardinality(Waiters(t))]
           /\ ends' = TopTasks
  <2>1. GraphTypeOK'
    BY <1>1, <1>2, <1>3, <1>7, StaysTyped DEF Weighing
  <2>2. \A t \in active : IsFiniteSet(Waiters(t)) /\ Cardinality(Waiters(t)) \in Nat
                          /\ (Cardinality(Waiters(t)) = 0 <=> Waiters(t) = {})
    <3>1. \A t : Waiters(t) \subseteq Entries
      BY <1>3 DEF Waiters
    <3> QED
      BY <3>1, EntriesFinite, FS_Subset, FS_CardinalityType, FS_EmptySet
  <2>3. HandedDown' = {}
    <3>1. \A t \in active : revdepsleft'[t] = 0 => t \in ends'
      BY <1>7, <2>2 DEF TopTasks
    <3> QED
      BY <1>1, <3>1 DEF HandedDown
  <2>4. /\ weight' \in [active' -> Nat \ {0}] /\ revdepsleft' \in [active' -> Nat]
        /\ ends' \subseteq active' /\ \A t \in ends' : revdepsleft'[t] = 0
    BY <1>1, <1>7, <2>2 DEF TopTasks
  <2>5. \A t \in active' : revdepsleft'[t] = Cardinality(Waiters(t)' \ HandedDown')
    <3>1. \A t \in active : Waiters(t)' = Waiters(t) /\ Waiters(t) \ {} = Waiters(t)
      BY <1>1, WaitersKept
    <3> QED
      BY <1>1, <1>7, <2>3, <3>1
  <2>6. NoneStuck(taskdepends', HandedDown')
    BY <2>3 DEF NoneStuck
  <2>7. WeighedRight'
    BY <1>7, <2>3, <2>4, <2>5, <2>6 DEF WeighedRight
  <2> QED
    BY <1>4, <2>1, <2>7 DEF GraphInv
<1> QED
  BY <1>1, <1>5, <1>6, <1>7

LEMMA WeighStep ==
  ASSUME GraphInv, Weigh
  PROVE  GraphInv'
<1> DEFINE more(t) == FoldFunctionOnSet(+, 0, weight, Waiters(t) \cap ends)
<1>1. /\ stage = "weigh" /\ stage' = "weigh" /\ UNCHANGED resolution
      /\ UNCHANGED <<command, taskdepends, active, again>>
      /\ weight' = [t \in active |-> weight[t] + more(t)]
      /\ revdepsleft' = [t \in active |-> revdepsleft[t] - Cardinality(Waiters(t) \cap ends)]
      /\ ends' = {t \in active : Waiters(t) \cap ends # {} /\ revdepsleft'[t] = 0}
  BY DEF Weigh, Goes, recursion
<1>2. stage \in Graphed /\ stage' \in Graphed /\ stage' \in Weighing
  BY <1>1 DEF Graphed, Checked, Weighing
<1>3. /\ taskdepends \in [Entries -> SUBSET Entries]
      /\ active \subseteq Entries /\ again \subseteq Recursive
  BY <1>2, GraphTyped
<1>4. MarkedRight'
  BY <1>1, MarkedStays DEF GraphInv
<1>5. GraphTypeOK'
  BY <1>1, <1>2, <1>3, StaysTyped
<1>6. /\ weight \in [active -> Nat \ {0}] /\ revdepsleft \in [active -> Nat]
      /\ ends \subseteq active
      /\ \A t \in ends : revdepsleft[t] = 0
      /\ \A t \in active : revdepsleft[t] = Cardinality(Waiters(t) \ HandedDown)
      /\ NoneStuck(taskdepends, HandedDown)
      /\ \A d \in active : \A t \in Waiters(d) \cap HandedDown : weight[d] > weight[t]
  BY <1>1 DEF GraphInv, WeighedRight
<1>7. \A t : Waiters(t)' = Waiters(t)
  BY <1>1, WaitersKept
<1>8. ASSUME NEW t
      PROVE  /\ Waiters(t) \subseteq active
             /\ IsFiniteSet(Waiters(t) \ HandedDown) /\ IsFiniteSet(Waiters(t) \cap ends)
             /\ IsFiniteSet(Waiters(t) \ (HandedDown \cup ends))
             /\ Cardinality(Waiters(t) \ HandedDown) \in Nat
             /\ Cardinality(Waiters(t) \cap ends) \in Nat
             /\ Cardinality(Waiters(t) \ (HandedDown \cup ends)) \in Nat
             /\ (Cardinality(Waiters(t) \ HandedDown) = 0 <=> Waiters(t) \subseteq HandedDown)
             /\ (Cardinality(Waiters(t) \cap ends) = 0 <=> Waiters(t) \cap ends = {})
  <2>1. Waiters(t) \subseteq active /\ Waiters(t) \subseteq Entries
    BY <1>3 DEF Waiters
  <2>2. /\ IsFiniteSet(Waiters(t) \ HandedDown) /\ IsFiniteSet(Waiters(t) \cap ends)
        /\ IsFiniteSet(Waiters(t) \ (HandedDown \cup ends))
    <3>1. \A S : S \subseteq Entries => IsFiniteSet(S)
      BY EntriesFinite, FS_Subset
    <3> QED
      BY <2>1, <3>1
  <2> QED
    BY <2>1, <2>2, FS_CardinalityType, FS_EmptySet
<1>9. HandedDown \subseteq active /\ HandedDown \cap ends = {}
  BY DEF HandedDown
<1>10. \A t \in active :
         /\ t \in HandedDown \cup ends <=> Waiters(t) \subseteq HandedDown
         /\ t \in HandedDown \cup ends <=> revdepsleft[t] = 0
  <2>1. \A t \in active : t \in HandedDown \cup ends <=> revdepsleft[t] = 0
    BY <1>6 DEF HandedDown
  <2> QED
    BY <1>6, <1>8, <2>1
<1>11. \A t \in active : /\ more(t) \in Nat /\ (Waiters(t) \cap ends = {} => more(t) = 0)
                         /\ \A x \in Waiters(t) \cap ends : weight[x] <= more(t)
  <2> SUFFICES ASSUME NEW t \in active
               PROVE  /\ more(t) \in Nat /\ (Waiters(t) \cap ends = {} => more(t) = 0)
                      /\ \A x \in Waiters(t) \cap ends : weight[x] <= more(t)
    OBVIOUS
  <2> DEFINE S == Waiters(t) \cap ends
  <2>1. IsFiniteSet(S) /\ \A x \in S : weight[x] \in Nat
    BY <1>6, <1>8
  <2>2. /\ FoldFunctionOnSet(+, 0, weight, S) \in Nat
        /\ S = {} => FoldFunctionOnSet(+, 0, weight, S) = 0
        /\ \A x \in S : weight[x] <= FoldFunctionOnSet(+, 0, weight, S)
    <3> HIDE DEF S
    <3> QED
      BY <2>1, WeightsAdd
  <2> QED
    BY <2>2
<1> HIDE DEF more
<1>12. \A t \in active :
         /\ revdepsleft'[t] = Cardinality(Waiters(t) \ (HandedDown \cup ends))
         /\ revdepsleft'[t] \in Nat
  <2> SUFFICES ASSUME NEW t \in active
               PROVE  /\ revdepsleft'[t] = Cardinality(Waiters(t) \ (HandedDown \cup ends))
                      /\ revdepsleft'[t] \in Nat
    OBVIOUS
  <2> DEFINE S == Waiters(t) \ HandedDown
             T == Waiters(t) \cap ends
  <2>1. T \subseteq S /\ S \ T = Waiters(t) \ (HandedDown \cup ends)
    BY <1>9
  <2>2. IsFiniteSet(S) /\ IsFiniteSet(T) /\ Cardinality(S) \in Nat /\ Cardinality(T) \in Nat
        /\ Cardinality(Waiters(t) \ (HandedDown \cup ends)) \in Nat
    BY <1>8
  <2>3. revdepsleft'[t] = Cardinality(S) - Cardinality(T)
    BY <1>1, <1>6
  <2> HIDE DEF S, T
  <2>4. Cardinality(S \ T) = Cardinality(S) - Cardinality(S \cap T) /\ S \cap T = T
    BY <2>1, <2>2, FS_Difference
  <2> QED
    BY <2>1, <2>2, <2>3, <2>4
<1>13. \A t \in active : t \in HandedDown \cup ends =>
         Waiters(t) \cap ends = {} /\ revdepsleft'[t] = 0 /\ weight'[t] = weight[t]
  <2> SUFFICES ASSUME NEW t \in active, t \in HandedDown \cup ends
               PROVE  Waiters(t) \cap ends = {} /\ revdepsleft'[t] = 0 /\ weight'[t] = weight[t]
    OBVIOUS
  <2>1. Waiters(t) \subseteq HandedDown /\ revdepsleft[t] = 0
    BY <1>10
  <2>2. Waiters(t) \cap ends = {}
    BY <1>9, <2>1
  <2>3. Cardinality(Waiters(t) \cap ends) = 0 /\ more(t) = 0
    BY <1>8, <1>11, <2>2
  <2>4. weight[t] \in Nat
    BY <1>6
  <2> QED
    BY <1>1, <2>1, <2>2, <2>3, <2>4
<1>14. HandedDown' = HandedDown \cup ends
  <2>1. ASSUME NEW t \in HandedDown' PROVE t \in HandedDown \cup ends
    <3>1. t \in active /\ revdepsleft'[t] = 0 /\ t \notin ends'
      BY <1>1, <2>1 DEF HandedDown
    <3>2. Waiters(t) \cap ends = {}
      BY <1>1, <3>1
    <3>3. Cardinality(Waiters(t) \cap ends) = 0 /\ revdepsleft[t] \in Nat
      BY <1>6, <1>8, <3>1, <3>2
    <3>4. revdepsleft[t] = 0
      BY <1>1, <3>1, <3>3
    <3> QED
      BY <1>10, <3>1, <3>4
  <2>2. ASSUME NEW t \in HandedDown \cup ends PROVE t \in HandedDown'
    <3>1. t \in active
      BY <1>6, <1>9
    <3>2. revdepsleft'[t] = 0 /\ t \notin ends'
      BY <1>1, <1>13, <3>1
    <3> QED
      BY <1>1, <3>1, <3>2 DEF HandedDown
  <2> QED
    BY <2>1, <2>2
<1>15. NoneStuck(taskdepends, HandedDown \cup ends)
  <2> SUFFICES ASSUME NEW C \in SUBSET (HandedDown \cup ends), C # {}
               PROVE  \E t \in C : taskdepends[t] \cap C = {}
    BY DEF NoneStuck
  <2>1. CASE C \cap ends = {}
    <3>1. C \in SUBSET HandedDown
      BY <2>1
    <3> QED
      BY <1>6, <3>1 DEF NoneStuck
  <2>2. ASSUME NEW t \in C, t \in ends PROVE taskdepends[t] \cap C = {}
    <3> SUFFICES ASSUME NEW d \in C, d \in taskdepends[t] PROVE FALSE
      OBVIOUS
    <3>1. d \in active /\ t \in active
      BY <1>6, <1>9
    <3>2. t \in Waiters(d)
      BY <3>1 DEF Waiters
    <3>3. Waiters(d) \cap ends = {}
      BY <1>13, <3>1
    <3> QED
      BY <2>2, <3>2, <3>3
  <2> QED
    BY <2>1, <2>2
<1>16. \A t \in active : weight'[t] = weight[t] + more(t) /\ weight[t] \in Nat \ {0}
  BY <1>1, <1>6
<1>17. /\ weight' \in [active' -> Nat \ {0}] /\ revdepsleft' \in [active' -> Nat]
       /\ ends' \subseteq active' /\ \A t \in ends' : revdepsleft'[t] = 0
  <2>1. \A t \in active : weight[t] + more(t) \in Nat \ {0}
    BY <1>6, <1>11
  <2> QED
    BY <1>1, <1>12, <2>1
<1>18. ASSUME NEW d \in active, NEW t \in Waiters(d), t \in HandedDown \cup ends
       PROVE  weight'[d] > weight'[t]
  <2>1. t \in active /\ weight'[t] = weight[t]
    BY <1>8, <1>13, <1>18
  <2>2. /\ weight[t] \in Nat /\ weight[d] \in Nat \ {0} /\ more(d) \in Nat
        /\ weight'[d] = weight[d] + more(d)
    BY <1>6, <1>11, <1>16, <2>1
  <2>3. CASE t \in HandedDown
    <3>1. weight[d] > weight[t]
      BY <1>6, <2>3
    <3> QED
      BY <2>1, <2>2, <3>1
  <2>4. CASE t \in ends
    <3>1. weight[t] <= more(d)
      BY <1>11, <1>18, <2>4
    <3> QED
      BY <2>1, <2>2, <3>1
  <2> QED
    BY <1>18, <2>3, <2>4
<1>19. WeighedRight'
  <2>1. \A t \in active' : revdepsleft'[t] = Cardinality(Waiters(t)' \ HandedDown')
    BY <1>1, <1>7, <1>12, <1>14
  <2>2. NoneStuck(taskdepends', HandedDown')
    BY <1>1, <1>14, <1>15
  <2>3. \A d \in active' : \A t \in Waiters(d)' \cap HandedDown' : weight'[d] > weight'[t]
    BY <1>1, <1>7, <1>14, <1>18
  <2> QED
    BY <1>1, <1>17, <2>1, <2>2, <2>3 DEF WeighedRight
<1> QED
  BY <1>4, <1>5, <1>19 DEF GraphInv

LEMMA WeighedStep ==
  ASSUME GraphInv, Weighed
  PROVE  GraphInv'
<1>1. /\ stage = "weigh" /\ ends = {} /\ UNCHANGED resolution
      /\ UNCHANGED <<command, taskdepends, active, again, weight>>
      /\ \/ stage' = "prepared" /\ \A t \in active : revdepsleft[t] = 0
         \/ stage' = "loop" /\ \E t \in active : revdepsleft[t] # 0
  BY DEF Weighed, Goes, preparevars, recursion, weights
<1>2. /\ stage \in Graphed /\ stage' \in Graphed /\ stage \in Checked /\ stage' \in Checked
      /\ stage' \in Weighing
  BY <1>1 DEF Graphed, Checked, Weighing
<1>3. /\ taskdepends \in [Entries -> SUBSET Entries] /\ DOMAIN weight \subseteq active
      /\ active \subseteq Entries /\ again \subseteq Recursive
  BY <1>2, GraphTyped
<1>4. MarkedRight'
  BY <1>1, <1>2, MarkedStays DEF GraphInv
<1>5. GraphTypeOK'
  BY <1>1, <1>2, <1>3, StaysTyped
<1>6. /\ weight \in [active -> Nat \ {0}] /\ revdepsleft \in [active -> Nat]
      /\ \A t \in active : revdepsleft[t] = Cardinality(Waiters(t) \ HandedDown)
      /\ NoneStuck(taskdepends, HandedDown)
      /\ \A d \in active : \A t \in Waiters(d) \cap HandedDown : weight[d] > weight[t]
  BY <1>1 DEF GraphInv, WeighedRight
<1>7. \A t : Waiters(t)' = Waiters(t) /\ Waiters(t) \subseteq active
  BY <1>1, WaitersKept DEF Waiters
<1>8. CASE stage' = "prepared" /\ \A t \in active : revdepsleft[t] = 0
  <2>1. HandedDown = active
    BY <1>1, <1>8 DEF HandedDown
  <2>2. /\ NoneStuck(taskdepends', active')
        /\ \A d \in active' : \A t \in Waiters(d)' : weight'[d] > weight'[t]
    BY <1>1, <1>6, <1>7, <2>1
  <2>3. WeighedRight'
    BY <1>8, <2>2 DEF WeighedRight
  <2> QED
    BY <1>4, <1>5, <2>3 DEF GraphInv
<1>9. CASE stage' = "loop" /\ \E t \in active : revdepsleft[t] # 0
  <2> DEFINE C == {t \in active : revdepsleft[t] # 0}
  <2>1. C # {} /\ C \subseteq active /\ IsFiniteSet(C)
    <3>1. C \subseteq Entries
      BY <1>3
    <3> QED
      BY <1>9, <3>1, EntriesFinite, FS_Subset
  <2>2. ASSUME NEW t \in C PROVE \E r \in C : t \in taskdepends[r]
    <3>1. Cardinality(Waiters(t) \ HandedDown) # 0
      BY <1>6
    <3>2. PICK r : r \in Waiters(t) \ HandedDown
      BY <3>1, FS_EmptySet
    <3>3. r \in active /\ t \in taskdepends[r]
      BY <3>2 DEF Waiters
    <3>4. revdepsleft[r] # 0
      BY <1>1, <3>2, <3>3 DEF HandedDown
    <3> QED
      BY <3>3, <3>4
  <2>3. ~NoneStuck(taskdepends, C)
    <3> HIDE DEF C
    <3> QED
      BY <2>1, <2>2, UpAndDown
  <2>4. ~NoneStuck(taskdepends, active)
    BY <2>1, <2>3 DEF NoneStuck
  <2>5. WeighedRight'
    <3>1. ~NoneStuck(taskdepends', active')
      BY <1>1, <2>4
    <3> QED
      BY <1>9, <3>1 DEF WeighedRight
  <2> QED
    BY <1>4, <1>5, <2>5 DEF GraphInv
<1> QED
  BY <1>1, <1>8, <1>9

LEMMA GraphInvInit == TaskDataInit /\ PrepareInit => GraphInv
<1> SUFFICES ASSUME TaskDataInit, PrepareInit PROVE GraphInv
  OBVIOUS
<1>1. /\ stage = "targets" /\ active = {} /\ again = {} /\ DOMAIN weight = {}
  BY DEF TaskDataInit, PrepareInit
<1>2. GraphTypeOK
  BY <1>1 DEF GraphTypeOK, PrepareTypeOK, Graphed, Checked, Weighing
<1>3. MarkedRight /\ WeighedRight
  BY <1>1 DEF MarkedRight, WeighedRight, Checked, Weighing
<1> QED
  BY <1>2, <1>3 DEF GraphInv

LEMMA GraphStutter ==
  ASSUME GraphInv, UNCHANGED <<taskdatavars, preparevars>>
  PROVE  GraphInv'
<1>1. /\ UNCHANGED resolution /\ UNCHANGED <<command, taskdepends, active, again, weight>>
      /\ UNCHANGED <<stage, revdepsleft, ends>>
  BY DEF taskdatavars, preparevars, resolution, walk, recursion, weights
<1>2. Entries' = Entries /\ Recursive' = Recursive /\ \A t : Waiters(t)' = Waiters(t)
  BY <1>1, EntriesKept, WaitersKept
<1>3. GraphTypeOK'
  BY <1>1, <1>2 DEF GraphInv, GraphTypeOK, PrepareTypeOK
<1>4. MarkedRight'
  BY <1>1, MarkedStays DEF GraphInv
<1>5. HandedDown' = HandedDown
  BY <1>1 DEF HandedDown
<1>6. WeighedRight'
  BY <1>1, <1>2, <1>5 DEF GraphInv, WeighedRight
<1> QED
  BY <1>3, <1>4, <1>6 DEF GraphInv

LEMMA GraphInvStep ==
  ASSUME Reasons, GraphInv, [PrepareNext]_<<taskdatavars, preparevars>>
  PROVE  GraphInv'
<1>1. CASE TaskDataNext /\ UNCHANGED preparevars
  <2>1. stage \in {"targets", "build", "run"}
        /\ stage' \in {"targets", "build", "run", "resolved", "NoProvider"}
    BY <1>1, TaskDataBefore DEF GraphInv, GraphTypeOK
  <2>2. stage \notin Graphed /\ stage \notin Weighing /\ stage' \notin Graphed
    BY <2>1 DEF Graphed, Checked, Weighing
  <2>3. GraphTypeOK /\ active = {} /\ again = {} /\ DOMAIN weight = {}
    BY <2>2 DEF GraphInv, GraphTypeOK
  <2>4. UNCHANGED <<active, again, weight>>
    BY <1>1 DEF preparevars, recursion, weights
  <2> QED
    BY <2>1, <2>2, <2>3, <2>4, BeforeGraph
<1>2. CASE LaterSteps
  BY <1>2, ResolveDependsStep, WalkStep, RecurseStep, MarkAndPruneStep, RunAllStep,
     RunOnlyStep, CheckGraphStep, WeighStep, WeighedStep DEF LaterSteps
<1>3. CASE UNCHANGED <<taskdatavars, preparevars>>
  BY <1>3, GraphStutter
<1> QED
  BY <1>1, <1>2, <1>3 DEF PrepareNext, LaterSteps

LEMMA InvRefusesLoops == GraphInv => LoopsRefused
<1> SUFFICES ASSUME GraphInv PROVE LoopsRefused
  OBVIOUS
<1>1. CASE stage = "prepared"
  <2>1. stage \in Graphed /\ stage \in Checked
    BY <1>1 DEF Graphed, Checked, Weighing
  <2>2. active \subseteq Entries
    BY <2>1, GraphTyped
  <2>3. /\ \A t \in active : taskdepends[t] \subseteq active
        /\ NoneStuck(taskdepends, active)
        /\ \A d \in active : \A t \in Waiters(d) : weight[d] > weight[t]
    BY <1>1, <2>1 DEF GraphInv, MarkedRight, WeighedRight
  <2>4. Unlooped(taskdepends, active)
    BY <2>2, <2>3, UnloopedIs
  <2>5. ASSUME NEW t \in active, NEW d \in Entries, d \in taskdepends[t]
        PROVE  d \in active /\ weight[d] > weight[t]
    <3>1. d \in active
      BY <2>3, <2>5
    <3>2. t \in Waiters(d)
      BY <2>5 DEF Waiters
    <3> QED
      BY <2>3, <3>1, <3>2
  <2> QED
    BY <1>1, <2>4, <2>5 DEF LoopsRefused
<1>2. CASE stage = "loop"
  <2>1. active \subseteq Entries
    BY <1>2, GraphTyped DEF Graphed, Checked, Weighing
  <2>2. ~NoneStuck(taskdepends, active)
    BY <1>2 DEF GraphInv, WeighedRight
  <2> QED
    BY <1>2, <2>1, <2>2, UnloopedIs DEF LoopsRefused
<1> QED
  BY <1>1, <1>2 DEF LoopsRefused

LEMMA InvOnlyNeeded == GraphInv => OnlyNeeded
<1> SUFFICES ASSUME GraphInv, stage = "prepared", NEW t \in TopTasks
             PROVE  IF runonly # None THEN t[2] = runonly
                    ELSE IF runall # None THEN t[2] = runall
                    ELSE IF request.parents THEN t \in DependsOf(Targeted)
                    ELSE t \in Targeted
  BY DEF OnlyNeeded
<1>1. stage \in Checked /\ stage # "runall"
  BY DEF Checked, Weighing
<1>2. AskedFor(t)
  BY <1>1 DEF GraphInv, MarkedRight
<1> QED
  BY <1>1, <1>2 DEF AskedFor, Marked

-----------------------------------------------------------------------------
(* A build that aborts, of items with one provider at most: what fails at   *)
(* all is needed by a target, so that the first failure ends the build.     *)

Strict == mode = "abort" /\ \A i \in Items : Len(eligible[i]) <= 1

\* The providers of an item, or those it had.
Had(i) == ToSet(provided[i]) \cup (IF i \in failed_deps THEN ToSet(eligible[i]) ELSE {})

\* All items there are can be reached from the targets.
Rooted ==
  /\ \A C \in SUBSET Items :
       required \subseteq C /\ (\A i \in C \cap DOMAIN provided : \A f \in Had(i) : Needs(f) \subseteq C)
         => DOMAIN provided \subseteq C
  /\ \A f \in seenfns : \E i \in DOMAIN provided : f \in Had(i)

\* As NothingForgotten, also for what a task asks for; and a target that has
\* failed will be reported.
NoneLeftOut ==
  /\ \A i \in failed_deps, f \in seenfns :
       i \in Needs(f) => f \in failed_fns \/ OnStack("remove", i, f)
  /\ \A i \in DOMAIN provided : \A f \in ToSet(provided[i]) :
       f \in seenfns /\ (f \in failed_fns => OnStack("fail", f, i))
  /\ failed_deps \subseteq DOMAIN provided
  /\ \A i \in failed_deps \cap required :
       \E fr \in ToSet(cascade) : fr.op = "remove" /\ fr.what = i

\* A failure ends with NoProvider.
FailsAtOnce ==
  /\ cascade = <<>> => failed_deps = {} /\ failed_fns = {}
  /\ cascade # <<>> => failed_deps # {} /\ adding = NotAdding /\ stage # "targets"

\* The targets, on their way to provider and runlist.
TargetsTurned ==
  /\ stage = "targets" => required \subseteq external_targets \cup waiting \cup {adding.item}
  /\ stage # "targets" => required \subseteq external_targets /\ waiting \subseteq DOMAIN provided
  /\ adding # NotAdding =>
       /\ adding.item \in required \cup DOMAIN provided
       /\ adding.left = <<>> => Has(adding.item)
  /\ \A i \in external_targets \ assumed :
       /\ <<i, eligible[i][1]>> \in runlist
       /\ i \in DOMAIN provided /\ (provided[i] = <<>> => i \in failed_deps)

FirstFailureEnds == Rooted /\ NoneLeftOut /\ FailsAtOnce /\ TargetsTurned

StrictInv == Strict /\ stage # "NoProvider" => FirstFailureEnds

\* Of one provider at most there is nothing to choose.
LEMMA OneProvider ==
  ASSUME Reasons, Strict, NEW i \in Items
  PROVE  /\ \A f, g \in ToSet(eligible[i]) : f = g
         /\ Has(i) => provided[i][1] = eligible[i][1] /\ eligible[i][1] \in ToSet(eligible[i])
<1>1. eligible[i] \in Seq(Files) /\ Len(eligible[i]) <= 1
  BY DEF Reasons, RecipesOK, Strict
<1>2. \A f, g \in ToSet(eligible[i]) : f = g
  BY <1>1 DEF ToSet
<1>3. ASSUME Has(i)
      PROVE  provided[i][1] = eligible[i][1] /\ eligible[i][1] \in ToSet(eligible[i])
  <2>1. /\ provided[i] \in Seq(Files) /\ ToSet(provided[i]) \subseteq ToSet(eligible[i])
        /\ provided[i] # <<>>
    BY <1>3, ReasonsFacts DEF ProvidedOK, Has
  <2>2. provided[i][1] \in ToSet(provided[i])
    BY <2>1 DEF ToSet
  <2>3. Len(eligible[i]) = 1
    <3> DEFINE n == Len(eligible[i])
    <3>1. n \in Nat /\ n <= 1 /\ DOMAIN eligible[i] = 1..n
      BY <1>1
    <3>2. PICK k \in DOMAIN eligible[i] : TRUE
      BY <2>1, <2>2 DEF ToSet
    <3> HIDE DEF n
    <3>3. k \in 1..n
      BY <3>1, <3>2
    <3>4. n = 1
      BY <3>1, <3>3
    <3> QED
      BY <3>4 DEF n
  <2>4. eligible[i][1] \in ToSet(eligible[i])
    BY <1>1, <2>3 DEF ToSet
  <2> QED
    BY <1>2, <2>1, <2>2, <2>4
<1> QED
  BY <1>2, <1>3

\* More items and files, none of which came from nowhere.
LEMMA RootedStays ==
  ASSUME Rooted, RecipesOK, UNCHANGED recipes, DOMAIN provided \subseteq DOMAIN provided',
         \A i \in DOMAIN provided : \A f : f \in Had(i) => f \in Had(i)',
         \A C \in SUBSET Items :
           required \cup DOMAIN provided \subseteq C
             /\ (\A i \in C \cap DOMAIN provided' : \A f \in Had(i)' : Needs(f) \subseteq C)
           => DOMAIN provided' \subseteq C,
         \A f \in seenfns' : f \in seenfns \/ \E i \in DOMAIN provided' : f \in Had(i)'
  PROVE  Rooted'
<1>1. required' = required /\ \A f : Needs(f)' = Needs(f)
  BY RecipesKept
<1>2. ASSUME NEW C \in SUBSET Items, required \subseteq C,
             \A i \in C \cap DOMAIN provided' : \A f \in Had(i)' : Needs(f) \subseteq C
      PROVE  DOMAIN provided' \subseteq C
  <2>1. \A i \in C \cap DOMAIN provided : \A f \in Had(i) : Needs(f) \subseteq C
    BY <1>2
  <2>2. DOMAIN provided \subseteq C
    BY <1>2, <2>1 DEF Rooted
  <2> QED
    BY <1>2, <2>2
<1>3. \A f \in seenfns' : \E i \in DOMAIN provided' : f \in Had(i)'
  BY DEF Rooted
<1> QED
  BY <1>1, <1>2, <1>3 DEF Rooted

LEMMA RootedSame ==
  ASSUME Rooted, RecipesOK, UNCHANGED <<recipes, provided, seenfns>>,
         failed_deps \subseteq failed_deps'
  PROVE  Rooted'
<1>1. UNCHANGED eligible
  BY RecipesKept
<1>2. \A i \in DOMAIN provided : \A f : f \in Had(i) => f \in Had(i)'
  BY <1>1 DEF Had
<1>3. /\ DOMAIN provided \subseteq DOMAIN provided' /\ UNCHANGED recipes
      /\ \A f \in seenfns' : f \in seenfns \/ \E i \in DOMAIN provided' : f \in Had(i)'
      /\ \A C \in SUBSET Items :
           required \cup DOMAIN provided \subseteq C
             /\ (\A i \in C \cap DOMAIN provided' : \A f \in Had(i)' : Needs(f) \subseteq C)
           => DOMAIN provided' \subseteq C
  OBVIOUS
<1> QED
  BY <1>2, <1>3, RootedStays

\* When an item is removed, all that ask for it are on the stack.
LEMMA RemovedAsked ==
  ASSUME Reasons, NEW i \in Items, NEW below \in Seq(Frames), RemoveItem(i, below)
  PROVE  /\ ToSet(below) \subseteq ToSet(cascade') /\ cascade' # <<>>
         /\ \A f \in seenfns : i \in Needs(f) => OnStack("remove", i, f)'
         /\ \E fr \in ToSet(cascade') : fr.op = "remove" /\ fr.what = i
         /\ failed_deps' = failed_deps \cup {i}
<1> DEFINE fr == Frame("remove", i, Dependees(i))
<1>1. /\ failed_deps' = failed_deps \cup {i} /\ cascade' # <<>>
      /\ ToSet(cascade') = {fr} \cup ToSet(below)
  BY ReasonsFacts, RemoveItemIs
<1>2. fr.op = "remove" /\ fr.what = i /\ \A f \in seenfns : i \in Needs(f) => f \in fr.left
  BY DEF Frame, Dependees
<1> HIDE DEF fr
<1>3. \A f \in seenfns : i \in Needs(f) => OnStack("remove", i, f)'
  BY <1>1, <1>2 DEF OnStack
<1> QED
  BY <1>1, <1>2, <1>3

\* The same, when nothing fails and nothing is found.
LEMMA StrictSame ==
  ASSUME Reasons, FirstFailureEnds,
         UNCHANGED <<recipes, provided, seenfns, failed_fns, failed_deps, cascade>>,
         cascade = <<>>
  PROVE  Rooted' /\ NoneLeftOut' /\ FailsAtOnce'
<1>1. Rooted'
  BY RootedSame DEF Reasons, FirstFailureEnds
<1>2. UNCHANGED required /\ \A f : Needs(f)' = Needs(f)
  BY RecipesKept DEF Reasons
<1>3. NoneLeftOut'
  BY <1>2 DEF FirstFailureEnds, NoneLeftOut, OnStack
<1>4. FailsAtOnce'
  BY DEF FirstFailureEnds, FailsAtOnce
<1> QED
  BY <1>1, <1>3, <1>4

\* A target that has a provider is entered.
LEMMA TurnedIs ==
  ASSUME Reasons, Strict, TargetsTurned, NEW i \in Items, i \in assumed \/ Has(i), Returned(i)
  PROVE  /\ external_targets \subseteq external_targets'
         /\ stage = "targets" => external_targets' = external_targets \cup {i}
         /\ \A j \in external_targets' \ assumed :
              /\ <<j, eligible[j][1]>> \in runlist'
              /\ j \in DOMAIN provided /\ (provided[j] = <<>> => j \in failed_deps)
<1>1. CASE stage = "targets"
  <2>1. /\ external_targets' = external_targets \cup {i}
        /\ runlist' = IF Has(i) THEN runlist \cup {<<i, provided[i][1]>>} ELSE runlist
    BY <1>1 DEF Returned
  <2>2. Has(i) => provided[i][1] = eligible[i][1] /\ i \in DOMAIN provided /\ provided[i] # <<>>
    BY OneProvider DEF Has
  <2> QED
    BY <1>1, <2>1, <2>2 DEF TargetsTurned
<1>2. CASE stage # "targets"
  <2>1. UNCHANGED <<external_targets, runlist>>
    BY <1>2 DEF Returned
  <2> QED
    BY <1>2, <2>1 DEF TargetsTurned
<1> QED
  BY <1>1, <1>2

LEMMA NothingToAddStrict ==
  ASSUME Reasons, Strict, FirstFailureEnds, NEW i \in Items, NothingToAdd(i)
  PROVE  FirstFailureEnds'
<1>1. /\ adding = NotAdding /\ cascade = <<>> /\ i \in waiting /\ waiting' = waiting \ {i}
      /\ i \in assumed \/ Has(i)
      /\ Returned(i)
      /\ UNCHANGED <<recipes, provided, seenfns, failed_fns, failed_deps, stage, adding,
                     cascade>>
  BY DEF NothingToAdd, Turn
<1>2. /\ external_targets \subseteq external_targets'
      /\ stage = "targets" => external_targets' = external_targets \cup {i}
      /\ \A j \in external_targets' \ assumed :
           /\ <<j, eligible[j][1]>> \in runlist'
           /\ j \in DOMAIN provided /\ (provided[j] = <<>> => j \in failed_deps)
  BY <1>1, TurnedIs DEF FirstFailureEnds
<1>3. UNCHANGED <<eligible, assumed, required>>
  BY <1>1, RecipesKept DEF Reasons
<1>4. NotAdding' = NotAdding
  BY DEF NotAdding
<1>5. TargetsTurned'
  <2>1. TargetsTurned
    BY DEF FirstFailureEnds
  <2> QED
    BY <1>1, <1>2, <1>3, <1>4, <2>1 DEF TargetsTurned
<1> QED
  BY <1>1, <1>5, StrictSame DEF FirstFailureEnds

LEMMA AddProviderStrict ==
  ASSUME Reasons, Strict, FirstFailureEnds, NEW i \in Items, AddProvider(i)
  PROVE  FirstFailureEnds'
<1>1. /\ adding = NotAdding /\ cascade = <<>> /\ i \in waiting /\ waiting' = waiting \ {i}
      /\ Candidates(i) # {} /\ adding' = [item |-> i, left |-> eligible[i]]
      /\ UNCHANGED <<recipes, stage, cascade, runlist>>
      /\ UNCHANGED <<provided, seenfns, failed_fns, failed_deps, external_targets>>
  BY DEF AddProvider, Turn, data
<1>2. UNCHANGED <<eligible, assumed, required>>
  BY <1>1, RecipesKept DEF Reasons
<1>3. eligible[i] # <<>>
  BY <1>1 DEF Candidates, ToSet
<1>4. adding'.item = i /\ adding'.left # <<>> /\ adding.item = None
  BY <1>1, <1>3 DEF NotAdding
<1>5. stage = "targets" => i \in required
  BY <1>1 DEF Reasons, ResolvingOK
<1>6. None \notin required
  BY TaskDataAssumption DEF Reasons, RecipesOK
<1>7. TargetsTurned'
  <2>1. TargetsTurned
    BY DEF FirstFailureEnds
  <2>2. \A j \in (external_targets \ assumed)' :
          /\ <<j, eligible[j][1]>> \in runlist
          /\ j \in DOMAIN provided /\ (provided[j] = <<>> => j \in failed_deps)
    BY <1>1, <1>2, <2>1 DEF TargetsTurned
  <2>3. stage = "targets" => required \subseteq external_targets \cup waiting
    BY <1>4, <1>6, <2>1 DEF TargetsTurned
  <2>4. stage # "targets" => required \subseteq external_targets /\ waiting \subseteq DOMAIN provided
    BY <2>1 DEF TargetsTurned
  <2> QED
    BY <1>1, <1>2, <1>4, <1>5, <2>2, <2>3, <2>4 DEF TargetsTurned
<1> QED
  BY <1>1, <1>7, StrictSame DEF FirstFailureEnds

\* An exception, or the first failure: the item is in use already.
LEMMA NoProviderStrict ==
  ASSUME Reasons, Strict, FirstFailureEnds, NEW i \in Items, NoProvider(i),
         stage' # "NoProvider"
  PROVE  FirstFailureEnds'
<1>1. /\ adding = NotAdding /\ cascade = <<>> /\ i \in waiting /\ waiting' = waiting \ {i}
      /\ UNCHANGED <<recipes, provided, seenfns, failed_fns, adding, runlist>>
  BY DEF NoProvider, Turn
<1>2. ~Passes(i)
  BY DEF NoProvider
<1>3. /\ stage # "targets" /\ i \notin external_targets
      /\ UNCHANGED <<external_targets, stage>> /\ RemoveItem(i, <<>>)
  BY <1>2 DEF NoProvider, Passes, Strict
<1>4. /\ Rooted /\ NoneLeftOut /\ FailsAtOnce /\ TargetsTurned
  BY DEF FirstFailureEnds
<1>5. UNCHANGED <<eligible, assumed, required>> /\ \A f : Needs(f)' = Needs(f)
  BY <1>1, RecipesKept DEF Reasons
<1>6. /\ cascade' # <<>> /\ failed_deps' = failed_deps \cup {i}
      /\ \A f \in seenfns : i \in Needs(f) => OnStack("remove", i, f)'
      /\ \E fr \in ToSet(cascade') : fr.op = "remove" /\ fr.what = i
  <2>1. <<>> \in Seq(Frames)
    OBVIOUS
  <2> QED
    BY <1>3, <2>1, RemovedAsked
<1>7. failed_deps = {} /\ failed_fns = {}
  BY <1>1, <1>4 DEF FailsAtOnce
<1>8. i \in DOMAIN provided
  BY <1>1, <1>3, <1>4 DEF TargetsTurned
<1>9. Rooted'
  BY <1>1, <1>4, <1>6, RootedSame DEF Reasons
<1>10. NoneLeftOut'
  BY <1>1, <1>4, <1>5, <1>6, <1>7, <1>8 DEF NoneLeftOut
<1>11. NotAdding' = NotAdding
  BY DEF NotAdding
<1>12. FailsAtOnce'
  BY <1>1, <1>3, <1>6, <1>11 DEF FailsAtOnce
<1>13. TargetsTurned'
  BY <1>1, <1>3, <1>4, <1>5, <1>6, <1>11 DEF TargetsTurned
<1> QED
  BY <1>9, <1>10, <1>12, <1>13 DEF FirstFailureEnds

\* The file was all that item i had.
LEMMA FailFnStrict ==
  ASSUME Reasons, Strict, FirstFailureEnds, NEW i \in Items, FailFn(i)
  PROVE  FirstFailureEnds'
<1> DEFINE f    == Head(cascade).what
           rest == RemoveFirst(provided[i], Head(cascade).what)
<1>1. /\ cascade # <<>> /\ Head(cascade).op = "fail" /\ i \in Head(cascade).left
      /\ provided' = [provided EXCEPT ![i] = rest]
      /\ rest = <<>> => RemoveItem(i, Below(i))
      /\ UNCHANGED <<recipes, seenfns, external_targets, failed_fns, stage, waiting, adding,
                     runlist>>
  BY DEF FailFn
<1>2. /\ Rooted /\ NoneLeftOut /\ FailsAtOnce /\ TargetsTurned
  BY DEF FirstFailureEnds
<1>3. UNCHANGED <<eligible, assumed, required>> /\ \A g : Needs(g)' = Needs(g)
  BY <1>1, RecipesKept DEF Reasons
<1>4. /\ FrameOK(Head(cascade)) /\ Below(i) \in Seq(Frames)
      /\ ToSet(Below(i)) = {TopWithout(i)} \cup ToSet(Tail(cascade))
      /\ ToSet(cascade) = {Head(cascade)} \cup ToSet(Tail(cascade))
  BY <1>1, ReasonsFacts, TopFrame, BelowIs
<1>5. i \in DOMAIN provided /\ f \in ToSet(eligible[i])
  BY <1>1, <1>4 DEF FrameOK
<1>6. rest \in Seq(Files) /\ ToSet(rest) = {}
  <2>1. /\ provided[i] \in Seq(Files) /\ IsInjective(provided[i])
        /\ ToSet(provided[i]) \subseteq ToSet(eligible[i])
    BY <1>5, ReasonsFacts DEF ProvidedOK
  <2>2. rest \in Seq(Files) /\ ToSet(rest) = ToSet(provided[i]) \ {f}
    BY <2>1, RemovedFirst
  <2> QED
    BY <1>5, <2>1, <2>2, OneProvider
<1> HIDE DEF rest
<1>7. rest = <<>>
  <2>1. rest # <<>> => ToSet(rest) = {Head(rest)} \cup ToSet(Tail(rest))
    BY <1>6, TopAndRest
  <2> QED
    BY <1>6, <2>1
<1>8. /\ ToSet(Below(i)) \subseteq ToSet(cascade') /\ cascade' # <<>>
      /\ \A g \in seenfns : i \in Needs(g) => OnStack("remove", i, g)'
      /\ \E fr \in ToSet(cascade') : fr.op = "remove" /\ fr.what = i
      /\ failed_deps' = failed_deps \cup {i}
  BY <1>1, <1>4, <1>7, RemovedAsked
<1>9. /\ DOMAIN provided' = DOMAIN provided /\ provided'[i] = <<>>
      /\ \A j \in DOMAIN provided : j # i => provided'[j] = provided[j]
  BY <1>1, <1>5, <1>7
<1>10. \A op, what, y : OnStack(op, what, y) =>
        OnStack(op, what, y)' \/ (op = "fail" /\ what = f /\ y = i)
  BY <1>1, <1>8, StaysOnStack
<1>11. Rooted'
  <2>1. \A j \in DOMAIN provided : \A g : g \in Had(j) => g \in Had(j)'
    <3> SUFFICES ASSUME NEW j \in DOMAIN provided, NEW g, g \in Had(j) PROVE g \in Had(j)'
      OBVIOUS
    <3>1. ToSet(provided[j]) \subseteq ToSet(eligible[j])
      BY ReasonsFacts DEF ProvidedOK
    <3>2. CASE j = i
      BY <1>3, <1>8, <3>1, <3>2 DEF Had
    <3>3. CASE j # i
      BY <1>3, <1>8, <1>9, <3>3 DEF Had
    <3> QED
      BY <3>2, <3>3
  <2>2. DOMAIN provided \subseteq DOMAIN provided' /\ UNCHANGED recipes /\ seenfns' = seenfns
    BY <1>1, <1>9
  <2>3. /\ \A g \in seenfns' : g \in seenfns \/ \E j \in DOMAIN provided' : g \in Had(j)'
        /\ \A C \in SUBSET Items :
             required \cup DOMAIN provided \subseteq C
               /\ (\A j \in C \cap DOMAIN provided' : \A g \in Had(j)' : Needs(g) \subseteq C)
             => DOMAIN provided' \subseteq C
    BY <1>9, <2>2
  <2> QED
    BY <1>2, <2>1, <2>2, <2>3, RootedStays DEF Reasons
<1>12. NoneLeftOut'
  <2>1. \A j \in failed_deps', g \in seenfns :
          j \in Needs(g) => g \in failed_fns \/ OnStack("remove", j, g)'
    BY <1>2, <1>8, <1>10 DEF NoneLeftOut
  <2>2. \A j \in DOMAIN provided : \A g \in ToSet(provided'[j]) :
          g \in seenfns /\ (g \in failed_fns => OnStack("fail", g, j)')
    <3> SUFFICES ASSUME NEW j \in DOMAIN provided, NEW g \in ToSet(provided'[j])
                 PROVE  g \in seenfns /\ (g \in failed_fns => OnStack("fail", g, j)')
      OBVIOUS
    <3>1. j # i /\ g \in ToSet(provided[j])
      BY <1>9 DEF ToSet
    <3> QED
      BY <1>2, <1>10, <3>1 DEF NoneLeftOut
  <2>3. failed_deps' \subseteq DOMAIN provided'
    BY <1>2, <1>5, <1>8, <1>9 DEF NoneLeftOut
  <2>4. \A j \in failed_deps' \cap required :
          \E fr \in ToSet(cascade') : fr.op = "remove" /\ fr.what = j
    BY <1>1, <1>2, <1>4, <1>8 DEF NoneLeftOut
  <2> QED
    BY <1>1, <1>3, <1>9, <2>1, <2>2, <2>3, <2>4 DEF NoneLeftOut
<1>13. NotAdding' = NotAdding
  BY DEF NotAdding
<1>14. FailsAtOnce'
  BY <1>1, <1>2, <1>8, <1>13 DEF FailsAtOnce
<1>15. TargetsTurned'
  <2>1. adding = NotAdding
    BY <1>1, <1>2 DEF FailsAtOnce
  <2>2. \A j \in external_targets \ assumed :
          /\ <<j, eligible[j][1]>> \in runlist
          /\ j \in DOMAIN provided' /\ (provided'[j] = <<>> => j \in failed_deps')
    BY <1>2, <1>8, <1>9 DEF TargetsTurned
  <2> QED
    BY <1>1, <1>2, <1>3, <1>9, <1>13, <2>1, <2>2 DEF TargetsTurned
<1> QED
  BY <1>11, <1>12, <1>14, <1>15 DEF FirstFailureEnds

LEMMA RemoveTargetStrict ==
  ASSUME Reasons, Strict, FirstFailureEnds, NEW f \in Files, RemoveTarget(f)
  PROVE  FirstFailureEnds'
<1> DEFINE i == Head(cascade).what
<1>1. /\ cascade # <<>> /\ Head(cascade).op = "remove" /\ f \in Head(cascade).left
      /\ IF f \in failed_fns THEN cascade' = Below(f) /\ failed_fns' = failed_fns
         ELSE Fail(f, provided, Below(f))
      /\ UNCHANGED <<recipes, provided, seenfns, external_targets, failed_deps, stage,
                     waiting, adding, runlist>>
  BY DEF RemoveTarget
<1>2. /\ Rooted /\ NoneLeftOut /\ FailsAtOnce /\ TargetsTurned
  BY DEF FirstFailureEnds
<1>3. UNCHANGED <<eligible, assumed, required>> /\ \A g : Needs(g)' = Needs(g)
  BY <1>1, RecipesKept DEF Reasons
<1>4. /\ Below(f) \in Seq(Frames) /\ Below(f) # <<>>
      /\ ToSet(Below(f)) = {TopWithout(f)} \cup ToSet(Tail(cascade))
      /\ ToSet(cascade) = {Head(cascade)} \cup ToSet(Tail(cascade))
      /\ TopWithout(f).op = "remove" /\ TopWithout(f).what = i
  BY <1>1, ReasonsFacts, BelowIs
<1>5. failed_fns' = failed_fns \cup {f}
  BY <1>1 DEF Fail
<1>6. /\ ToSet(Below(f)) \subseteq ToSet(cascade') /\ cascade' # <<>>
      /\ f \notin failed_fns =>
           \A j \in DOMAIN provided : f \in ToSet(provided[j]) => OnStack("fail", f, j)'
  <2>1. CASE f \notin failed_fns
    <3> DEFINE new == Frame("fail", f, {j \in DOMAIN provided : f \in ToSet(provided[j])})
    <3>1. new \in Frames
      BY ReasonsFacts DEF Frame, Frames
    <3>2. cascade' = <<new>> \o Below(f)
      BY <1>1, <2>1 DEF Fail
    <3>3. /\ new.op = "fail" /\ new.what = f
          /\ new.left = {j \in DOMAIN provided : f \in ToSet(provided[j])}
      BY DEF Frame
    <3> HIDE DEF new
    <3>4. ToSet(cascade') = {new} \cup ToSet(Below(f)) /\ cascade' # <<>>
      BY <1>4, <3>1, <3>2, PushedOn
    <3> QED
      BY <3>3, <3>4 DEF OnStack
  <2>2. CASE f \in failed_fns
    BY <1>1, <1>4, <2>2
  <2> QED
    BY <2>1, <2>2
<1>7. \A op, what, y : OnStack(op, what, y) =>
        OnStack(op, what, y)' \/ (op = "remove" /\ what = i /\ y = f)
  BY <1>1, <1>6, StaysOnStack
<1>8. Rooted'
  BY <1>1, <1>2, RootedSame DEF Reasons
<1>9. NoneLeftOut'
  <2>1. \A j \in failed_deps, g \in seenfns :
          j \in Needs(g) => g \in failed_fns' \/ OnStack("remove", j, g)'
    BY <1>2, <1>5, <1>7 DEF NoneLeftOut
  <2>2. ASSUME NEW j \in DOMAIN provided, NEW g \in ToSet(provided[j])
        PROVE  g \in seenfns /\ (g \in failed_fns' => OnStack("fail", g, j)')
    <3>1. g \in seenfns /\ (g \in failed_fns => OnStack("fail", g, j))
      BY <1>2 DEF NoneLeftOut
    <3>2. CASE g \in failed_fns
      BY <1>7, <3>1, <3>2
    <3>3. CASE g \notin failed_fns
      BY <1>5, <1>6, <3>1, <3>3
    <3> QED
      BY <3>2, <3>3
  <2>3. \A j \in failed_deps \cap required :
          \E fr \in ToSet(cascade') : fr.op = "remove" /\ fr.what = j
    <3> SUFFICES ASSUME NEW j \in failed_deps \cap required
                 PROVE  \E fr \in ToSet(cascade') : fr.op = "remove" /\ fr.what = j
      OBVIOUS
    <3>1. PICK fr \in ToSet(cascade) : fr.op = "remove" /\ fr.what = j
      BY <1>2 DEF NoneLeftOut
    <3>2. CASE fr = Head(cascade)
      BY <1>4, <1>6, <3>1, <3>2
    <3>3. CASE fr # Head(cascade)
      BY <1>4, <1>6, <3>1, <3>3
    <3> QED
      BY <3>2, <3>3
  <2> QED
    BY <1>1, <1>2, <1>3, <2>1, <2>2, <2>3 DEF NoneLeftOut
<1>10. NotAdding' = NotAdding
  BY DEF NotAdding
<1>11. FailsAtOnce'
  BY <1>1, <1>2, <1>6, <1>10 DEF FailsAtOnce
<1>12. TargetsTurned'
  <2>1. adding = NotAdding
    BY <1>1, <1>2 DEF FailsAtOnce
  <2> QED
    BY <1>1, <1>2, <1>3, <1>10, <2>1 DEF TargetsTurned
<1> QED
  BY <1>8, <1>9, <1>11, <1>12 DEF FirstFailureEnds

\* Nothing has failed yet: the file is a provider, what it needs is seen.
LEMMA AddFileAdds ==
  ASSUME Reasons, AddFile, failed_deps = {}, failed_fns = {}
  PROVE  LET f == Head(adding.left)
         IN  /\ f \in ToSet(provided'[adding.item]) /\ adding.item \in DOMAIN provided'
             /\ \A j \in DOMAIN provided :
                  \A g : g \in ToSet(provided[j]) => g \in ToSet(provided'[j])
             /\ seenfns' = seenfns \cup {f} /\ UNCHANGED <<failed_fns, cascade>>
             /\ DOMAIN provided' \subseteq DOMAIN provided \cup {adding.item} \cup Needs(f)
<1> DEFINE f == Head(adding.left)
           i == adding.item
           p == WithSeen({adding.item}, provided)
           w == WithProvider(adding.item, f)
<1>1. /\ f \in ToSet(eligible[i]) /\ i \in Items \ assumed /\ f \in Files /\ cascade = <<>>
      /\ ProvidedOK(provided)
  <2>1. adding # NotAdding /\ f \in ToSet(eligible[i]) /\ f \in Files /\ cascade = <<>>
    BY ReasonsFacts, AddFileIs
  <2> QED
    BY <2>1, ReasonsFacts DEF AddingOK
<1>2. /\ DOMAIN p = DOMAIN provided \cup {i}
      /\ \A j \in DOMAIN p : p[j] = IF j \in DOMAIN provided THEN provided[j] ELSE <<>>
      /\ w = [p EXCEPT ![i] = IF f \in ToSet(@) THEN @ ELSE Append(@, f)]
  BY DEF WithSeen, WithProvider
<1>3. p[i] \in Seq(Files)
  <2> HIDE DEF p, i
  <2>1. CASE i \in DOMAIN provided
    BY <1>1, <1>2, <2>1 DEF ProvidedOK
  <2>2. CASE i \notin DOMAIN provided
    <3>1. p[i] = <<>>
      BY <1>2, <2>2
    <3> QED
      BY <3>1
  <2> QED
    BY <2>1, <2>2
<1> HIDE DEF p, w
<1>4. /\ DOMAIN w = DOMAIN provided \cup {i} /\ f \in ToSet(w[i])
      /\ \A j \in DOMAIN provided : \A g : g \in ToSet(provided[j]) => g \in ToSet(w[j])
  <2>1. DOMAIN w = DOMAIN p /\ \A j \in DOMAIN p : j # i => w[j] = p[j]
    BY <1>2
  <2>2. CASE f \in ToSet(p[i])
    <3>1. w[i] = p[i]
      BY <1>2, <2>2
    <3> QED
      BY <1>2, <2>1, <2>2, <3>1
  <2>3. CASE f \notin ToSet(p[i])
    <3>1. w[i] = Append(p[i], f)
      BY <1>2, <2>3
    <3>2. ToSet(w[i]) = ToSet(p[i]) \cup {f}
      BY <1>1, <1>3, <3>1, Appended
    <3> QED
      BY <1>2, <2>1, <3>2
  <2> QED
    BY <2>2, <2>3
<1>5. CASE f \in seenfns
  <2>1. provided' = w /\ UNCHANGED <<seenfns, failed_fns, cascade>>
    BY <1>5 DEF AddFile, w
  <2>2. DOMAIN provided' = DOMAIN provided \cup {i}
    BY <1>4, <2>1
  <2> HIDE DEF f, i
  <2> QED
    BY <1>4, <1>5, <2>1, <2>2 DEF f, i
<1>6. CASE f \notin seenfns
  <2>1. seenfns' = seenfns \cup {f} /\ AddTasks(f, w)
    BY <1>6 DEF AddFile, w
  <2>2. Gone(f) = {}
    BY DEF Gone
  <2>3. provided' = WithSeen(Needs(f), w) /\ UNCHANGED <<failed_fns, cascade>>
    BY <2>1, <2>2 DEF AddTasks
  <2>4. DOMAIN provided' = DOMAIN w \cup Needs(f) /\ \A j \in DOMAIN w : provided'[j] = w[j]
    BY <2>3 DEF WithSeen
  <2> QED
    BY <1>4, <2>1, <2>3, <2>4
<1> QED
  BY <1>5, <1>6

LEMMA AddFileStrict ==
  ASSUME Reasons, Strict, FirstFailureEnds, AddFile
  PROVE  FirstFailureEnds'
<1> DEFINE f == Head(adding.left)
<1>1. /\ Rooted /\ NoneLeftOut /\ FailsAtOnce /\ TargetsTurned
  BY DEF FirstFailureEnds
<1>2. /\ adding # NotAdding /\ cascade = <<>> /\ f \in ToSet(eligible[adding.item])
      /\ adding' = [adding EXCEPT !.left = Tail(@)]
      /\ UNCHANGED <<recipes, external_targets, failed_deps, stage, waiting, runlist>>
      /\ DOMAIN provided \subseteq DOMAIN provided'
      /\ \A j \in DOMAIN provided : provided[j] # <<>> => provided'[j] # <<>>
      /\ \A j \in DOMAIN provided' : \A g \in ToSet(provided'[j]) :
           \/ j \in DOMAIN provided /\ g \in ToSet(provided[j])
           \/ g = f /\ g \in seenfns' /\ g \notin failed_fns
  BY ReasonsFacts, AddFileIs
<1>3. failed_deps = {} /\ failed_fns = {}
  BY <1>1, <1>2 DEF FailsAtOnce
<1>4. /\ f \in ToSet(provided'[adding.item]) /\ adding.item \in DOMAIN provided'
      /\ \A j \in DOMAIN provided :
           \A g : g \in ToSet(provided[j]) => g \in ToSet(provided'[j])
      /\ seenfns' = seenfns \cup {f} /\ UNCHANGED <<failed_fns, cascade>>
      /\ DOMAIN provided' \subseteq DOMAIN provided \cup {adding.item} \cup Needs(f)
  BY <1>3, AddFileAdds
<1>5. UNCHANGED <<eligible, assumed, required>> /\ \A g : Needs(g)' = Needs(g)
  BY <1>2, RecipesKept DEF Reasons
<1>6. adding'.item = adding.item
  <2>1. adding = [item |-> adding.item, left |-> adding.left]
    BY <1>2, ReasonsFacts DEF AddingOK
  <2> QED
    BY <1>2, <2>1
<1> HIDE DEF f
<1>7. adding.item \in required \cup DOMAIN provided
  BY <1>1, <1>2 DEF TargetsTurned
<1>8. \A j : (j \in DOMAIN provided => \A g : g \in ToSet(provided[j]) <=> g \in Had(j))
             /\ \A g : g \in ToSet(provided'[j]) <=> g \in Had(j)'
  BY <1>2, <1>3 DEF Had
<1>9. Rooted'
  <2>1. \A j \in DOMAIN provided : \A g : g \in Had(j) => g \in Had(j)'
    BY <1>4, <1>8
  <2>2. ASSUME NEW C \in SUBSET Items, required \cup DOMAIN provided \subseteq C,
               \A j \in C \cap DOMAIN provided' : \A g \in Had(j)' : Needs(g) \subseteq C
        PROVE  DOMAIN provided' \subseteq C
    <3>0. PICK i : i = adding.item
      OBVIOUS
    <3>1. i \in C /\ i \in DOMAIN provided' /\ f \in Had(i)'
      BY <1>4, <1>7, <1>8, <2>2, <3>0
    <3>2. Needs(f) \subseteq C
      BY <2>2, <3>1
    <3> QED
      BY <1>4, <2>2, <3>0, <3>1, <3>2
  <2>3. \A g \in seenfns' : g \in seenfns \/ \E j \in DOMAIN provided' : g \in Had(j)'
    BY <1>4, <1>8
  <2>4. UNCHANGED recipes /\ DOMAIN provided \subseteq DOMAIN provided' /\ RecipesOK
    BY <1>2 DEF Reasons
  <2> QED
    BY <1>1, <2>1, <2>2, <2>3, <2>4, RootedStays
<1>10. NoneLeftOut'
  <2>1. \A j \in DOMAIN provided' : \A g \in ToSet(provided'[j]) : g \in seenfns'
    BY <1>1, <1>2, <1>4 DEF NoneLeftOut
  <2> QED
    BY <1>2, <1>3, <1>4, <2>1 DEF NoneLeftOut
<1>11. FailsAtOnce'
  BY <1>2, <1>3, <1>4 DEF FailsAtOnce
<1>12. TargetsTurned'
  <2>1. provided'[adding.item] # <<>>
    BY <1>4 DEF ToSet
  <2>2. Has(adding.item)'
    BY <1>4, <1>6, <2>1 DEF Has
  <2>3. \A j \in external_targets \ assumed :
          /\ <<j, eligible[j][1]>> \in runlist
          /\ j \in DOMAIN provided' /\ (provided'[j] = <<>> => j \in failed_deps')
    BY <1>1, <1>2, <1>3 DEF TargetsTurned
  <2> QED
    BY <1>1, <1>2, <1>5, <1>6, <1>7, <2>2, <2>3 DEF TargetsTurned
<1> QED
  BY <1>9, <1>10, <1>11, <1>12 DEF FirstFailureEnds

LEMMA AddedAllStrict ==
  ASSUME Reasons, Strict, FirstFailureEnds, AddedAll
  PROVE  FirstFailureEnds'
<1>1. /\ adding # NotAdding /\ adding.left = <<>> /\ cascade = <<>> /\ adding' = NotAdding
      /\ Returned(adding.item)
      /\ UNCHANGED <<recipes, provided, seenfns, failed_fns, failed_deps, stage, waiting,
                     cascade>>
  BY DEF AddedAll
<1>2. TargetsTurned
  BY DEF FirstFailureEnds
<1>3. Has(adding.item) /\ adding.item \in Items
  BY <1>1, <1>2, ReasonsFacts DEF TargetsTurned, AddingOK
<1>4. /\ external_targets \subseteq external_targets'
      /\ stage = "targets" => external_targets' = external_targets \cup {adding.item}
      /\ \A j \in external_targets' \ assumed :
           /\ <<j, eligible[j][1]>> \in runlist'
           /\ j \in DOMAIN provided /\ (provided[j] = <<>> => j \in failed_deps)
  BY <1>1, <1>2, <1>3, TurnedIs
<1>5. UNCHANGED <<eligible, assumed, required>> /\ NotAdding' = NotAdding
  BY <1>1, RecipesKept DEF Reasons, NotAdding
<1>6. TargetsTurned'
  BY <1>1, <1>2, <1>4, <1>5 DEF TargetsTurned
<1> QED
  BY <1>1, <1>6, StrictSame DEF FirstFailureEnds

\* What is left when the stack is empty has nothing to do with what failed,
\* and so has all there is.
LEMMA ReturnStrict ==
  ASSUME Reasons, Strict, FirstFailureEnds, Return, stage' # "NoProvider"
  PROVE  FirstFailureEnds'
<1>1. /\ Rooted /\ NoneLeftOut /\ FailsAtOnce /\ TargetsTurned
  BY DEF FirstFailureEnds
<1>2. /\ cascade # <<>> /\ Head(cascade).left = {}
      /\ UNCHANGED <<recipes, provided, seenfns, external_targets, failed_fns, waiting,
                     runlist>>
  BY DEF Return
<1>3. adding = NotAdding /\ stage # "targets" /\ failed_deps # {}
  BY <1>1, <1>2 DEF FailsAtOnce
<1>4. ~Raise
  BY <1>3, TaskDataAssumption DEF Raise, NotAdding, Items
<1>5. /\ cascade' = Tail(cascade) /\ UNCHANGED <<adding, stage, failed_deps>>
      /\ ~(Head(cascade).op = "remove" /\ Head(cascade).what \in external_targets)
  BY <1>4 DEF Return, Strict
<1>6. UNCHANGED <<eligible, assumed, required>> /\ \A g : Needs(g)' = Needs(g)
  BY <1>2, RecipesKept DEF Reasons
<1>7. ToSet(cascade) = {Head(cascade)} \cup ToSet(Tail(cascade))
  BY <1>2, TopFrame
<1>8. \A op, what, x : OnStack(op, what, x) => OnStack(op, what, x)'
  BY <1>2, <1>5, <1>7 DEF OnStack
<1>9. Rooted'
  BY <1>1, <1>2, <1>5, RootedSame DEF Reasons
<1>10. NoneLeftOut'
  <2>1. \A i \in failed_deps \cap required :
          \E fr \in ToSet(cascade') : fr.op = "remove" /\ fr.what = i
    BY <1>1, <1>3, <1>5, <1>7 DEF NoneLeftOut, TargetsTurned
  <2> QED
    BY <1>1, <1>2, <1>5, <1>6, <1>8, <2>1 DEF NoneLeftOut
<1>11. cascade' # <<>>
  <2> SUFFICES ASSUME cascade' = <<>> PROVE FALSE
    OBVIOUS
  <2> DEFINE C == Items \ failed_deps
  <2>1. /\ \A op, what, x : ~OnStack(op, what, x)
        /\ ToSet(cascade') = {}
    BY <1>8 DEF OnStack, ToSet
  <2>2. required \subseteq C
    BY <1>6, <1>10, <1>5, <2>1 DEF NoneLeftOut, Reasons, RecipesOK
  <2>3. ASSUME NEW i \in C \cap DOMAIN provided, NEW f \in Had(i) PROVE Needs(f) \subseteq C
    <3>1. f \in ToSet(provided[i])
      BY <2>3 DEF Had
    <3>2. f \in seenfns /\ f \notin failed_fns
      BY <1>1, <2>1, <3>1 DEF NoneLeftOut
    <3>3. Needs(f) \subseteq Items
      BY <3>2, ReasonsFacts, NeedsType
    <3> QED
      BY <1>1, <2>1, <3>2, <3>3 DEF NoneLeftOut
  <2>4. DOMAIN provided \subseteq C
    <3>1. C \in SUBSET Items
      OBVIOUS
    <3> HIDE DEF C
    <3> QED
      BY <1>1, <2>2, <2>3, <3>1 DEF Rooted
  <2>5. failed_deps \subseteq C
    BY <1>1, <2>4 DEF NoneLeftOut
  <2> QED
    BY <1>3, <2>5
<1>12. NotAdding' = NotAdding
  BY DEF NotAdding
<1>13. FailsAtOnce'
  BY <1>3, <1>5, <1>11, <1>12 DEF FailsAtOnce
<1>14. TargetsTurned'
  BY <1>1, <1>2, <1>3, <1>5, <1>6, <1>12 DEF TargetsTurned
<1> QED
  BY <1>9, <1>10, <1>13, <1>14 DEF FirstFailureEnds

LEMMA NextStageStrict ==
  ASSUME Reasons, Strict, FirstFailureEnds, NextStage
  PROVE  FirstFailureEnds'
<1>1. /\ waiting = {} /\ adding = NotAdding /\ cascade = <<>> /\ adding' = adding
      /\ stage' # "targets" /\ \E kind : waiting' = {} \/ waiting' = Unresolved(kind)
      /\ UNCHANGED <<recipes, provided, seenfns, failed_fns, failed_deps, cascade>>
      /\ UNCHANGED <<external_targets, runlist>>
  BY DEF NextStage, data
<1>2. waiting' \subseteq DOMAIN provided
  BY <1>1 DEF Unresolved
<1>3. UNCHANGED <<eligible, assumed, required>> /\ NotAdding' = NotAdding
  BY <1>1, RecipesKept DEF Reasons, NotAdding
<1>4. required \subseteq Items /\ None \notin Items /\ adding.item = None
  BY <1>1, TaskDataAssumption DEF Reasons, RecipesOK, NotAdding
<1>5. TargetsTurned'
  BY <1>1, <1>2, <1>3, <1>4 DEF FirstFailureEnds, TargetsTurned
<1> QED
  BY <1>1, <1>5, StrictSame DEF FirstFailureEnds

LEMMA LaterStrict ==
  ASSUME Reasons, FirstFailureEnds, UNCHANGED resolution,
         UNCHANGED stage \/ (Resolved /\ Resolved')
  PROVE  FirstFailureEnds'
<1>1. /\ UNCHANGED <<recipes, provided, seenfns, failed_fns, failed_deps, cascade>>
      /\ UNCHANGED <<external_targets, waiting, adding, runlist>>
      /\ stage' = stage \/ (stage # "targets" /\ stage' # "targets")
  BY DEF resolution, data, Resolved
<1>2. UNCHANGED <<eligible, assumed, required>> /\ \A f : Needs(f)' = Needs(f)
  BY <1>1, RecipesKept DEF Reasons
<1>3. Rooted /\ NoneLeftOut /\ FailsAtOnce /\ TargetsTurned
  BY DEF FirstFailureEnds
<1>4. Rooted'
  BY <1>1, <1>3, RootedSame DEF Reasons
<1>5. NoneLeftOut'
  BY <1>1, <1>2, <1>3 DEF NoneLeftOut, OnStack
<1>6. FailsAtOnce'
  BY <1>1, <1>3 DEF FailsAtOnce, NotAdding
<1>7. TargetsTurned'
  BY <1>1, <1>2, <1>3 DEF TargetsTurned, NotAdding, Has
<1> QED
  BY <1>4, <1>5, <1>6, <1>7 DEF FirstFailureEnds

LEMMA StrictInvInit == TaskDataInit => StrictInv
<1> SUFFICES ASSUME TaskDataInit PROVE FirstFailureEnds
  BY DEF StrictInv
<1>1. /\ DOMAIN provided = {} /\ seenfns = {} /\ external_targets = {} /\ failed_fns = {}
      /\ failed_deps = {} /\ stage = "targets" /\ waiting = required
      /\ adding = NotAdding /\ cascade = <<>>
  BY DEF TaskDataInit
<1> QED
  BY <1>1 DEF FirstFailureEnds, Rooted, NoneLeftOut, FailsAtOnce, TargetsTurned

LEMMA StrictInvStep ==
  ASSUME Reasons, StrictInv, [PrepareNext]_<<taskdatavars, preparevars>>
  PROVE  StrictInv'
<1> SUFFICES ASSUME Strict', stage' # "NoProvider" PROVE FirstFailureEnds'
  BY DEF StrictInv
<1>1. CASE TaskDataNext
  <2>1. UNCHANGED recipes /\ stage # "NoProvider"
    <3>1. ASSUME NEW i \in Items, NothingToAdd(i) \/ AddProvider(i) \/ NoProvider(i) \/ FailFn(i)
          PROVE  UNCHANGED recipes /\ stage # "NoProvider"
      <4>1. FailFn(i) => cascade # <<>>
        BY DEF FailFn
      <4> QED
        BY <3>1, <4>1, TopFrame DEF NothingToAdd, AddProvider, NoProvider, FailFn, Turn
    <3>2. ASSUME NEW f \in Files, RemoveTarget(f) PROVE UNCHANGED recipes /\ stage # "NoProvider"
      <4>1. cascade # <<>> /\ UNCHANGED recipes
        BY <3>2 DEF RemoveTarget
      <4> QED
        BY <4>1, TopFrame
    <3>3. CASE AddFile
      <4>1. adding # NotAdding /\ UNCHANGED recipes
        BY <3>3, ReasonsFacts, AddFileIs
      <4> QED
        BY <4>1 DEF Reasons, ResolvingOK
    <3>4. CASE AddedAll
      BY <3>4 DEF AddedAll, Reasons, ResolvingOK
    <3>5. CASE Return
      <4>1. cascade # <<>> /\ UNCHANGED recipes
        BY <3>5 DEF Return
      <4> QED
        BY <4>1, TopFrame
    <3>6. CASE NextStage
      BY <3>6 DEF NextStage
    <3> QED
      BY <1>1, <3>1, <3>2, <3>3, <3>4, <3>5, <3>6 DEF TaskDataNext
  <2>2. UNCHANGED <<mode, eligible>>
    BY <2>1 DEF recipes
  <2>3. Strict
    BY <2>2 DEF Strict
  <2>4. FirstFailureEnds
    BY <2>1, <2>3 DEF StrictInv
  <2> QED
    BY <1>1, <2>3, <2>4, NothingToAddStrict, AddProviderStrict, NoProviderStrict, FailFnStrict,
       RemoveTargetStrict, AddFileStrict, AddedAllStrict, ReturnStrict, NextStageStrict
       DEF TaskDataNext
<1>2. ASSUME UNCHANGED resolution, UNCHANGED stage \/ (Resolved /\ Resolved')
      PROVE  FirstFailureEnds'
  <2>1. UNCHANGED <<mode, eligible>> /\ stage # "NoProvider"
    BY <1>2 DEF resolution, recipes, Resolved
  <2>2. FirstFailureEnds
    BY <2>1 DEF StrictInv, Strict
  <2> QED
    BY <1>2, <2>2, LaterStrict
<1>3. CASE LaterSteps
  BY <1>2, <1>3, LaterIs
<1>4. CASE UNCHANGED <<taskdatavars, preparevars>>
  BY <1>2, <1>4 DEF taskdatavars, resolution
<1> QED
  BY <1>1, <1>3, <1>4, PrepareNextIs

-----------------------------------------------------------------------------
(* No target is lost.                                                       *)

\* It is reported that nothing is to be done only where nothing is.
ReportsNothing == stage = "please report" => active = {}

LEMMA ReportsStep ==
  ASSUME Reasons, PrepareTypeOK, ReportsNothing, [PrepareNext]_<<taskdatavars, preparevars>>
  PROVE  ReportsNothing'
<1>1. CASE TaskDataNext
  <2>1. stage' # "please report"
    BY <1>1, TaskDataBefore
  <2> QED
    BY <2>1 DEF ReportsNothing
<1>2. CASE LaterSteps
  <2> SUFFICES ASSUME stage' = "please report" PROVE active' = {}
    BY DEF ReportsNothing
  <2>1. ASSUME NEW s, Goes(s) PROVE s = "please report"
    BY <2>1 DEF Goes
  <2>2. CASE CheckGraph
    BY <2>2 DEF CheckGraph, Goes
  <2>3. ~(ResolveDepends \/ WalkUp \/ WalkedUp \/ (\E t \in again : Recurse(t)) \/ Recursed
            \/ MarkAndPrune \/ RunAll \/ RunOnly \/ Weigh \/ Weighed)
    <3>1. ~ResolveDepends
      BY <2>1 DEF ResolveDepends
    <3>2. ~(WalkUp \/ WalkedUp \/ \E t \in again : Recurse(t))
      BY <2>1 DEF WalkUp, WalkedUp, Recurse
    <3>3. ~Recursed
      BY <2>1 DEF Recursed
    <3>4. ~MarkAndPrune
      BY <2>1 DEF MarkAndPrune
    <3>5. ~RunAll
      BY DEF RunAll, Goes
    <3>6. ~RunOnly
      BY DEF RunOnly, Goes
    <3>7. ~Weigh
      BY <2>1 DEF Weigh
    <3>8. ~Weighed
      BY DEF Weighed, Goes
    <3> QED
      BY <3>1, <3>2, <3>3, <3>4, <3>5, <3>6, <3>7, <3>8
  <2> QED
    BY <1>2, <2>2, <2>3 DEF LaterSteps
<1>3. CASE UNCHANGED <<taskdatavars, preparevars>>
  BY <1>3 DEF taskdatavars, preparevars, ReportsNothing
<1> QED
  BY <1>1, <1>2, <1>3, PrepareNextIs

\* Nothing has failed, and each target is entered with its provider.
LEMMA TargetsHaveTasks ==
  ASSUME Reasons, StrictInv, Strict, Resolved, NEW i \in required \ assumed
  PROVE  <<eligible[i][1], request.task>> \in Targeted
<1>1. FirstFailureEnds /\ cascade = <<>> /\ stage # "targets"
  BY DEF StrictInv, Reasons, ResolvingOK, Resolved
<1>2. /\ failed_deps = {} /\ failed_fns = {} /\ i \in external_targets \ assumed
  BY <1>1 DEF FirstFailureEnds, FailsAtOnce, TargetsTurned
<1>3. <<i, eligible[i][1]>> \in runlist /\ Has(i)
  BY <1>1, <1>2 DEF FirstFailureEnds, TargetsTurned, Has
<1> DEFINE q == <<i, eligible[i][1]>>
<1>4. q \in runlist /\ Has(q[1]) /\ q[1] \notin failed_deps /\ q[2] \notin failed_fns
  BY <1>2, <1>3
<1>5. q[2] = eligible[i][1]
  OBVIOUS
<1> HIDE DEF q
<1> QED
  BY <1>4, <1>5 DEF Targeted

LEMMA InvLosesNoTarget ==
  ASSUME Reasons, GraphInv, StrictInv, ReportsNothing
  PROVE  NoTargetLost
<1> SUFFICES ASSUME Strict, ~request.parents
             PROVE  /\ stage # "please report"
                    /\ stage = "prepared" /\ runall = None /\ runonly = None =>
                         \A i \in required \ assumed :
                           <<eligible[i][1], request.task>> \in active
  BY DEF NoTargetLost, Strict
<1>1. Marked = Targeted
  BY DEF Marked
<1>2. CASE stage = "prepared"
  <2>1. stage \in Checked /\ stage # "runall" /\ Resolved
    BY <1>2 DEF Checked, Weighing, Resolved
  <2>2. runall = None /\ runonly = None => Targeted \subseteq active
    BY <1>1, <2>1 DEF GraphInv, MarkedRight
  <2> QED
    BY <1>2, <2>1, <2>2, TargetsHaveTasks
<1>3. stage # "please report"
  <2> SUFFICES ASSUME stage = "please report" PROVE FALSE
    OBVIOUS
  <2>1. stage \in Checked /\ stage \in Graphed /\ Resolved /\ stage # "NoProvider" /\ active = {}
    BY DEF Checked, Graphed, Resolved, ReportsNothing
  <2>2. Targeted = {}
    BY <1>1, <2>1 DEF GraphInv, MarkedRight
  <2>3. required \subseteq assumed
    BY <2>1, <2>2, TargetsHaveTasks
  <2>4. FirstFailureEnds /\ cascade = <<>>
    BY <2>1 DEF StrictInv, Reasons, ResolvingOK
  <2>5. Rooted /\ failed_deps = {}
    BY <2>4 DEF FirstFailureEnds, FailsAtOnce
  <2>6. \A i \in required \cap DOMAIN provided : Had(i) = {}
    <3> SUFFICES ASSUME NEW i \in required \cap DOMAIN provided PROVE Had(i) = {}
      OBVIOUS
    <3>1. provided[i] = <<>>
      BY <2>3, ReasonsFacts DEF ProvidedOK
    <3>2. ToSet(<<>>) = {}
      BY NothingInEmpty
    <3>3. i \notin failed_deps
      BY <2>5
    <3> QED
      BY <3>1, <3>2, <3>3 DEF Had
  <2>7. required \in SUBSET Items
    BY DEF Reasons, RecipesOK
  <2>8. DOMAIN provided \subseteq required
    BY <2>5, <2>6, <2>7 DEF Rooted
  <2>9. seenfns = {}
    BY <2>5, <2>6, <2>8 DEF Rooted
  <2>10. Entries = {}
    BY <2>9 DEF Entries
  <2> QED
    BY <2>1, <2>10 DEF GraphInv, GraphTypeOK
<1> QED
  BY <1>2, <1>3

\* All there is to know of the way from the targets to the graph
PreparedInv == Reasons /\ GraphInv /\ StrictInv /\ ReportsNothing

LEMMA PreparedInvInit == RecipesOK /\ TaskDataInit /\ PrepareInit => PreparedInv
<1> SUFFICES ASSUME RecipesOK, TaskDataInit, PrepareInit PROVE PreparedInv
  OBVIOUS
<1>1. Reasons
  BY ProvidersInvInit DEF ProvidersInv, Reasons
<1>2. ReportsNothing
  BY DEF ReportsNothing, TaskDataInit
<1> QED
  BY <1>1, <1>2, GraphInvInit, StrictInvInit DEF PreparedInv

LEMMA PreparedInvStep ==
  PreparedInv /\ [PrepareNext]_<<taskdatavars, preparevars>> => PreparedInv'
<1> SUFFICES ASSUME PreparedInv, [PrepareNext]_<<taskdatavars, preparevars>> PROVE PreparedInv'
  OBVIOUS
<1>1. Reasons /\ GraphInv /\ StrictInv /\ ReportsNothing /\ PrepareTypeOK
  BY DEF PreparedInv, GraphInv, GraphTypeOK
<1> QED
  BY <1>1, ReasonsStep, GraphInvStep, StrictInvStep, ReportsStep DEF PreparedInv

(* Whatever the recipes, the flags of their tasks and the command: a graph  *)
(* that is accepted has no loop, and one that is refused has one; all that  *)
(* nothing waits for was asked for; and a build that aborts at failures has *)
(* all of its targets (prepare, calculate_task_weights).                    *)
THEOREM GraphPreparedAlways == RecipesSpec => []GraphPrepared
<1>1. RecipesOK /\ TaskDataInit /\ PrepareInit => PreparedInv
  BY PreparedInvInit
<1>2. PreparedInv /\ [PrepareNext]_<<taskdatavars, preparevars>> => PreparedInv'
  BY PreparedInvStep
<1>3. PreparedInv => GraphPrepared
  BY InvRefusesLoops, InvOnlyNeeded, InvLosesNoTarget
     DEF PreparedInv, GraphPrepared, GraphInv, GraphTypeOK
<1> QED
  BY <1>1, <1>2, <1>3, PTL DEF RecipesSpec

-----------------------------------------------------------------------------
(* Recursive dependencies, where the direct ones have no loop.              *)

Direct == [t \in Entries |-> DirectDepends(t)]

\* All that t directly needs, in turn
Beneath(t) == Reach(Direct, Direct[t])
Loopless(t) == NoneStuck(Direct, Beneath(t))

\* What t waits for in the end, by its recrdeptask
WantedBy(t) ==
  TasksOf({d[1] : d \in UNION {Direct[u] : u \in Beneath(t)}}, RecrDepTask[t[2]]) \ {t}

\* The walk has told t of the recipes of d, and of all below d.
Told(t, d) == {d[1]} \cup cumulativedeps[d] \subseteq cumulativedeps[t]

\* A task is told once of what it depends on, when all below that is known.
WalkedRight ==
  /\ stage \in Graphed => \A t \in Entries : Direct[t] \subseteq Entries
  /\ stage = "walk" =>
       /\ taskdepends = Direct
       /\ \A t \in Entries :
            /\ left[t] \subseteq Direct[t]
            /\ t \in ends => left[t] = {}
            /\ \A d \in left[t] : left[d] = {} => d \in ends
            /\ \A d \in Direct[t] \ left[t] : left[d] = {} /\ d \notin ends /\ Told(t, d)
  /\ stage = "recurse" =>
       \A t \in Entries : Loopless(t) =>
         \A u \in Beneath(t) : \A d \in Direct[u] : Told(u, d)

RecursedRight ==
  /\ stage = "recurse" =>
       /\ \A t \in Entries : Direct[t] \subseteq taskdepends[t]
       /\ \A t \in Recursive \ again : Loopless(t) => WantedBy(t) \subseteq taskdepends[t]
  /\ stage \in Graphed \ {"walk", "recurse"} =>
       \A t \in Recursive : Loopless(t) =>
         WantedBy(t) \ (IF t \in SelfReferring THEN SelfReferring ELSE {}) \subseteq taskdepends[t]

RecursionInv == WalkedRight /\ RecursedRight

LEMMA DirectKept ==
  ASSUME UNCHANGED resolution
  PROVE  /\ Direct' = Direct /\ \A t : Direct[t]' = Direct[t]
         /\ \A t : Beneath(t)' = Beneath(t) /\ WantedBy(t)' = WantedBy(t)
         /\ \A t : Loopless(t)' <=> Loopless(t)
<1>1. /\ Entries' = Entries /\ \A t : DirectDepends(t)' = DirectDepends(t)
      /\ \A fs, names : TasksOf(fs, names)' = TasksOf(fs, names)
  BY EntriesKept
<1>2. Direct' = Direct
  BY <1>1 DEF Direct
<1>3. ASSUME NEW t PROVE Beneath(t)' = Beneath(t)
  BY <1>1, <1>2 DEF Beneath, Reach
<1>4. ASSUME NEW t PROVE WantedBy(t)' = WantedBy(t)
  BY <1>1, <1>2, <1>3 DEF WantedBy
<1>5. ASSUME NEW t PROVE Loopless(t)' <=> Loopless(t)
  BY <1>2, <1>3 DEF Loopless, NoneStuck
<1> QED
  BY <1>2, <1>3, <1>4, <1>5

LEMMA BeneathIs ==
  ASSUME \A u \in Entries : Direct[u] \subseteq Entries, NEW t \in Entries
  PROVE  /\ Direct[t] \subseteq Beneath(t) /\ Beneath(t) \subseteq Entries
         /\ \A u \in Beneath(t) : Direct[u] \subseteq Beneath(t)
         /\ \A C \in SUBSET Entries : Direct[t] \subseteq C /\ (\A u \in C : Direct[u] \subseteq C)
              => Beneath(t) \subseteq C
<1>1. Direct \in [Entries -> SUBSET Entries]
  BY DEF Direct
<1>2. Direct[t] \in SUBSET Entries
  OBVIOUS
<1> QED
  BY <1>1, <1>2, ReachIs DEF Beneath

LEMMA ResolveDependsRecursion ==
  ASSUME GraphInv, GraphInv', ResolveDepends
  PROVE  RecursionInv'
<1>1. UNCHANGED resolution
  BY DEF ResolveDepends, Goes
<1>2. /\ Direct' = Direct /\ \A t : Direct[t]' = Direct[t]
      /\ Entries' = Entries
  BY <1>1, DirectKept, EntriesKept
<1>3. CASE stage' = "walk"
  <2>1. stage' \in Graphed
    BY <1>3 DEF Graphed
  <2>2. /\ taskdepends' = Direct
        /\ left' = taskdepends' /\ ends' = {t \in Entries : taskdepends'[t] = {}}
    BY <1>3 DEF ResolveDepends, Goes, Direct
  <2>3. taskdepends' \in [Entries -> SUBSET Entries]
    BY <1>2, <2>1 DEF GraphInv, GraphTypeOK
  <2>4. /\ WalkedRight'
    BY <1>2, <1>3, <2>2, <2>3 DEF WalkedRight
  <2>5. RecursedRight'
    BY <1>3 DEF RecursedRight
  <2> QED
    BY <2>4, <2>5 DEF RecursionInv
<1>4. CASE stage' # "walk"
  <2>1. stage' \in {"nothing to do", "non-existent task"}
    BY <1>4 DEF ResolveDepends, Goes
  <2> QED
    BY <2>1 DEF RecursionInv, WalkedRight, RecursedRight, Graphed, Checked, Weighing
<1> QED
  BY <1>3, <1>4

LEMMA WalkUpRecursion ==
  ASSUME GraphInv, RecursionInv, WalkUp
  PROVE  RecursionInv'
<1>1. /\ stage = "walk" /\ stage' = "walk" /\ UNCHANGED resolution /\ taskdepends' = taskdepends
      /\ cumulativedeps' = [t \in Entries |->
           cumulativedeps[t] \cup UNION {HandedUp(e) : e \in taskdepends[t] \cap ends}]
      /\ left' = [t \in Entries |-> left[t] \ ends]
      /\ ends' = {t \in Entries : taskdepends[t] \cap ends # {} /\ left'[t] = {}}
  BY DEF WalkUp, Goes
<1>2. /\ Direct' = Direct /\ \A t : Direct[t]' = Direct[t]
      /\ Entries' = Entries
  BY <1>1, DirectKept, EntriesKept
<1>3. /\ taskdepends = Direct /\ \A t \in Entries : Direct[t] \subseteq Entries
      /\ \A t \in Entries :
            /\ left[t] \subseteq Direct[t]
            /\ t \in ends => left[t] = {}
            /\ \A d \in left[t] : left[d] = {} => d \in ends
            /\ \A d \in Direct[t] \ left[t] : left[d] = {} /\ d \notin ends /\ Told(t, d)
  BY <1>1 DEF RecursionInv, WalkedRight, Graphed
<1>4. ASSUME NEW t \in Entries
      PROVE  /\ left'[t] = left[t] \ ends
             /\ t \in ends' <=> Direct[t] \cap ends # {} /\ left'[t] = {}
             /\ cumulativedeps'[t] =
                  cumulativedeps[t] \cup UNION {HandedUp(e) : e \in Direct[t] \cap ends}
  BY <1>1, <1>3
<1>5. ASSUME NEW d \in Entries, left[d] = {}
      PROVE  left'[d] = {} /\ d \notin ends' /\ cumulativedeps'[d] = cumulativedeps[d]
  <2>1. Direct[d] \cap ends = {}
    BY <1>3, <1>5
  <2>2. UNION {HandedUp(e) : e \in Direct[d] \cap ends} = {}
    BY <2>1
  <2>3. left'[d] = {} /\ d \notin ends'
    BY <1>4, <1>5, <2>1
  <2>4. cumulativedeps'[d] = cumulativedeps[d]
    BY <1>4, <2>2
  <2> QED
    BY <2>3, <2>4
<1>6. ASSUME NEW t \in Entries
      PROVE  /\ left'[t] \subseteq Direct[t]
             /\ t \in ends' => left'[t] = {}
             /\ \A d \in left'[t] : left'[d] = {} => d \in ends'
             /\ \A d \in Direct[t] \ left'[t] :
                  left'[d] = {} /\ d \notin ends' /\ Told(t, d)'
  <2>1. left'[t] \subseteq Direct[t] /\ (t \in ends' => left'[t] = {})
    BY <1>3, <1>4
  <2>2. ASSUME NEW d \in left'[t], left'[d] = {} PROVE d \in ends'
    <3>1. d \in Entries /\ d \in left[t] /\ d \notin ends /\ left[d] \subseteq ends
          /\ left[d] \subseteq Direct[d]
      BY <1>3, <1>4, <2>2
    <3>2. left[d] # {}
      BY <1>3, <3>1
    <3> QED
      BY <1>4, <2>2, <3>1, <3>2
  <2>3. ASSUME NEW d \in Direct[t] \ left'[t]
        PROVE  left'[d] = {} /\ d \notin ends' /\ Told(t, d)'
    <3>1. d \in Entries /\ (d \notin left[t] \/ d \in ends)
      BY <1>3, <1>4, <2>3
    <3>2. left[d] = {}
      BY <1>3, <2>3, <3>1
    <3>3. left'[d] = {} /\ d \notin ends' /\ cumulativedeps'[d] = cumulativedeps[d]
      BY <1>5, <3>1, <3>2
    <3>4. HandedUp(d) \subseteq cumulativedeps'[t]
      <4>1. CASE d \in ends
        BY <1>4, <2>3, <4>1
      <4>2. CASE d \notin ends
        BY <1>3, <1>4, <2>3, <3>1, <4>2 DEF Told, HandedUp
      <4> QED
        BY <4>1, <4>2
    <3> QED
      BY <3>3, <3>4 DEF Told, HandedUp
  <2> QED
    BY <2>1, <2>2, <2>3
<1>7. WalkedRight'
  BY <1>1, <1>2, <1>3, <1>6 DEF WalkedRight
<1>8. RecursedRight'
  BY <1>1 DEF RecursedRight
<1> QED
  BY <1>7, <1>8 DEF RecursionInv

\* What the walk never comes to has a loop beneath it.
LEMMA WalkedUpRecursion ==
  ASSUME GraphInv, RecursionInv, WalkedUp
  PROVE  RecursionInv'
<1>1. /\ stage = "walk" /\ ends = {} /\ stage' = "recurse" /\ again' = Recursive
      /\ UNCHANGED resolution /\ UNCHANGED <<taskdepends, cumulativedeps>>
  BY DEF WalkedUp, Goes, walk
<1>2. /\ Direct' = Direct /\ (\A t : Direct[t]' = Direct[t])
      /\ (\A t : Beneath(t)' = Beneath(t)) /\ (\A t : Loopless(t)' <=> Loopless(t))
      /\ Entries' = Entries /\ Recursive' = Recursive
  BY <1>1, DirectKept, EntriesKept
<1>3. /\ taskdepends = Direct /\ \A t \in Entries : Direct[t] \subseteq Entries
      /\ \A t \in Entries :
            /\ left[t] \subseteq Direct[t]
            /\ \A d \in left[t] : left[d] # {}
            /\ \A d \in Direct[t] \ left[t] : Told(t, d)
  BY <1>1 DEF RecursionInv, WalkedRight, Graphed
<1>4. ASSUME NEW t \in Entries, Loopless(t), NEW u \in Beneath(t), NEW d \in Direct[u]
      PROVE  Told(u, d)
  <2> DEFINE S == {x \in Beneath(t) : left[x] # {}}
  <2>1. Beneath(t) \subseteq Entries /\ \A x \in Beneath(t) : Direct[x] \subseteq Beneath(t)
    BY <1>3, BeneathIs
  <2>2. ASSUME NEW x \in S PROVE Direct[x] \cap S # {}
    <3>1. x \in Entries /\ left[x] # {} /\ x \in Beneath(t)
      BY <2>1
    <3>2. PICK y : y \in left[x]
      BY <3>1
    <3>3. y \in Direct[x] /\ left[y] # {}
      BY <1>3, <3>1, <3>2
    <3>4. y \in S
      BY <2>1, <3>1, <3>3
    <3> QED
      BY <3>3, <3>4
  <2>3. S \in SUBSET Beneath(t)
    OBVIOUS
  <2> HIDE DEF S
  <2>4. S = {}
    BY <1>4, <2>2, <2>3 DEF Loopless, NoneStuck
  <2>5. left[u] = {}
    BY <2>4 DEF S
  <2> QED
    BY <1>3, <1>4, <2>1, <2>5
<1>5. WalkedRight'
  BY <1>1, <1>2, <1>3, <1>4 DEF WalkedRight, Told
<1>6. RecursedRight'
  BY <1>1, <1>2, <1>3 DEF RecursedRight
<1> QED
  BY <1>5, <1>6 DEF RecursionInv

\* A recursive task is done: the walk has told of all recipes beneath it.
LEMMA RecurseRecursion ==
  ASSUME GraphInv, RecursionInv, NEW t \in again, Recurse(t)
  PROVE  RecursionInv'
<1>1. /\ stage = "recurse" /\ stage' = "recurse" /\ again' = again \ {t}
      /\ UNCHANGED resolution /\ UNCHANGED cumulativedeps
  BY DEF Recurse, Goes, walk
<1>2. /\ Direct' = Direct /\ (\A u : Direct[u]' = Direct[u])
      /\ (\A u : Beneath(u)' = Beneath(u) /\ WantedBy(u)' = WantedBy(u))
      /\ (\A u : Loopless(u)' <=> Loopless(u))
      /\ Entries' = Entries /\ Recursive' = Recursive
  BY <1>1, DirectKept, EntriesKept
<1>3. /\ taskdepends \in [Entries -> SUBSET Entries] /\ t \in Recursive
      /\ Recursive \subseteq Entries
  <2>1. stage \in Graphed
    BY <1>1 DEF Graphed
  <2> QED
    BY <2>1, GraphTyped
<1>4. /\ \A u \in Entries : Direct[u] \subseteq Entries
      /\ \A u \in Entries : Loopless(u) =>
           \A v \in Beneath(u) : \A d \in Direct[v] : Told(v, d)
      /\ \A u \in Entries : Direct[u] \subseteq taskdepends[u]
      /\ \A u \in Recursive \ again : Loopless(u) => WantedBy(u) \subseteq taskdepends[u]
  BY <1>1 DEF RecursionInv, WalkedRight, RecursedRight, Graphed
<1>5. /\ taskdepends' \in [Entries -> SUBSET Entries]
      /\ \A u \in Entries : u # t => taskdepends'[u] = taskdepends[u]
      /\ taskdepends[t] \subseteq taskdepends'[t]
      /\ TasksOf(UNION {cumulativedeps[d] : d \in taskdepends[t]}, RecrDepTask[t[2]]) \ {t}
           \subseteq taskdepends'[t]
  BY <1>3, RecurseIs
<1>6. ASSUME Loopless(t) PROVE WantedBy(t) \subseteq taskdepends'[t]
  <2> DEFINE C == {x \in Beneath(t) : \E d \in Direct[t] : cumulativedeps[x] \subseteq cumulativedeps[d]}
             files == {d[1] : d \in UNION {Direct[u] : u \in Beneath(t)}}
             known == UNION {cumulativedeps[d] : d \in taskdepends[t]}
  <2>1. /\ Direct[t] \subseteq Beneath(t) /\ Beneath(t) \subseteq Entries
        /\ \A u \in Beneath(t) : Direct[u] \subseteq Beneath(t)
        /\ \A D \in SUBSET Entries : Direct[t] \subseteq D /\ (\A u \in D : Direct[u] \subseteq D)
              => Beneath(t) \subseteq D
    BY <1>3, <1>4, BeneathIs
  <2>2. \A u \in Beneath(t) : \A d \in Direct[u] :
          d[1] \in cumulativedeps[u] /\ cumulativedeps[d] \subseteq cumulativedeps[u]
    BY <1>3, <1>4, <1>6 DEF Told
  <2>3. Beneath(t) \subseteq C
    <3>1. Direct[t] \subseteq C /\ C \in SUBSET Entries
      BY <2>1
    <3>2. \A u \in C : Direct[u] \subseteq C
      BY <2>1, <2>2
    <3> HIDE DEF C
    <3> QED
      BY <2>1, <3>1, <3>2
  <2>4. files \subseteq known
    <3> SUFFICES ASSUME NEW u \in Beneath(t), NEW d \in Direct[u] PROVE d[1] \in known
      OBVIOUS
    <3>1. PICK e \in Direct[t] : cumulativedeps[u] \subseteq cumulativedeps[e]
      BY <2>3
    <3>2. e \in taskdepends[t] /\ d[1] \in cumulativedeps[e]
      BY <1>3, <1>4, <2>2, <3>1
    <3> QED
      BY <3>2
  <2>5. WantedBy(t) = TasksOf(files, RecrDepTask[t[2]]) \ {t}
    BY DEF WantedBy
  <2> HIDE DEF files, known
  <2>6. TasksOf(files, RecrDepTask[t[2]]) \subseteq TasksOf(known, RecrDepTask[t[2]])
    BY <2>4 DEF TasksOf
  <2> QED
    BY <1>5, <2>5, <2>6 DEF known
<1>7. WalkedRight'
  BY <1>1, <1>2, <1>4 DEF WalkedRight, Told
<1>8. RecursedRight'
  BY <1>1, <1>2, <1>3, <1>4, <1>5, <1>6 DEF RecursedRight
<1> QED
  BY <1>7, <1>8 DEF RecursionInv

LEMMA RecursedRecursion ==
  ASSUME GraphInv, RecursionInv, Recursed
  PROVE  RecursionInv'
<1>1. /\ stage = "recurse" /\ again = {} /\ UNCHANGED resolution /\ UNCHANGED cumulativedeps
  BY DEF Recursed, Goes, walk
<1>2. /\ Direct' = Direct /\ (\A u : Direct[u]' = Direct[u])
      /\ (\A u : Beneath(u)' = Beneath(u) /\ WantedBy(u)' = WantedBy(u))
      /\ (\A u : Loopless(u)' <=> Loopless(u))
      /\ Entries' = Entries /\ Recursive' = Recursive /\ SelfReferring' = SelfReferring
  BY <1>1, DirectKept, EntriesKept
<1>3. taskdepends \in [Entries -> SUBSET Entries] /\ Recursive \subseteq Entries
  <2>1. stage \in Graphed
    BY <1>1 DEF Graphed
  <2> QED
    BY <2>1, GraphTyped
<1>4. /\ \A u \in Entries : Direct[u] \subseteq Entries
      /\ \A u \in Entries : Loopless(u) =>
           \A v \in Beneath(u) : \A d \in Direct[v] : Told(v, d)
      /\ \A u \in Entries : Direct[u] \subseteq taskdepends[u]
      /\ \A u \in Recursive : Loopless(u) => WantedBy(u) \subseteq taskdepends[u]
  BY <1>1 DEF RecursionInv, WalkedRight, RecursedRight, Graphed
<1>5. /\ stage' = "recurse" => taskdepends' = taskdepends /\ again' = Recursive
      /\ stage' = "mark" => \A u \in Entries :
           taskdepends'[u] = taskdepends[u] \ (IF u \in SelfReferring THEN SelfReferring ELSE {})
      /\ stage' \in {"recurse", "mark"}
  BY <1>3, RecursedIs
<1>6. WalkedRight'
  BY <1>1, <1>2, <1>4, <1>5 DEF WalkedRight, Told
<1>7. RecursedRight'
  <2>1. CASE stage' = "recurse"
    BY <1>2, <1>4, <1>5, <2>1 DEF RecursedRight
  <2>2. CASE stage' = "mark"
    <3>1. \A u \in Recursive : Loopless(u) =>
            WantedBy(u) \ (IF u \in SelfReferring THEN SelfReferring ELSE {})
              \subseteq taskdepends'[u]
      BY <1>3, <1>4, <1>5, <2>2
    <3> QED
      BY <1>2, <2>2, <3>1 DEF RecursedRight
  <2> QED
    BY <1>5, <2>1, <2>2
<1> QED
  BY <1>6, <1>7 DEF RecursionInv

\* Nothing later adds dependencies, or takes them away.
LEMMA SettledRecursion ==
  ASSUME RecursionInv, UNCHANGED resolution, UNCHANGED taskdepends,
         stage \in Graphed \ {"walk", "recurse"}, stage' \in Graphed \ {"walk", "recurse"}
  PROVE  RecursionInv'
<1>1. /\ Direct' = Direct /\ (\A u : Direct[u]' = Direct[u])
      /\ (\A u : Beneath(u)' = Beneath(u) /\ WantedBy(u)' = WantedBy(u))
      /\ (\A u : Loopless(u)' <=> Loopless(u))
      /\ Entries' = Entries /\ Recursive' = Recursive /\ SelfReferring' = SelfReferring
  BY DirectKept, EntriesKept
<1>2. WalkedRight'
  BY <1>1 DEF RecursionInv, WalkedRight
<1>3. RecursedRight'
  BY <1>1 DEF RecursionInv, RecursedRight
<1> QED
  BY <1>2, <1>3 DEF RecursionInv

LEMMA StutterRecursion ==
  ASSUME RecursionInv, UNCHANGED <<taskdatavars, preparevars>>
  PROVE  RecursionInv'
<1>1. /\ UNCHANGED resolution
      /\ UNCHANGED <<stage, taskdepends, cumulativedeps, left, ends, again>>
  BY DEF taskdatavars, preparevars, resolution, walk, recursion
<1>2. /\ Direct' = Direct /\ (\A u : Direct[u]' = Direct[u])
      /\ (\A u : Beneath(u)' = Beneath(u) /\ WantedBy(u)' = WantedBy(u))
      /\ (\A u : Loopless(u)' <=> Loopless(u))
      /\ Entries' = Entries /\ Recursive' = Recursive /\ SelfReferring' = SelfReferring
  BY <1>1, DirectKept, EntriesKept
<1>3. WalkedRight'
  BY <1>1, <1>2 DEF RecursionInv, WalkedRight, Told
<1>4. RecursedRight'
  BY <1>1, <1>2 DEF RecursionInv, RecursedRight
<1> QED
  BY <1>3, <1>4 DEF RecursionInv

LEMMA RecursionInvStep ==
  ASSUME Reasons, GraphInv, RecursionInv, [PrepareNext]_<<taskdatavars, preparevars>>
  PROVE  RecursionInv'
<1>1. GraphInv'
  BY GraphInvStep
<1>2. CASE TaskDataNext
  <2>1. stage' \notin Graphed
    <3>1. stage' \in {"targets", "build", "run", "resolved", "NoProvider"}
      BY <1>2, TaskDataBefore DEF GraphInv, GraphTypeOK
    <3> QED
      BY <3>1 DEF Graphed, Checked, Weighing
  <2> QED
    BY <2>1 DEF RecursionInv, WalkedRight, RecursedRight, Graphed
<1>3. CASE ResolveDepends \/ WalkUp \/ WalkedUp \/ (\E t \in again : Recurse(t)) \/ Recursed
  BY <1>1, <1>3, ResolveDependsRecursion, WalkUpRecursion, WalkedUpRecursion,
     RecurseRecursion, RecursedRecursion
<1>4. CASE MarkAndPrune \/ RunAll \/ RunOnly \/ CheckGraph \/ Weigh \/ Weighed
  <2>1. UNCHANGED resolution /\ UNCHANGED taskdepends
    <3>1. CASE MarkAndPrune
      BY <3>1 DEF MarkAndPrune, Goes
    <3>2. CASE RunAll
      BY <3>2 DEF RunAll, Goes
    <3>3. CASE RunOnly
      BY <3>3 DEF RunOnly, Goes
    <3>4. CASE CheckGraph
      BY <3>4 DEF CheckGraph, Goes
    <3>5. CASE Weigh
      BY <3>5 DEF Weigh, Goes
    <3>6. CASE Weighed
      BY <3>6 DEF Weighed, Goes, preparevars
    <3> QED
      BY <1>4, <3>1, <3>2, <3>3, <3>4, <3>5, <3>6
  <2>2. /\ stage \in {"mark", "runall", "runonly", "check", "weigh"}
        /\ stage' \in {"runall", "no such task", "KeyError", "no tasks of the name", "runonly",
                       "check", "please report", "incomplete", "loop", "weigh", "prepared"}
    <3>1. CASE MarkAndPrune
      BY <3>1 DEF MarkAndPrune, Goes
    <3>2. CASE RunAll
      BY <3>2 DEF RunAll, Goes
    <3>3. CASE RunOnly
      BY <3>3 DEF RunOnly, Goes
    <3>4. CASE CheckGraph
      BY <3>4 DEF CheckGraph, Goes
    <3>5. CASE Weigh
      BY <3>5 DEF Weigh, Goes
    <3>6. CASE Weighed
      BY <3>6 DEF Weighed, Goes
    <3> QED
      BY <1>4, <3>1, <3>2, <3>3, <3>4, <3>5, <3>6
  <2>3. stage \in Graphed \ {"walk", "recurse"} /\ stage' \in Graphed \ {"walk", "recurse"}
    BY <2>2 DEF Graphed, Checked, Weighing
  <2> QED
    BY <2>1, <2>3, SettledRecursion
<1>5. CASE UNCHANGED <<taskdatavars, preparevars>>
  BY <1>5, StutterRecursion
<1> QED
  BY <1>2, <1>3, <1>4, <1>5, PrepareNextIs DEF LaterSteps

\* What a recursive task wants, with no loop beneath it, is in the graph.
FoundBeneath ==
  stage = "prepared" =>
    \A t \in active \cap Recursive : Unlooped(Direct, Beneath(t)) =>
      WantedBy(t) \ (IF t \in SelfReferring THEN SelfReferring ELSE {}) \subseteq taskdepends[t]

LEMMA InvFindsBeneath ==
  ASSUME GraphInv, RecursionInv
  PROVE  FoundBeneath /\ (Unlooped(Direct, Entries) => RecursionComplete)
<1> SUFFICES ASSUME stage = "prepared"
             PROVE  FoundBeneath /\ (Unlooped(Direct, Entries) => RecursionComplete)
  BY DEF FoundBeneath, RecursionComplete
<1>1. stage \in Graphed \ {"walk", "recurse"}
  BY DEF Graphed, Checked, Weighing
<1>2. \A t \in Recursive : t \in Entries /\ Beneath(t) \in SUBSET Entries
  <2>1. \A u \in Entries : Direct[u] \subseteq Entries
    BY <1>1 DEF RecursionInv, WalkedRight
  <2> QED
    BY <2>1, BeneathIs DEF Recursive
<1>3. \A t \in Recursive : Loopless(t) =>
        WantedBy(t) \ (IF t \in SelfReferring THEN SelfReferring ELSE {}) \subseteq taskdepends[t]
  BY <1>1 DEF RecursionInv, RecursedRight
<1>4. \A t \in Recursive : Unlooped(Direct, Beneath(t)) <=> Loopless(t)
  BY <1>2, UnloopedIs DEF Loopless
<1>5. FoundBeneath
  BY <1>3, <1>4 DEF FoundBeneath
<1>6. ASSUME Unlooped(Direct, Entries) PROVE RecursionComplete
  <2>1. NoneStuck(Direct, Entries)
    BY <1>6, UnloopedIs
  <2>2. \A t \in Recursive : Loopless(t)
    BY <1>2, <2>1 DEF Loopless, NoneStuck
  <2>3. \A t \in active \cap Recursive :
          WantedBy(t) \ (IF t \in SelfReferring THEN SelfReferring ELSE {}) \subseteq taskdepends[t]
    BY <1>3, <2>2
  <2> QED
    BY <2>3 DEF RecursionComplete, WantedBy, Beneath, Direct
<1> QED
  BY <1>5, <1>6

(* A recursive task depends on its named tasks of all recipes beneath it,   *)
(* whatever the recipes: wherever no loop is beneath it, and so as          *)
(* RecursionComplete says when no direct dependencies make a loop           *)
(* (recrdeptask; generate_recdeps, process_endpoints).                      *)
THEOREM RecursionCompleteAlways ==
  RecipesSpec =>
    [](FoundBeneath /\ (Unlooped([u \in Entries |-> DirectDepends(u)], Entries)
                          => RecursionComplete))
<1>1. RecipesOK /\ TaskDataInit /\ PrepareInit => PreparedInv /\ RecursionInv
  <2> SUFFICES ASSUME RecipesOK, TaskDataInit, PrepareInit PROVE PreparedInv /\ RecursionInv
    OBVIOUS
  <2>1. stage \notin Graphed
    BY DEF TaskDataInit, Graphed, Checked, Weighing
  <2>2. RecursionInv
    BY <2>1 DEF RecursionInv, WalkedRight, RecursedRight, Graphed
  <2> QED
    BY <2>2, PreparedInvInit
<1>2. PreparedInv /\ RecursionInv /\ [PrepareNext]_<<taskdatavars, preparevars>>
        => (PreparedInv /\ RecursionInv)'
  <2> SUFFICES ASSUME PreparedInv, RecursionInv, [PrepareNext]_<<taskdatavars, preparevars>>
               PROVE  PreparedInv' /\ RecursionInv'
    OBVIOUS
  <2>1. Reasons /\ GraphInv
    BY DEF PreparedInv
  <2> QED
    BY <2>1, PreparedInvStep, RecursionInvStep
<1>3. PreparedInv /\ RecursionInv =>
        FoundBeneath /\ (Unlooped([u \in Entries |-> DirectDepends(u)], Entries)
                           => RecursionComplete)
  BY InvFindsBeneath DEF PreparedInv, Direct
<1> QED
  BY <1>1, <1>2, <1>3, PTL DEF RecipesSpec
=============================================================================
