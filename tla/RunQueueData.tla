---------------------------- MODULE RunQueueData ----------------------------
(***************************************************************************)
(* The static side of a BitBake run: what RunQueueData.prepare() hands to   *)
(* the executer (lib/bb/runqueue.py).                                       *)
(*                                                                          *)
(* A task identifier (tid) is a model value.  The acyclic graph of          *)
(* runtaskentries is the function Depends; which tasks also have a          *)
(* _setscene variant (that is, may be restored from shared state instead of *)
(* being run) is the sorted sequence SortedSetscene.                        *)
(*                                                                          *)
(* build_scenequeue_data() collapses that graph to one over the setscene    *)
(* tasks alone.  The operators SqCoveredTasks, SqRevdeps, SqDeps and        *)
(* Unskippable state what it computes; the module BuildSceneQueue follows   *)
(* its worklist step by step and is checked against them.                   *)
(***************************************************************************)
EXTENDS Naturals, Sequences, FiniteSets

CONSTANTS
  Tasks,           \* rqdata.runtaskentries
  Depends,         \* Depends[t]: runtaskentries[t].depends
  SortedSetscene,  \* sorted(rqdata.runq_setscene_tids)
  HardDeps,        \* HardDeps[d]: setscene tasks with an explicit [depends] on d_setscene
  Targets,         \* rqdata.target_tids
  Fn               \* Fn[t]: the recipe file of the task

Setscene == {SortedSetscene[i] : i \in 1..Len(SortedSetscene)}

ASSUME DependsAssumption ==
  /\ IsFiniteSet(Tasks)
  /\ Depends \in [Tasks -> SUBSET Tasks]

\* prepare() refuses a run whose dependencies are circular
\* (circular_depchains_handler).
ASSUME AcyclicAssumption ==
  \A S \in SUBSET Tasks : S # {} => \E t \in S : Depends[t] \cap S = {}

ASSUME SetsceneAssumption ==
  /\ Setscene \subseteq Tasks
  /\ \A i, j \in 1..Len(SortedSetscene) :
        SortedSetscene[i] = SortedSetscene[j] => i = j
  /\ HardDeps \in [Setscene -> SUBSET Setscene]
  /\ Targets \subseteq Tasks

-----------------------------------------------------------------------------
Revdeps(t) == {r \in Tasks : t \in Depends[r]}

DependsOfAll(S) == UNION {Depends[t] : t \in S}

(* The least set that contains S and, with t, all of next[t].               *)
Closure(next, S) ==
  LET grow[D \in SUBSET DOMAIN next] ==
        LET more == UNION {next[t] : t \in D}
        IN  IF more \subseteq D THEN D ELSE grow[D \cup more]
  IN  grow[S]

(* The non-setscene tasks among S, and all those reached from them without  *)
(* passing a setscene task.                                                 *)
PlainClosure(S) == Closure([t \in Tasks |-> Depends[t] \ Setscene], S \ Setscene)

(* The tasks that need not run once the setscene variant of s has: those    *)
(* between s and the next setscene tasks below it.                          *)
SqCoveredTasks == [s \in Setscene |-> PlainClosure(Depends[s])]

(* The setscene tasks that reach s through plain tasks only.                *)
SquashedRevdeps(s) ==
  {r \in Setscene : s \in Depends[r] \cup DependsOfAll(SqCoveredTasks[r])}

(* A task that others explicitly depend upon loses its reverse dependencies *)
(* (to avoid circular ones); a task gains the tasks it depends upon.        *)
SqRevdeps ==
  [s \in Setscene |->
     (IF HardDeps[s] = {} THEN SquashedRevdeps(s) ELSE {})
       \cup {d \in Setscene : s \in HardDeps[d]}]

SqDeps == [s \in Setscene |-> {d \in Setscene : s \in SqRevdeps[d]}]

(* Targets that are not setscene tasks cannot be skipped.                   *)
CantSkip == Targets \ Setscene

Endpoints == {t \in Tasks : Revdeps(t) = {}}

(* The build's endpoints and all they reach, up to and including the first  *)
(* setscene tasks on the way down.                                          *)
Unskippable ==
  Closure([t \in Tasks |-> IF t \in Setscene THEN {} ELSE Depends[t]],
          Endpoints \cup CantSkip)

=============================================================================
