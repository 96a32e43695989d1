--------------------------- MODULE BuildSceneQueue ---------------------------
(***************************************************************************)
(* build_scenequeue_data (lib/bb/runqueue.py): how the graph of all tasks   *)
(* of a build is collapsed to one over its setscene tasks.                  *)
(*                                                                          *)
(* Two work lists are walked: the "endpoints", from the top of the graph    *)
(* and from below every setscene task down, handing to each task the        *)
(* setscene tasks that reach it; and the explicit dependencies between      *)
(* setscene variants.  The code walks Python dictionaries and sets, whose   *)
(* order is that of the parsed recipes or none at all, so here every order  *)
(* is possible.  The graph itself is chosen in Init: any acyclic graph over *)
(* the tasks 1..N, any set of them with setscene variants, any acyclic      *)
(* explicit dependencies among those.  What comes out is compared with the  *)
(* definitions of RunQueueData, which is what the executer's model uses.    *)
(***************************************************************************)
EXTENDS Naturals, Sequences, FiniteSets, SequencesExt

CONSTANTS
  N,            \* number of tasks
  MaxHardDeps   \* bound: explicit dependencies between setscene variants

ASSUME SizeAssumption == N \in Nat \ {0} /\ MaxHardDeps \in Nat

Tasks == 1..N

VARIABLES
  depends, setscene, idepends, targets,         \* the input; never change
  phase,
  sq_revdeps, sq_revdeps_squash, sq_collated_deps,
  endpoints, newendpoints,                      \* functions on their keys
  todo,                                         \* points of the round to do
  unskippable, buildable, done,
  harddeps, todepend                            \* sq_harddeps, idepends to do

inputs   == <<depends, setscene, idepends, targets>>
collapse == <<sq_revdeps, sq_revdeps_squash, sq_collated_deps, endpoints,
              newendpoints, todo>>
skipping == <<unskippable, buildable, done>>
vars     == <<inputs, phase, collapse, skipping, harddeps, todepend>>

Graph == INSTANCE RunQueueData WITH
  Tasks <- Tasks, Depends <- depends, SortedSetscene <- SetToSeq(setscene),
  HardDeps <- [s \in setscene |-> {t \in setscene : <<t, s>> \in idepends}],
  Targets <- targets, Fn <- [t \in Tasks |-> t]

Revdeps(t) == {r \in Tasks : t \in depends[r]}

(* endpoints, as the first two loops build it: the plain tasks nothing      *)
(* depends on, with no setscene task above them, and what the setscene      *)
(* tasks depend on, with those.                                             *)
Above(t) == Revdeps(t) \cap setscene
FirstEndpoints ==
  [t \in {u \in Tasks : (Revdeps(u) = {} /\ u \notin setscene) \/ Above(u) # {}}
     |-> Above(t)]

(* Recipes whose setscene variants depend on each other in a circle are     *)
(* wrong, and not for this code to mend.                                    *)
AcyclicRelation(E) ==
  \A S \in SUBSET {e[1] : e \in E} : S # {} =>
    \E s \in S : \A t \in S : <<s, t>> \notin E

Init ==
  /\ depends \in {f \in [Tasks -> SUBSET Tasks] : \A t \in Tasks : f[t] \subseteq 1..(t - 1)}
  /\ setscene \in SUBSET Tasks
  /\ idepends \in {E \in SUBSET (setscene \X setscene) :
                     Cardinality(E) <= MaxHardDeps /\ AcyclicRelation(E)}
  /\ targets \in {{t \in Tasks : Revdeps(t) = {}}, {1}}
  /\ phase = "process"
  /\ sq_revdeps = [t \in Tasks |-> Revdeps(t) \ setscene]
  /\ sq_revdeps_squash = [t \in Tasks |-> {}]
  /\ sq_collated_deps = [t \in setscene |-> {}]
  /\ endpoints = FirstEndpoints
  /\ todo = DOMAIN endpoints
  /\ newendpoints = [t \in {} |-> {}]
  /\ unskippable = {t \in Tasks : Revdeps(t) = {}} \cup (targets \ setscene)
  /\ buildable = {} /\ done = {}
  /\ harddeps = [t \in setscene |-> {}]
  /\ todepend = idepends

-----------------------------------------------------------------------------
(* process_endpoints, one point of its loop.  A setscene task keeps the     *)
(* setscene tasks that reach it; a plain task hands them on to what it      *)
(* depends on, and is collated under each of them.                          *)
\* Mutant: what other points have handed down meanwhile is dropped.
Mutant_ReachedFrom(point) == endpoints[point]
ReachedFrom(point) == endpoints[point] \cup sq_revdeps_squash[point]

KeepPoint(point) ==
  /\ sq_revdeps_squash' = [sq_revdeps_squash EXCEPT ![point] = ReachedFrom(point)]
  /\ UNCHANGED <<sq_collated_deps, sq_revdeps, newendpoints>>

NowReady(point) == {d \in depends[point] \ setscene : sq_revdeps[d] \ {point} = {}}

CollatedUnder(point) == ReachedFrom(point)

PassOnPoint(point) ==
  LET below == depends[point]
      ready == NowReady(point)
  IN  /\ sq_collated_deps' =
           [t \in setscene |-> IF t \in CollatedUnder(point)
                               THEN sq_collated_deps[t] \cup {point}
                               ELSE sq_collated_deps[t]]
      /\ sq_revdeps_squash' =
           [t \in Tasks |-> IF t = point THEN {}
                            ELSE IF t \in below
                            THEN sq_revdeps_squash[t] \cup ReachedFrom(point)
                            ELSE sq_revdeps_squash[t]]
      /\ sq_revdeps' = [t \in Tasks |-> IF t \in below THEN sq_revdeps[t] \ {point}
                                        ELSE sq_revdeps[t]]
      /\ newendpoints' =
           [t \in DOMAIN newendpoints \cup ready |->
              IF t \in ready THEN endpoints[point] ELSE newendpoints[t]]

ProcessEndpoint(point) ==
  /\ phase = "process" /\ point \in todo
  /\ todo' = todo \ {point}
  /\ IF point \in setscene THEN KeepPoint(point) ELSE PassOnPoint(point)
  /\ UNCHANGED <<inputs, phase, endpoints, skipping, harddeps, todepend>>

(* process_endpoints calls itself with the new endpoints, if any.           *)
Emptied(f) == [t \in {} |-> f[t]]

NextRound ==
  /\ phase = "process" /\ todo = {}
  /\ IF DOMAIN newendpoints # {}
     THEN /\ endpoints' = newendpoints /\ todo' = DOMAIN newendpoints
          /\ newendpoints' = Emptied(newendpoints)
          /\ UNCHANGED phase
     ELSE phase' = "unskippable" /\ UNCHANGED <<endpoints, newendpoints, todo>>
  /\ UNCHANGED <<inputs, sq_revdeps, sq_revdeps_squash, sq_collated_deps, skipping,
                 harddeps, todepend>>

-----------------------------------------------------------------------------
(* One round of the "while new" loop; when nothing changed, the tasks found *)
(* that are not setscene tasks are settled, and the sanity check is made.   *)
UnskippableRound ==
  /\ phase = "unskippable"
  /\ LET plain == unskippable \ setscene
     IN  /\ unskippable' = unskippable \cup UNION {depends[t] : t \in plain}
         /\ buildable' = buildable \cup {t \in plain : depends[t] = {}}
         /\ IF unskippable' # unskippable
            THEN UNCHANGED <<phase, done>>
            ELSE /\ done' = done \cup (unskippable' \ setscene)
                 /\ phase' = IF \E t \in Tasks \ setscene : sq_revdeps_squash[t] # {}
                             THEN "fatal" ELSE "harddeps"
  /\ UNCHANGED <<inputs, collapse, harddeps, todepend>>

(* tid_setscene explicitly depends on dep_setscene.                         *)
ZeroRevdeps(squash, dep) == [squash EXCEPT ![dep] = {}]

AddHardDep(tid, dep) ==
  /\ phase = "harddeps" /\ <<tid, dep>> \in todepend
  /\ harddeps' = [harddeps EXCEPT ![dep] = @ \cup {tid}]
  /\ sq_revdeps_squash' =
       ZeroRevdeps([sq_revdeps_squash EXCEPT ![tid] = @ \cup {dep}], dep)
  /\ todepend' = todepend \ {<<tid, dep>>}
  /\ UNCHANGED <<inputs, phase, sq_revdeps, sq_collated_deps, endpoints, newendpoints,
                 todo, skipping>>

(* Zeroing may have lost some of what was just added: put it back.          *)
RestoreHardDeps ==
  /\ phase = "harddeps" /\ todepend = {}
  /\ sq_revdeps_squash' =
       [t \in Tasks |-> sq_revdeps_squash[t] \cup {d \in setscene : t \in harddeps[d]}]
  /\ phase' = "done"
  /\ UNCHANGED <<inputs, sq_revdeps, sq_collated_deps, endpoints, newendpoints, todo,
                 skipping, harddeps, todepend>>

Finished == phase \in {"done", "fatal"} /\ UNCHANGED vars

Next ==
  \/ \E point \in Tasks : ProcessEndpoint(point)
  \/ NextRound \/ UnskippableRound
  \/ \E tid, dep \in Tasks : AddHardDep(tid, dep)
  \/ RestoreHardDeps \/ Finished

Spec == Init /\ [][Next]_vars /\ WF_vars(Next)

-----------------------------------------------------------------------------
(* "Something went badly wrong during scenequeue generation": no setscene   *)
(* task is ever left hanging on a plain one.                                *)
NeverFatal == phase # "fatal"

(* Whatever the order, the collapsed graph is the one RunQueueData defines: *)
(* tasks are covered by the setscene tasks that reach them through plain    *)
(* tasks, and so on.                                                        *)
CollapsedCorrectly ==
  phase = "done" =>
    /\ sq_collated_deps = Graph!SqCoveredTasks
    /\ [s \in setscene |-> sq_revdeps_squash[s]] = Graph!SqRevdeps
    /\ unskippable = Graph!Unskippable
    /\ done = Graph!Unskippable \ setscene
    /\ buildable = {t \in Graph!Unskippable \ setscene : depends[t] = {}}

(* The collapsed graph has no circular dependency, so that every setscene   *)
(* task becomes buildable once those above it are settled.                  *)
SceneQueueAcyclic ==
  phase = "done" =>
    \A S \in SUBSET setscene : S # {} =>
      \E s \in S : sq_revdeps_squash[s] \cap S = {}

(* No task falls through: each one has a setscene variant, or must run, or  *)
(* is covered by a setscene task (the executer fails a build that has       *)
(* another kind: "Task %s was never moved from the setscene queue").        *)
EveryTaskDecided ==
  phase = "done" =>
    Tasks = setscene \cup unskippable \cup UNION {sq_collated_deps[s] : s \in setscene}

(* The collapse comes to a result, and it is the right one                  *)
(* (build_scenequeue_data).                                                 *)
CollapseIsRight == NeverFatal /\ CollapsedCorrectly /\ SceneQueueAcyclic /\ EveryTaskDecided

(* The end, which the recursion of process_endpoints must come to.          *)
Collapsed == phase \in {"done", "fatal"}

=============================================================================
