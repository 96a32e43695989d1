--------------------------- MODULE PrepareRunQueue ---------------------------
(***************************************************************************)
(* RunQueueData.prepare (lib/bb/runqueue.py): from the recipes of a build   *)
(* to the graph of its tasks, after TaskData has found the recipes.         *)
(*                                                                          *)
(* A task is a pair of file and name.  Its dependencies are resolved to     *)
(* tasks, recursive ones (recrdeptask) from the recipes that can be reached *)
(* and then again until nothing is added; what the targets do not need is   *)
(* pruned; --runall puts tasks back and --runonly takes others away; and    *)
(* the graph that is left is weighed, which finds its loops.                *)
(*                                                                          *)
(* --runall and --runonly name one task.  Not modelled: the warning about   *)
(* several providers of one name, and the invalidation of stamps.           *)
(***************************************************************************)
EXTENDS TaskData

CONSTANTS
  (* the flags of a task of each name: sets of names *)
  Parents,         \* addtask ... after
  DepTask, RDepTask, RecrDepTask, RecIDepTask

VARIABLES
  request,         \* [task, parents]: the task asked for; "-": what it needs
  runall, runonly, \* names of tasks, or None
  taskdepends,     \* runtaskentries[t].depends, of pruned ones (delcount) too
  active,          \* the keys of runtaskentries
  cumulativedeps, left, ends, \* the walk up: recipes below; deps; endpoints
  again, extradeps,           \* tasks to do in this round; was any added?
  weight, revdepsleft         \* deps_left

command      == <<request, runall, runonly>>
walk         == <<cumulativedeps, left, ends>>
recursion    == <<again, extradeps>>
weights      == <<weight, revdepsleft>>
preparevars  == <<command, taskdepends, active, walk, recursion, weights>>
\* of TaskData, all but the stage
resolution   == <<recipes, data, waiting, added, adding, cascade, runlist>>

\* Every task of the recipes found, failed ones too (taskentries).
Entries == {t \in Files \X Names : t[1] \in seenfns /\ t[2] \in tasks[t[1]]}

TasksOf(fs, names) == (fs \X names) \cap Entries
DependsOf(S) == UNION {taskdepends[t] : t \in S}

\* All that can be reached in depends from S, with S.
Reach(depends, S) ==
  LET down[D \in SUBSET Entries] ==
        LET more == UNION {depends[t] : t \in D}
        IN  IF more \subseteq D THEN D ELSE down[D \cup more]
  IN  down[S]

PrepareInit ==
  /\ taskdepends = [t \in {} |-> {}] /\ active = {}
  /\ cumulativedeps = taskdepends /\ left = taskdepends /\ ends = {}
  /\ again = {} /\ extradeps = FALSE
  /\ weight = taskdepends /\ revdepsleft = taskdepends

-----------------------------------------------------------------------------
(* The dependencies a task names itself                                     *)

\* add_build_dependencies, add_runtime_dependencies
Providers(items) == {provided[i][1] : i \in {j \in items : Has(j)}}

\* The [depends] and [rdepends] of the task
Intertask(t) ==
  {<<provided[d[2]][1], d[3]>> :
     d \in {e \in taskdeps[t[1]] :
              /\ e[1] = t[2] /\ Has(e[2])
              /\ e[2] \in BuildItems => e[2] \notin failed_deps}}

DirectDepends(t) ==
  LET f == t[1]
      n == t[2]
      named == TasksOf({f}, Parents[n])
        \cup TasksOf(Providers(deps[f] \cap BuildItems), DepTask[n] \cup RecrDepTask[n])
        \cup TasksOf(Providers(deps[f] \cap RunItems), RDepTask[n] \cup RecrDepTask[n])
        \cup Intertask(t)
  IN  IF f \in failed_fns THEN {} ELSE named \ {t}

Recursive == {t \in Entries : t[1] \notin failed_fns /\ RecrDepTask[t[2]] # {}}
SelfReferring == {t \in Recursive : t[2] \in RecrDepTask[t[2]]}

Goes(s) == stage' = s /\ UNCHANGED resolution

ResolveDepends ==
  /\ stage = "resolved"
  /\ IF Entries = {} THEN Goes("nothing to do") /\ UNCHANGED <<taskdepends, active, walk>>
     ELSE IF \E t \in Entries : t[1] \notin failed_fns /\ ~(Intertask(t) \subseteq Entries)
     THEN Goes("non-existent task") /\ UNCHANGED <<taskdepends, active, walk>>
     ELSE /\ Goes("walk")
          /\ taskdepends' = [t \in Entries |-> DirectDepends(t)]
          /\ active' = Entries
          /\ cumulativedeps' = [t \in Entries |-> {}]
          /\ left' = taskdepends'
          /\ ends' = {t \in Entries : taskdepends'[t] = {}}
  /\ UNCHANGED <<command, recursion, weights>>

-----------------------------------------------------------------------------
(* Recursive dependencies                                                   *)

\* One turn of "while endpoints".
\* Mutant: what is below the task just left is not handed up.
Mutant_HandedUp(t) == {t[1]}
HandedUp(t) == {t[1]} \cup cumulativedeps[t]

WalkUp ==
  /\ stage = "walk" /\ ends # {}
  /\ cumulativedeps' = [t \in Entries |->
       cumulativedeps[t] \cup UNION {HandedUp(e) : e \in taskdepends[t] \cap ends}]
  /\ left' = [t \in Entries |-> left[t] \ ends]
  /\ ends' = {t \in Entries : taskdepends[t] \cap ends # {} /\ left'[t] = {}}
  /\ Goes("walk")
  /\ UNCHANGED <<command, taskdepends, active, recursion, weights>>

WalkedUp ==
  /\ stage = "walk" /\ ends = {}
  /\ again' = Recursive /\ extradeps' = FALSE
  /\ Goes("recurse")
  /\ UNCHANGED <<command, taskdepends, active, walk, weights>>

\* Mutant: what was there before is counted again.
Mutant_Adds(new, old) == new # {}
Adds(new, old) == new # old

\* One task of the loop.  The second part takes over what other recursive
\* tasks depend on.
Recurse(t) ==
  LET names == RecrDepTask[t[2]]
      itasks == TasksOf({t[1]}, RecIDepTask[t[2]])
      total == taskdepends[t] \cup itasks \cup DependsOf(itasks)
      found == taskdepends[t]
        \cup (TasksOf(UNION {cumulativedeps[d] : d \in total}, names) \ {t})
      taken == {d \in DependsOf(found \cap Recursive) : d[2] \in names}
  IN  /\ stage = "recurse"
      /\ again' = again \ {t}
      /\ taskdepends' = [taskdepends EXCEPT ![t] = found \cup taken]
      /\ extradeps' = (extradeps \/ Adds(found \cup taken, taskdepends[t]))
      /\ Goes("recurse")
      /\ UNCHANGED <<command, active, walk, weights>>

Recursed ==
  /\ stage = "recurse" /\ again = {}
  /\ IF extradeps
     THEN /\ again' = Recursive /\ extradeps' = FALSE /\ Goes("recurse")
          /\ UNCHANGED taskdepends
     ELSE /\ taskdepends' = [t \in Entries |-> IF t \in SelfReferring
                                               THEN taskdepends[t] \ SelfReferring
                                               ELSE taskdepends[t]]
          /\ Goes("mark") /\ UNCHANGED recursion
  /\ UNCHANGED <<command, active, walk, weights>>

-----------------------------------------------------------------------------
(* The tasks asked for                                                      *)

\* target_tids.  The file is the one found first, long before.
Targeted ==
  {<<r[2], request.task>> :
     r \in {q \in runlist : Has(q[1]) /\ q[1] \notin failed_deps /\ q[2] \notin failed_fns}}

\* Mutant: the task itself is built with -c task- too.
Mutant_Marked == Targeted
Marked == IF request.parents THEN DependsOf(Targeted) ELSE Targeted

\* Steps B and C
MarkAndPrune ==
  /\ stage = "mark"
  /\ IF Targeted \subseteq Entries
     THEN /\ active' = Reach(taskdepends, Marked)
          /\ Goes("runall")
     ELSE Goes("no such task") /\ UNCHANGED active
  /\ UNCHANGED <<command, taskdepends, walk, recursion, weights>>

\* --runall: the task of every recipe of the graph, pruned or not.  Marking
\* looks its dependencies up in the graph, where pruned ones are not found.
RunallTids == TasksOf({t[1] : t \in active}, {runall})

RunAll ==
  /\ stage = "runall"
  /\ IF runall = None THEN Goes("runonly") /\ UNCHANGED active
     ELSE LET marked == Reach(taskdepends, RunallTids)
          IN  IF ~(marked \subseteq active \cup RunallTids)
              THEN Goes("KeyError") /\ UNCHANGED active
              ELSE /\ active' = marked
                   /\ Goes(IF marked = {} THEN "no tasks of the name" ELSE "runonly")
  /\ UNCHANGED <<command, taskdepends, walk, recursion, weights>>

\* --runonly: of the graph, the task of that name and what it needs.
RunOnly ==
  /\ stage = "runonly"
  /\ IF runonly = None THEN Goes("check") /\ UNCHANGED active
     ELSE /\ active' = Reach(taskdepends, {t \in active : t[2] = runonly})
          /\ Goes(IF active' = {} THEN "no tasks of the name" ELSE "check")
  /\ UNCHANGED <<command, taskdepends, walk, recursion, weights>>

-----------------------------------------------------------------------------
(* Step D: what is left must be a graph without loops.                      *)

Waiters(t) == {r \in active : t \in taskdepends[r]}
TopTasks  == {t \in active : Waiters(t) = {}}

CheckGraph ==
  /\ stage = "check"
  /\ IF active = {}
     THEN /\ Goes(IF mode = "abort" THEN "please report" ELSE "incomplete")
          /\ UNCHANGED <<weights, ends>>
     ELSE IF \E t \in active : Waiters(t) \cap taskdepends[t] # {}
     THEN Goes("loop") /\ UNCHANGED <<weights, ends>>
     ELSE /\ Goes("weigh")
          /\ weight' = [t \in active |-> IF t \in TopTasks THEN 10 ELSE 1]
          /\ revdepsleft' = [t \in active |-> Cardinality(Waiters(t))]
          /\ ends' = TopTasks
  /\ UNCHANGED <<command, taskdepends, active, cumulativedeps, left, recursion>>

\* calculate_task_weights: one turn of its loop; its end.
Weigh ==
  /\ stage = "weigh" /\ ends # {}
  /\ weight' = [t \in active |->
       weight[t] + FoldFunctionOnSet(+, 0, weight, Waiters(t) \cap ends)]
  /\ revdepsleft' = [t \in active |->
       revdepsleft[t] - Cardinality(Waiters(t) \cap ends)]
  /\ ends' = {t \in active : Waiters(t) \cap ends # {} /\ revdepsleft'[t] = 0}
  /\ Goes("weigh")
  /\ UNCHANGED <<command, taskdepends, active, cumulativedeps, left, recursion>>

Weighed ==
  /\ stage = "weigh" /\ ends = {}
  /\ Goes(IF \A t \in active : revdepsleft[t] = 0 THEN "prepared" ELSE "loop")
  /\ UNCHANGED preparevars

\* How it may end: with a graph, an exception or a message.
Outcomes == {"prepared", "nothing to do", "NoProvider", "non-existent task",
             "no such task", "KeyError", "no tasks of the name", "please report",
             "incomplete", "loop"}

PrepareNext ==
  \/ TaskDataNext /\ UNCHANGED preparevars
  \/ ResolveDepends \/ WalkUp \/ WalkedUp
  \/ \E t \in again : Recurse(t)
  \/ Recursed \/ MarkAndPrune \/ RunAll \/ RunOnly \/ CheckGraph \/ Weigh \/ Weighed
  \/ stage \in Outcomes /\ UNCHANGED <<taskdatavars, preparevars>>

-----------------------------------------------------------------------------
(* Properties                                                               *)

PrepareTypeOK ==
  /\ stage \in Outcomes \cup {"targets", "build", "run", "resolved", "walk", "recurse",
                             "mark", "runall", "runonly", "check", "weigh"}
  /\ active \subseteq DOMAIN taskdepends /\ again \subseteq DOMAIN taskdepends
  /\ DOMAIN weight \subseteq active

\* No set of tasks of S wait for each other: each round can do some.
Unlooped(depends, S) ==
  LET peel[D \in SUBSET Entries] ==
        LET free == {t \in D : depends[t] \cap D = {}}
        IN  IF free = {} THEN D = {} ELSE peel[D \ free]
  IN  peel[S]

(* A graph that is accepted has no loop, so that every task can run, and a  *)
(* task weighs more than those waiting for it; one that is refused does     *)
(* have a loop (calculate_task_weights and the check for loops of two).     *)
LoopsRefused ==
  /\ stage = "prepared" =>
       /\ Unlooped(taskdepends, active)
       /\ \A t \in active, d \in Entries :
            d \in taskdepends[t] => d \in active /\ weight[d] > weight[t]
  /\ stage = "loop" => ~Unlooped(taskdepends, active)

(* sometask[recrdeptask] = "someothertask" "makes sure sometask runs after  *)
(* someothertask of all DEPENDS, RDEPENDS and intertask dependencies,       *)
(* recursively", also where recipes need each other to run, so that their   *)
(* recursive tasks would wait for each other and cannot.                    *)
RecursionComplete ==
  stage = "prepared" =>
    LET direct == [u \in Entries |-> DirectDepends(u)]
    IN  \A t \in active \cap Recursive :
          LET names  == RecrDepTask[t[2]]
              below  == UNION {direct[d] : d \in Reach(direct, direct[t])}
              wanted == TasksOf({d[1] : d \in below}, names) \ {t}
          IN  wanted \ (IF t \in SelfReferring THEN SelfReferring ELSE {})
                \subseteq taskdepends[t]

(* What nothing else in the graph waits for was asked for: nothing is built *)
(* in vain (mark_active, --runall, --runonly).                              *)
OnlyNeeded ==
  stage = "prepared" =>
    \A t \in TopTasks :
      IF runonly # None THEN t[2] = runonly
      ELSE IF runall # None THEN t[2] = runall
      ELSE IF request.parents THEN t \in DependsOf(Targeted)
      ELSE t \in Targeted

(* A build that is to abort rather than leave out a target has all of them. *)
NoTargetLost ==
  mode = "abort" /\ ~request.parents /\ (\A i \in Items : Len(eligible[i]) <= 1) =>
    /\ stage # "please report"
    /\ stage = "prepared" /\ runall = None /\ runonly = None =>
         \A i \in required \ assumed : <<eligible[i][1], request.task>> \in active

(* Each file fails for a reason, and none that cannot be built is left in   *)
(* (fail_fn, remove_buildtarget, remove_runtarget, add_unresolved).         *)
ProvidersResolved == TaskDataTypeOK /\ OnlyHopelessFailed /\ HopelessFailed

(* The graph of the tasks is the one that was asked for (prepare).          *)
GraphPrepared ==
  PrepareTypeOK /\ LoopsRefused /\ OnlyNeeded /\ NoTargetLost
=============================================================================
