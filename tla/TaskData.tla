------------------------------ MODULE TaskData ------------------------------
(***************************************************************************)
(* From the targets on the command line to the recipes of a build           *)
(* (BBCooker.buildTaskData, lib/bb/cooker.py, and lib/bb/taskdata.py).      *)
(*                                                                          *)
(* Items are what recipes (files) depend on, by DEPENDS or [depends]        *)
(* (BuildItems), by RDEPENDS or [rdepends] (RunItems).  Each gets its       *)
(* providers; their dependencies are new items, until nothing new is seen.  *)
(* What cannot be provided takes the files that need it out, these the      *)
(* items they alone provide, and so on: fail_fn, remove_buildtarget and     *)
(* remove_runtarget call each other, and `cascade` is their stack.  A       *)
(* required target that is lost on the way raises an exception from the     *)
(* middle of it, if the build is to abort.                                  *)
(*                                                                          *)
(* Which providers are eligible, and their order, is filterProviders' to    *)
(* say; an item of which it cannot choose one (MultipleRProvider) counts as *)
(* one with none.  Dictionaries and sets are walked in any order.  There is *)
(* one multiconfig.                                                         *)
(***************************************************************************)
EXTENDS Naturals, Sequences, FiniteSets, SequencesExt

CONSTANTS
  Files, BuildItems, RunItems,
  Names            \* of tasks

Items == BuildItems \cup RunItems
None  == "none"

ASSUME TaskDataAssumption ==
  /\ None \notin Items /\ BuildItems \cap RunItems = {}
  /\ IsFiniteSet(Files) /\ IsFiniteSet(Names)

VARIABLES
  (* the recipes and the command: never change *)
  tasks,           \* tasks[f]: the names of f's tasks
  deps,            \* deps[f]: its DEPENDS and RDEPENDS
  taskdeps,        \* taskdeps[f]: <<n, i, m>>, its task n needs task m of item i
  eligible,        \* eligible[i]: the providers of i, the preferred one first
  assumed,         \* ASSUME_PROVIDED
  required,        \* the targets asked for
  mode,            \* "abort", "continue" (-k) or "incomplete" (data only)
  (* TaskData *)
  provided,        \* build_targets and run_targets: item -> providers added
  seenfns, external_targets, failed_fns,
  failed_deps,     \* with failed_rdeps
  (* where buildTaskData is *)
  stage, waiting,  \* the items of the stage still to do
  added,           \* has this round of add_unresolved resolved anything?
  adding,          \* the item add_provider is about, and its files to add
  cascade,
  runlist          \* <<item, its first provider at the time>>

recipes      == <<tasks, deps, taskdeps, eligible, assumed, required, mode>>
data         == <<provided, seenfns, external_targets, failed_fns, failed_deps>>
taskdatavars == <<recipes, data, stage, waiting, added, adding, cascade, runlist>>

NotAdding == [item |-> None, left |-> <<>>]
Frame(op, what, left) == [op |-> op, what |-> what, left |-> left]

Has(i)     == i \in DOMAIN provided /\ provided[i] # <<>>
Asks(f)    == {d[2] : d \in taskdeps[f]}
Needs(f)   == deps[f] \cup Asks(f)
\* get_dependees, get_rdependees and the [depends] of tasks
Dependees(i) == {f \in seenfns : i \in Needs(f)}

\* get_unresolved_build_targets, get_unresolved_run_targets
Unresolved(kind) ==
  {i \in (DOMAIN provided \cap kind) \ (assumed \cup failed_deps) : provided[i] = <<>>}

\* seen_build_target, seen_run_target
WithSeen(S, p) == [i \in DOMAIN p \cup S |-> IF i \in DOMAIN p THEN p[i] ELSE <<>>]
\* add_build_target, add_runtime_target
WithProvider(i, f) ==
  [WithSeen({i}, provided) EXCEPT ![i] = IF f \in ToSet(@) THEN @ ELSE Append(@, f)]

TaskDataInit ==
  /\ provided = [i \in {} |-> <<>>]
  /\ seenfns = {} /\ external_targets = {} /\ failed_fns = {} /\ failed_deps = {}
  /\ stage = "targets" /\ waiting = required /\ added = FALSE
  /\ adding = NotAdding /\ cascade = <<>> /\ runlist = {}

-----------------------------------------------------------------------------
(* What is to be done when an item fails: first of all the item is marked.  *)
RemoveItem(i, below) ==
  /\ failed_deps' = failed_deps \cup {i}
  /\ cascade' = <<Frame("remove", i, Dependees(i))>> \o below

(* add_provider or add_rprovider is called for the next item of the stage.  *)
Turn(i) ==
  /\ stage # "NoProvider"
  /\ adding = NotAdding /\ cascade = <<>> /\ i \in waiting
  /\ waiting' = waiting \ {i}

Candidates(i) == ToSet(eligible[i]) \ failed_fns

\* It returned: the target is one asked for, or the round has resolved one.
Returned(i) ==
  IF stage = "targets"
  THEN /\ external_targets' = external_targets \cup {i}
       /\ runlist' = IF Has(i) THEN runlist \cup {<<i, provided[i][1]>>} ELSE runlist
       /\ UNCHANGED added
  ELSE added' = TRUE /\ UNCHANGED <<external_targets, runlist>>

NothingToAdd(i) ==
  /\ Turn(i) /\ (i \in assumed \/ Has(i)) /\ Returned(i)
  /\ UNCHANGED <<recipes, provided, seenfns, failed_fns, failed_deps, stage, adding,
                 cascade>>

\* The loop over the files passes over those that have failed (AddFile).
AddProvider(i) ==
  /\ Turn(i) /\ i \notin assumed /\ ~Has(i) /\ Candidates(i) # {}
  /\ adding' = [item |-> i, left |-> eligible[i]]
  /\ UNCHANGED <<recipes, data, stage, added, cascade, runlist>>

\* The handlers of NoProvider that let it pass: those of add_provider and of
\* add_unresolved.  (A required target is only unresolved when it is assumed.)
Passes(i) == mode = "abort" /\ (stage = "targets" \/ i \in external_targets)

NoProvider(i) ==
  /\ Turn(i) /\ i \notin assumed /\ ~Has(i) /\ Candidates(i) = {}
  /\ IF Passes(i)
     THEN stage' = "NoProvider" /\ UNCHANGED <<external_targets, failed_deps, cascade>>
     ELSE /\ external_targets' =
               IF stage = "targets" THEN external_targets \cup {i} ELSE external_targets
          /\ IF mode = "incomplete" /\ stage = "build"
             THEN UNCHANGED <<failed_deps, cascade>>
             ELSE RemoveItem(i, <<>>)
          /\ UNCHANGED stage
  /\ UNCHANGED <<recipes, provided, seenfns, failed_fns, added, adding, runlist>>

-----------------------------------------------------------------------------
(* The loop over the eligible files; add_tasks.                             *)

Fail(f, p, below) ==
  /\ failed_fns' = failed_fns \cup {f}
  /\ cascade' = <<Frame("fail", f, {j \in DOMAIN p : f \in ToSet(p[j])})>> \o below

\* Mutant: only runtime dependencies are looked up.
Mutant_Gone(f) == deps[f] \cap failed_deps \cap RunItems
Gone(f) == deps[f] \cap failed_deps

\* With a dependency that has failed, f fails, before those that come after
\* it are seen; DEPENDS come first.
AddTasks(f, p) ==
  IF Gone(f) = {}
  THEN provided' = WithSeen(Needs(f), p) /\ UNCHANGED <<failed_fns, cascade>>
  ELSE LET early == Gone(f) \cap BuildItems
           past  == IF early # {} THEN {} ELSE deps[f] \cap BuildItems
       IN  \E d \in IF early # {} THEN early ELSE Gone(f),
              more \in SUBSET (deps[f] \ Gone(f)) :
             /\ early # {} => more \subseteq BuildItems
             /\ provided' = WithSeen(past \cup more \cup {d} \cup Asks(f), p)
             /\ Fail(f, provided', <<>>)

AddFile ==
  /\ cascade = <<>> /\ adding.left # <<>>
  /\ LET f == Head(adding.left)
     IN  IF f \in failed_fns
         THEN UNCHANGED <<provided, seenfns, failed_fns, cascade>>
         ELSE IF f \in seenfns
         THEN /\ provided' = WithProvider(adding.item, f)
              /\ UNCHANGED <<seenfns, failed_fns, cascade>>
         ELSE /\ seenfns' = seenfns \cup {f}
              /\ AddTasks(f, WithProvider(adding.item, f))
  /\ adding' = [adding EXCEPT !.left = Tail(@)]
  /\ UNCHANGED <<recipes, external_targets, failed_deps, stage, waiting, added, runlist>>

AddedAll ==
  /\ cascade = <<>> /\ adding # NotAdding /\ adding.left = <<>>
  /\ Returned(adding.item)
  /\ adding' = NotAdding
  /\ UNCHANGED <<recipes, provided, seenfns, failed_fns, failed_deps, stage, waiting,
                 cascade>>

-----------------------------------------------------------------------------
(* The cascade: a turn of the loop of the function on top, or its return.   *)

Below(x) == <<[Head(cascade) EXCEPT !.left = @ \ {x}]>> \o Tail(cascade)

\* fail_fn takes the file from item i, which may have had no other; first
\* from build targets.
FailFn(i) ==
  /\ cascade # <<>> /\ Head(cascade).op = "fail" /\ i \in Head(cascade).left
  /\ i \in RunItems => Head(cascade).left \cap BuildItems = {}
  /\ LET rest == RemoveFirst(provided[i], Head(cascade).what)
     IN  /\ provided' = [provided EXCEPT ![i] = rest]
         /\ IF rest = <<>> THEN RemoveItem(i, Below(i))
            ELSE cascade' = Below(i) /\ UNCHANGED failed_deps
  /\ UNCHANGED <<recipes, seenfns, external_targets, failed_fns, stage, waiting, added,
                 adding, runlist>>

\* remove_buildtarget, remove_runtarget: files that have the target in
\* DEPENDS or RDEPENDS, then files with a task that asks for it
RemoveTarget(f) ==
  /\ cascade # <<>> /\ Head(cascade).op = "remove" /\ f \in Head(cascade).left
  /\ LET i == Head(cascade).what
     IN  i \notin deps[f] => \A g \in Head(cascade).left : i \notin deps[g]
  /\ IF f \in failed_fns THEN cascade' = Below(f) /\ UNCHANGED failed_fns
     ELSE Fail(f, provided, Below(f))
  /\ UNCHANGED <<recipes, provided, seenfns, external_targets, failed_deps, stage,
                 waiting, added, adding, runlist>>

(* NoProvider out of the cascade ends it where it is.  It is caught when    *)
(* add_unresolved is adding a provider of a target not asked for; then this *)
(* target is removed instead.                                               *)
Raise ==
  /\ adding' = NotAdding
  /\ IF adding.item \notin BuildItems \/ Passes(adding.item)
     THEN stage' = "NoProvider" /\ cascade' = <<>> /\ UNCHANGED failed_deps
     ELSE RemoveItem(adding.item, <<>>) /\ UNCHANGED stage

Return ==
  /\ cascade # <<>> /\ Head(cascade).left = {}
  /\ IF mode = "abort" /\ Head(cascade).op = "remove"
          /\ Head(cascade).what \in external_targets
     THEN Raise
     ELSE cascade' = Tail(cascade) /\ UNCHANGED <<adding, stage, failed_deps>>
  /\ UNCHANGED <<recipes, provided, seenfns, external_targets, failed_fns, waiting,
                 added, runlist>>

-----------------------------------------------------------------------------
(* The stages: the targets asked for, then rounds of add_unresolved, each   *)
(* over the build targets and the run targets unresolved.                   *)

NextStage ==
  /\ stage \in {"targets", "build", "run"}
  /\ waiting = {} /\ adding = NotAdding /\ cascade = <<>>
  /\ IF stage = "build"
     THEN stage' = "run" /\ waiting' = Unresolved(RunItems) /\ UNCHANGED added
     ELSE IF stage = "targets" \/ added
     THEN stage' = "build" /\ waiting' = Unresolved(BuildItems) /\ added' = FALSE
     ELSE stage' = "resolved" /\ UNCHANGED <<waiting, added>>
  /\ UNCHANGED <<recipes, data, adding, cascade, runlist>>

TaskDataNext ==
  \/ \E i \in Items : NothingToAdd(i) \/ AddProvider(i) \/ NoProvider(i) \/ FailFn(i)
  \/ \E f \in Files : RemoveTarget(f)
  \/ AddFile \/ AddedAll \/ Return \/ NextStage

-----------------------------------------------------------------------------
(* Properties                                                               *)

Resolved == stage \notin {"targets", "build", "run", "NoProvider"}

TaskDataTypeOK ==
  /\ DOMAIN provided \subseteq Items
  /\ \A i \in DOMAIN provided : ToSet(provided[i]) \subseteq ToSet(eligible[i])
  /\ failed_fns \subseteq seenfns /\ seenfns \subseteq Files
  /\ failed_deps \subseteq Items \ assumed /\ external_targets \subseteq required
  /\ waiting \subseteq Items /\ added \in BOOLEAN
  /\ runlist \subseteq required \X Files

\* The files that cannot be built if the items that cannot be provided are
\* those Lost says, needs being what a file depends on: a least fixpoint.
Unbuildable(Lost(_), needs(_)) ==
  LET grow[B \in SUBSET Files] ==
        LET more == {f \in Files : needs(f) \cap Lost(B) # {}}
        IN  IF more \subseteq B THEN B ELSE grow[B \cup more]
  IN  grow[{}]

LostWithOne(B) ==
  {i \in Items \ assumed : eligible[i] = <<>> \/ ToSet(eligible[i]) \cap B # {}}
LostWithAll(B) == {i \in Items \ assumed : ToSet(eligible[i]) \subseteq B}

(* No required target is lost in a build that goes on (a build that aborts  *)
(* may lose one unseen: see NoTargetLost).                                  *)
Unscathed == mode = "abort" => failed_deps \cap required = {}

(* A file is only given up when something it needs could not be provided;   *)
(* where an item has several providers, one that is lost may be enough.     *)
OnlyHopelessFailed ==
  LET B == Unbuildable(LostWithOne, Needs)
  IN  failed_fns \subseteq B /\ failed_deps \subseteq LostWithOne(B)

(* No file goes into the build that needs, as a whole, what none can        *)
(* provide.                                                                 *)
HopelessFailed ==
  Resolved /\ Unscathed /\ mode # "incomplete" =>
    seenfns \cap Unbuildable(LostWithAll, LAMBDA f : deps[f]) \subseteq failed_fns
=============================================================================
