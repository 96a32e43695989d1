------------------------------ MODULE MCGraph ------------------------------
(***************************************************************************)
(* How a build gets its graphs, for TLC.  In a behaviour either recipes are *)
(* turned into a graph of tasks (TaskData, PrepareRunQueue), or any graph   *)
(* of tasks is collapsed to one of setscene tasks (BuildSceneQueue).        *)
(*                                                                          *)
(* Recipe f1 has an image (rootfs) as well as a package; a is provided by   *)
(* f1, b by f2 or f3 or both, s by f2, d by f4, and c and r by f3, if at    *)
(* all.  f2 may need r and f3 s, to run: then they need each other built.   *)
(***************************************************************************)
EXTENDS BuildSceneQueue, PrepareRunQueue, TLC

CONSTANTS f1, f2, f3, f4, a, b, c, d, r, s

VARIABLE of

allgraphs == <<vars, taskdatavars, preparevars, of>>

NoFlags       == [n \in Names |-> {}]
TheParents    == [NoFlags EXCEPT !["package"] = {"compile"}, !["build"] = {"package"}]
TheDepTask    == [NoFlags EXCEPT !["compile"] = {"package"}]
TheRDepTask   == [NoFlags EXCEPT !["package"] = {"compile"}]
TheRecrDepTask ==
  [NoFlags EXCEPT !["build"] = {"build", "package"}, !["rootfs"] = {"package"}]
TheRecIDepTask == [NoFlags EXCEPT !["rootfs"] = {"build"}]

Ordinary  == {"compile", "package", "build"}
AllTasks  == [f \in Files |-> IF f = f1 THEN Names ELSE Ordinary]
NoAsks    == [f \in Files |-> {}]
Compiling == [NoAsks EXCEPT ![f2] = {<<"compile", c, "package">>}]
Building  == [NoAsks EXCEPT ![f1] = {<<"compile", b, "build">>}]

Deps(D1, D2, D3, D4) ==
  [f \in Files |-> CASE f = f1 -> D1 [] f = f2 -> D2 [] f = f3 -> D3 [] OTHER -> D4]
Eligible(B, C) ==
  [i \in Items |-> CASE i = a -> <<f1>> [] i = b -> B [] i = c -> C
                     [] i = d -> <<f4>> [] i = s -> <<f2>> [] OTHER -> <<f3>>]

(* What can be built, when much of it cannot, and how it is found out.      *)
ManyRecipes ==
  /\ tasks = AllTasks /\ assumed = {} /\ taskdeps \in {NoAsks, Compiling}
  /\ deps \in {Deps(D1, D2, D3, D4) :
                 D1 \in SUBSET {b, d, r}, D2 \in SUBSET {c, r}, D3 \in {{}, {b}, {c}},
                 D4 \in SUBSET {c}}
  /\ eligible \in {Eligible(B, <<>>) : B \in {<<f2>>, <<f2, f3>>, <<f3, f2>>}}
                     \cup {Eligible(<<f2>>, <<f3>>)}
  /\ \/ mode = "abort" /\ required \in {{a}, {a, b}}
     \/ mode \in {"abort", "continue"} /\ required \in {{b}, {b, c}} /\ deps[f1] = {}
     \/ mode = "continue" /\ required = {a, b}
     \/ mode = "incomplete" /\ required = {a} /\ taskdeps = NoAsks
  /\ request = [task |-> "build", parents |-> FALSE]
  /\ runall = None /\ runonly = None

(* What of it is built.                                                     *)
ManyCommands ==
  /\ tasks \in {AllTasks,
                [f \in Files |-> IF f = f3 THEN {"compile", "build"} ELSE Ordinary]}
  /\ taskdeps \in {NoAsks, Compiling, Building}
  /\ deps \in {Deps({b}, {r}, D3, {}) : D3 \in {{}, {d}, {b}, {s}, {s, d}}}
                \cup {Deps({}, {c}, {}, {}), Deps({d, r}, {}, {d}, {b})}
  /\ eligible = Eligible(<<f2>>, <<f3>>)
  /\ \/ assumed = {} /\ required = {a}
     \/ assumed = {b} /\ required \in {{b}, {a, b}}
  /\ mode = "abort"
  /\ request \in [task : Names \ {"package"}, parents : BOOLEAN]
  /\ runall \in {None, "package", "build"} /\ runonly \in {None, "package"}

NothingToCollapse ==
  /\ depends = [t \in Tasks |-> {}] /\ setscene = {} /\ idepends = {} /\ targets = {}
  /\ phase = "none"
  /\ sq_revdeps = depends /\ sq_revdeps_squash = depends
  /\ sq_collated_deps = [t \in {} |-> {}]
  /\ endpoints = sq_collated_deps /\ newendpoints = sq_collated_deps /\ todo = {}
  /\ unskippable = {} /\ buildable = {} /\ done = {}
  /\ harddeps = sq_collated_deps /\ todepend = {}

NoRecipes ==
  /\ tasks = AllTasks /\ assumed = {} /\ taskdeps = NoAsks /\ deps = NoAsks
  /\ eligible = Eligible(<<f2>>, <<>>) /\ required = {} /\ mode = "abort"
  /\ request = [task |-> "build", parents |-> FALSE]
  /\ runall = None /\ runonly = None

GraphInit ==
  \/ of = "scene queue" /\ Init /\ NoRecipes /\ TaskDataInit /\ PrepareInit
  \/ /\ of = "recipes" /\ NothingToCollapse
     /\ (ManyRecipes \/ ManyCommands) /\ TaskDataInit /\ PrepareInit

GraphNext ==
  /\ UNCHANGED of
  /\ \/ of = "scene queue" /\ Next /\ UNCHANGED <<taskdatavars, preparevars>>
     \/ of = "recipes" /\ PrepareNext /\ UNCHANGED vars

GraphSpec == GraphInit /\ [][GraphNext]_allgraphs /\ WF_allgraphs(GraphNext)

(* Whatever the recipes and the graph are, the rounds of add_unresolved,    *)
(* those of the recursive dependencies and of the weighing, and those of    *)
(* process_endpoints come to an end.                                        *)
GraphsEnd == <>(IF of = "recipes" THEN stage \in Outcomes ELSE Collapsed)
=============================================================================
