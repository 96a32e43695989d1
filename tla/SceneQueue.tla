----------------------------- MODULE SceneQueue -----------------------------
(***************************************************************************)
(* The bookkeeping of the scene queue: the part of RunQueueExecute that     *)
(* decides, setscene task by setscene task, whether its output comes from   *)
(* shared state ("covered") or has to be built ("notcovered").              *)
(*                                                                          *)
(* The state of the queue is a record sq, with the fields of the code:      *)
(*   buildable, running, live    sq_buildable, sq_running, sq_live          *)
(*   covered, notcovered, notneeded                                         *)
(*                               scenequeue_covered, _notcovered, _notneeded*)
(*   done                        tasks_scenequeue_done                      *)
(*   outrightfail, valid, stamppresent                                      *)
(*                               the sets of SQData                         *)
(*   deferred                    sq_deferred, a function on its keys        *)
(*   stamps                      sqdata.stamps                              *)
(* Each operator below returns the record after one method of the code.     *)
(* The code walks its work lists in sorted order and recursively; what they *)
(* compute is a least fixpoint, which is how it is written here.            *)
(***************************************************************************)
EXTENDS RunQueueData

CONSTANT Pn     \* Pn[t]: the recipe name (PN) of a task

Settled(sq) == sq.covered \cup sq.notcovered

(* What the failure of S takes down with it: the tasks that hard-depend on  *)
(* a failed one and are not settled yet (scenequeue_updatecounters calls    *)
(* sq_task_failoutright on each of those in turn).                          *)
HardFailures(sq, S) == Closure([t \in Setscene |-> HardDeps[t] \ Settled(sq)], S)

(* The tasks the scene queue is done with once those of S are settled: S,   *)
(* and every plain task below all of whose users it is done with.           *)
DoneAfter(done, S) ==
  LET sweep[R \in SUBSET Tasks] ==
        LET more == {d \in DependsOfAll(R) \ (Setscene \cup done) :
                        Revdeps(d) \subseteq done \cup R}
        IN  IF more \subseteq R THEN R ELSE sweep[R \cup more]
  IN  done \cup {t \in Tasks : t \in sweep[S]}

(* scenequeue_updatecounters, after the tasks of S became settled.          *)
UpdateCounters(sq, S) ==
  [sq EXCEPT
     !.buildable = @ \cup {d \in UNION {SqDeps[t] : t \in S} :
                              SqRevdeps[d] \subseteq Settled(sq)},
     !.done = DoneAfter(@, S)]

(* sq_task_completeoutright, for a set of tasks.                            *)
SqCompleteAll(sq, S) ==
  UpdateCounters([sq EXCEPT !.covered = @ \cup S], S)

(* sq_task_fail of setscene tasks that ran: they are not covered, and the   *)
(* tasks that need their output fail outright.                              *)
SqFailAll(sq, S) ==
  LET failed  == HardFailures(sq, S)
      dragged == failed \ S
  IN  UpdateCounters(
        [sq EXCEPT !.notcovered = @ \cup failed,
                   !.running    = @ \cup dragged,
                   !.buildable  = @ \cup dragged], failed)

(* sq_task_failoutright: give up on setscene tasks without running them.    *)
SqFailOutrightAll(sq, S) ==
  SqFailAll([sq EXCEPT !.running = @ \cup S, !.buildable = @ \cup S], S)

(* sq_task_skip, for a set of tasks: they count as covered without running. *)
SqSkipAll(sq, S) ==
  SqCompleteAll([sq EXCEPT !.running   = @ \cup S,
                           !.buildable = @ \cup S], S)

-----------------------------------------------------------------------------
(* Two setscene tasks that would leave the same hash behind: only the first *)
(* is tried, the others are deferred until it has run.                      *)
PendingHashIndex(t, hash) == <<Pn[t], hash[t]>>

Earlier(u, t) ==
  \E i, j \in 1..Len(SortedSetscene) :
     i < j /\ SortedSetscene[i] = u /\ SortedSetscene[j] = t

First(S) == CHOOSE t \in S : \A u \in S \ {t} : Earlier(t, u)

(* The second half of update_scenequeue_data: every setscene task that is   *)
(* neither settled, nor stamped, nor found in the cache fails outright when *)
(* its turn comes; of several with one pending hash all but the first wait. *)
Absent(sq, noexec) ==
  Setscene \ (sq.stamppresent \cup sq.valid \cup noexec \cup Settled(sq))
Leader(t, absent, hash) ==
  First({u \in absent : PendingHashIndex(u, hash) = PendingHashIndex(t, hash)})
Deferrals(absent, hash) ==
  [t \in {u \in absent : Leader(u, absent, hash) # u} |-> Leader(t, absent, hash)]

Reconsider(sq, noexec, hash) ==
  LET absent == Absent(sq, noexec)
  IN  [sq EXCEPT !.outrightfail = @ \cup absent,
                 !.deferred = Deferrals(absent, hash)]

(* update_scenequeue_data(tids): skip what needs no restoring, ask the      *)
(* cache for the rest ("found" is its answer), then Reconsider.  A task     *)
(* both noexec and stamped is noexec.                                       *)
UpdateSceneQueueData(sq, tids, noexec, stamped, found, hash) ==
  LET skip == tids \cap (noexec \cup stamped)
      cleared ==
        [sq EXCEPT
           !.stamppresent = (@ \ tids) \cup (tids \cap (stamped \ noexec)),
           !.valid        = (@ \ tids) \cup found]
  IN  Reconsider(SqSkipAll(cleared, skip), noexec, hash)

(* The queue as build_scenequeue_data leaves it for update_scenequeue_data. *)
NewSceneQueue(stampnames) ==
  [buildable    |-> {s \in Setscene : SqRevdeps[s] = {}},
   running      |-> {}, live |-> {},
   covered      |-> {}, notcovered |-> {}, notneeded |-> {},
   done         |-> Unskippable \ Setscene,
   outrightfail |-> {}, valid |-> {}, stamppresent |-> {},
   deferred     |-> [t \in {} |-> t],
   stamps       |-> stampnames]

=============================================================================
