--------------------------- MODULE RunQueueExecute ---------------------------
(***************************************************************************)
(* RunQueueExecute: the part of BitBake that runs the tasks of a build      *)
(* (lib/bb/runqueue.py), with the worker processes it drives and the server *)
(* loop that calls it (buildTargetsIdle in lib/bb/cooker.py).               *)
(*                                                                          *)
(* The server is one thread.  Its idle loop calls execute_runqueue(), which *)
(* while the state is Running makes one pass of execute(): read what the    *)
(* workers have sent, move tasks whose hash changed back to the scene       *)
(* queue, start or dispose of one setscene task, recompute the holdoff,     *)
(* start or dispose of one task, and otherwise wait or finish.  pc says     *)
(* which of these stages comes next; a pass that "return"s early goes       *)
(* straight to "return".  Tasks run in processes of their own, forked by    *)
(* bitbake-worker; they end, and write their stamp, at any moment, but the  *)
(* server learns of it only when it reads the worker's pipe.                *)
(***************************************************************************)
EXTENDS SceneQueue, Stamps, Integers

CONSTANTS
  NumberTasks,    \* BB_NUMBER_THREADS
  TaskName,       \* TaskName[t]: the do_... part of the tid
  NumberThreads,  \* NumberThreads[n]: the number_threads flag of n, 0 if unset
  Noexec,         \* tasks with the noexec flag
  DepValid,       \* setscene tasks BB_SETSCENE_DEPVALID finds not needed
  Enforced,       \* tasks BB_SETSCENE_ENFORCE does not whitelist
  SceneEnforced,  \* is BB_SETSCENE_ENFORCE set (setscenewhitelist not None)?
  Abort,          \* stop at the first failure (bitbake without -k)
  ForceTargets, SkipSetscene, SetsceneOnly,  \* bitbake -f, --skip-setscene, --setscene-only
  DryRun,         \* bitbake -n
  InitHash,       \* InitHash[t]: the unihash prepare() computed
  OldStamps,      \* the <<task, hash>> earlier builds left a stamp for
  OldSetsceneStamps,
  Cached,         \* setscene tasks the sstate cache may hold
  Reporters,      \* tasks whose process may report another unihash
  MayFail,        \* tasks whose process may fail
  MayInterrupt, WorkerMayDie

\* __init__ refuses a BB_NUMBER_THREADS below 1.
ASSUME NumberTasksAssumption == NumberTasks \in Nat \ {0}

\* number_threads is a number of threads.
ASSUME NumberThreadsAssumption == \A t \in Tasks : NumberThreads[TaskName[t]] \in Nat

\* report_unihash returns early for a task without a setscene variant.
ASSUME HashAssumption ==
  InitHash \in [Tasks -> Hashes] /\ Reporters \subseteq Setscene

\* Bound: task_fail without taskActive (TaskWhitelistFail) lowers stats.active
\* each time; it is followed down to here.
ActiveFloor == -2

VARIABLES
  rqstate,        \* rq.state
  pc,             \* the stage of the pass the server is in
  interrupt,      \* cooker.state: 0 running, 1 shutdown, 2 forceshutdown
  worker,         \* bitbake-worker: "up", "dead", or "gone" (torn down)
  procs,          \* task processes whose exit code the server has not read
  sent,           \* taskUniHashUpdate events under way to the server
  stamps, setscenestamps,
  sq, sqdone, holdoff_need_update, holdoff_tasks,
  tasks_covered, tasks_notcovered,
  runq_buildable, runq_running, runq_complete, runq_tasksrun,
  failed_tids, build_stamps, active, sqactive,
  unihash, updated_taskhash_queue, pending_migrations,
  migrating       \* the locals of process_possible_migrations

procvars  == <<procs, sent, worker>>
stampvars == <<stamps, setscenestamps>>
sqvars    == <<sq, sqactive, sqdone>>
holdvars  == <<holdoff_need_update, holdoff_tasks, tasks_covered, tasks_notcovered>>
runqvars  == <<runq_buildable, runq_running, runq_complete, runq_tasksrun,
               failed_tids, active>>
hashvars  == <<unihash, updated_taskhash_queue, pending_migrations, migrating>>
vars == <<rqstate, pc, interrupt, procvars, stampvars, sqvars, holdvars,
          runqvars, build_stamps, hashvars>>

-----------------------------------------------------------------------------
(* Names of states, stages and processes                                    *)

RqStates == {"SceneInit", "Running", "CleanUp", "Complete", "Failed"}
Stages   == {"idle", "read", "rehash", "migrate", "scene", "holdoff", "normal",
             "tail", "wait", "return", "finish", "finishread", "check",
             "teardown", "end"}

(* A process runs task t or its setscene variant, with the hash it was      *)
(* started with; it runs until it has ended "ok" or "fail".                 *)
Process(t, kind, status, h) ==
  [task |-> t, kind |-> kind, status |-> status, hash |-> h]
Processes ==
  [task : Tasks, kind : {"task", "setscene"}, status : {"run", "ok", "fail"},
   hash : Hashes]

StampName(t, kind, h) == <<StampBase[t], kind, h>>
StampNames == Bases \X {"task", "setscene"} \X Hashes
BuildStamps == {build_stamps[t] : t \in DOMAIN build_stamps}

With(f, t, v)    == [x \in DOMAIN f \cup {t} |-> IF x = t THEN v ELSE f[x]]
Without(f, t)    == [x \in DOMAIN f \ {t} |-> f[x]]

CanStart(n) == n < NumberTasks     \* can_start_task, with n tasks active
\* Mutant: only failed targets count.
Mutant_FinalState == IF failed_tids \cap Targets # {} THEN "Failed" ELSE "Complete"
FinalState == IF failed_tids # {} THEN "Failed" ELSE "Complete"

-----------------------------------------------------------------------------
(* The task processes.  fork_off_task starts one per runtask message; it    *)
(* writes the stamp of its task when it succeeds, unless it only pretends   *)
(* to run.  On its way it may have reported another unihash than the one it *)
(* was started with, to the hash server and, as an event, to ours.          *)

Pretends(p) == DryRun \/ (p.kind = "task" /\ SceneEnforced)

Reports(p) == IF p.kind = "task" /\ p.task \in Reporters /\ ~Pretends(p)
              THEN Hashes ELSE {p.hash}

TaskEnds(p, status, h) ==
  /\ procs' = (procs \ {p}) \cup {[p EXCEPT !.status = status]}
  /\ sent' = IF h = p.hash THEN sent ELSE sent \cup {<<p.task, h>>}
  /\ UNCHANGED <<rqstate, pc, interrupt, worker, sqvars, holdvars, runqvars,
                 build_stamps, hashvars>>

TaskSucceeds(p, h) ==
  /\ p \in procs /\ p.status = "run" /\ h \in Reports(p)
  /\ TaskEnds(p, "ok", h)
  /\ IF p.kind = "setscene"
     THEN /\ setscenestamps' =
               IF Pretends(p) THEN setscenestamps
               ELSE MakeStamps(setscenestamps, {p.task}, [t \in {p.task} |-> h])
          /\ UNCHANGED stamps
     ELSE IF Pretends(p) \/ p.task \in Nostamp
          THEN UNCHANGED stampvars
          ELSE /\ stamps' = MakeStamps(stamps, {p.task}, [t \in {p.task} |-> h])
               /\ setscenestamps' = CleanStamp(setscenestamps, p.task)

TaskFails(p, h) ==
  /\ p \in procs /\ p.status = "run" /\ h \in Reports(p)
  /\ p.task \in MayFail
  /\ TaskEnds(p, "fail", h)
  /\ UNCHANGED stampvars

(* The worker process dies; the tasks it has not reported die with it       *)
(* (signal_on_parent_exit), and what it had reported stays in the pipe.     *)
WorkerDies ==
  /\ WorkerMayDie /\ worker = "up" /\ rqstate # "SceneInit"
  /\ worker' = "dead"
  /\ procs' \in {P \in SUBSET procs : \A p \in P : p.status # "run"}
  /\ UNCHANGED <<rqstate, pc, interrupt, sent, stampvars, sqvars, holdvars, runqvars,
                 build_stamps, hashvars>>

-----------------------------------------------------------------------------
(* Reading a worker's pipe (runQueuePipe.read), one message per action.     *)

(* read() looks first whether the worker has died, and if so calls          *)
(* finish_runqueue(now).                                                    *)
\* Mutant: nobody looks whether the worker lives.
Mutant_StateOnRead(st) == st
StateOnRead(st) == IF worker = "dead" THEN FinalState ELSE st

Reading == pc \in {"read", "wait", "finishread", "teardown"}

ReadUniHash ==
  /\ Reading
  /\ \E m \in sent :
       /\ sent' = sent \ {m}
       /\ updated_taskhash_queue' = updated_taskhash_queue \cup {m}
  /\ UNCHANGED <<rqstate, pc, interrupt, procs, worker, stampvars, sqvars, holdvars,
                 runqvars, build_stamps, unihash, pending_migrations, migrating>>

(* The reverse dependencies that task_completeoutright makes buildable.     *)
\* Mutant: one complete dependency is enough.
Mutant_Unblocked(t, complete, running) ==
  {r \in Revdeps(t) \ running : Depends[r] \cap complete # {}}
Unblocked(t, complete, running) ==
  {r \in Revdeps(t) \ running : Depends[r] \subseteq complete}

(* runqueue_process_waitpid for a setscene task: sq_task_complete or        *)
(* sq_task_fail (and sq_check_taskfail).                                    *)
SetsceneExit(t, ok) ==
  /\ LET settled == IF ok THEN SqCompleteAll(sq, {t}) ELSE SqFailAll(sq, {t})
     IN  sq' = [settled EXCEPT !.live = @ \ {t}]
  /\ sqactive' = sqactive - 1
  /\ holdoff_need_update' = TRUE
  /\ rqstate' = IF ~ok /\ SceneEnforced /\ t \in Enforced THEN "CleanUp" ELSE rqstate
  /\ UNCHANGED <<sqdone, holdoff_tasks, tasks_covered, tasks_notcovered, runqvars>>

\* Mutant: -k is ignored.
Mutant_TaskFailState == "CleanUp"
TaskFailState == IF Abort THEN "CleanUp" ELSE rqstate

NowFailed(t) == failed_tids \cup {t}

(* runqueue_process_waitpid for a task: task_complete or task_fail.         *)
TaskExit(t, ok) ==
  /\ active' = active - 1
  /\ IF ok
     THEN /\ runq_complete'  = runq_complete \cup {t}
          /\ runq_tasksrun'  = runq_tasksrun \cup {t}
          /\ runq_buildable' = runq_buildable
                                \cup Unblocked(t, runq_complete \cup {t}, runq_running)
          /\ UNCHANGED <<failed_tids, rqstate>>
     ELSE /\ failed_tids' = NowFailed(t)
          /\ rqstate' = TaskFailState
          /\ UNCHANGED <<runq_complete, runq_tasksrun, runq_buildable>>
  /\ UNCHANGED <<runq_running, sqvars, holdvars>>

ReadExit(t) ==
  /\ Reading
  /\ \E p \in procs :
       /\ p.task = t /\ p.status # "run"
       /\ \A m \in sent : m[1] # t      \* a task's events precede its exit code
       /\ procs' = procs \ {p}
       /\ build_stamps' = Without(build_stamps, t)
       /\ IF t \in sq.live
          THEN SetsceneExit(t, p.status = "ok")
          ELSE TaskExit(t, p.status = "ok")
  /\ UNCHANGED <<pc, interrupt, sent, worker, stampvars, hashvars>>

ReadDone ==
  /\ \/ pc = "read"       /\ pc' = "rehash"
     \/ pc = "wait"       /\ pc' = "return"
     \/ pc = "finishread" /\ pc' = "check"
  /\ UNCHANGED <<rqstate, interrupt, procvars, stampvars, sqvars, holdvars, runqvars,
                 build_stamps, hashvars>>

-----------------------------------------------------------------------------
(* The server loop around execute(): buildTargetsIdle, execute_runqueue.    *)

(* Both stamps are looked at; check_stamp_task(t, recurse) sees the stamps   *)
(* of the noexec tasks that are sorted before t, which were just written.   *)
AlreadyStamped(tids) ==
  {t \in tids :
     LET before == {u \in tids \cap Noexec : Earlier(u, t)}
     IN  \/ SetsceneStampPresent(setscenestamps, unihash, t)
         \/ StampCurrentRecursive(stamps, MakeStamps(setscenestamps, before, unihash),
                                  unihash, t)}

(* update_scenequeue_data for tids on the queue q; validate_hashes asks the *)
(* sstate mirrors for what is neither noexec nor stamped.                   *)
UpdatedScenes(q, tids) ==
  LET stamped == AlreadyStamped(tids)
  IN  {UpdateSceneQueueData(q, tids, Noexec \cap Setscene, stamped, found, unihash) :
         found \in SUBSET ((tids \cap Cached) \ (Noexec \cup stamped))}

(* RunQueue in state SceneInit: start the worker, build the executer.       *)
SceneInit ==
  /\ pc = "idle" /\ rqstate = "SceneInit" /\ interrupt = 0
  /\ LET names == [s \in Setscene |-> StampName(s, "setscene", unihash[s])]
     IN  sq' \in UpdatedScenes(NewSceneQueue(names), Setscene)
  /\ setscenestamps' = MakeStamps(setscenestamps, Setscene \cap Noexec, unihash)
  /\ LET leaves == {t \in Tasks : Depends[t] = {}}
     IN  runq_buildable' = IF Setscene = {} THEN leaves
                           ELSE leaves \cap (Unskippable \ Setscene)
  /\ tasks_notcovered' = IF Setscene = {} THEN Tasks ELSE {}
  /\ sqdone' = (Setscene = {})
  /\ rqstate' = "Running" /\ pc' = "read"
  /\ UNCHANGED <<interrupt, procvars, stamps, sqactive, holdoff_need_update,
                 holdoff_tasks, tasks_covered, runq_running, runq_complete,
                 runq_tasksrun, failed_tids, active, build_stamps, hashvars>>

(* The user stops the build: bitbake's command handler sets cooker.state.   *)
UserInterrupts(how) ==
  /\ MayInterrupt /\ pc = "idle" /\ how \in {1, 2} /\ how > interrupt
  /\ interrupt' = how
  /\ UNCHANGED <<rqstate, pc, procvars, stampvars, sqvars, holdvars, runqvars,
                 build_stamps, hashvars>>

(* One call of buildTargetsIdle: finish_runqueue if the build is to stop,   *)
(* then execute_runqueue.                                                   *)
BeginPass ==
  /\ pc = "idle"
  /\ \/ /\ rqstate = "SceneInit" /\ interrupt # 0     \* no executer yet
        /\ rqstate' = "Complete" /\ pc' = "end"
     \/ /\ rqstate # "SceneInit" /\ interrupt = 2      \* finish_now
        /\ rqstate' = FinalState /\ pc' = "teardown"
     \/ /\ rqstate = "Running" /\ interrupt = 0
        /\ rqstate' = StateOnRead(rqstate) /\ pc' = "read"
     \/ /\ rqstate # "SceneInit"
        /\ interrupt = 1 \/ (interrupt = 0 /\ rqstate = "CleanUp")
        /\ rqstate' = "CleanUp" /\ pc' = "finish"
  /\ UNCHANGED <<interrupt, procvars, stampvars, sqvars, holdvars, runqvars,
                 build_stamps, hashvars>>

\* Mutant: setscene tasks are not waited for.
Mutant_ActiveNow == active
ActiveNow == active + sqactive

(* finish(): wait for what is active, then settle the outcome.              *)
Finish ==
  /\ pc = "finish"
  /\ IF ActiveNow > 0
     THEN IF worker = "gone"              \* no pipes: active_fds() is empty,
          THEN rqstate' = rqstate /\ pc' = "end"    \* and the call is the last
          ELSE rqstate' = StateOnRead("CleanUp") /\ pc' = "finishread"
     ELSE rqstate' = FinalState /\ pc' = "check"
  /\ UNCHANGED <<interrupt, procvars, stampvars, sqvars, holdvars, runqvars,
                 build_stamps, hashvars>>

(* execute() returned: a state of CleanUp is acted upon in the same call.   *)
Return ==
  /\ pc = "return"
  /\ pc' = IF rqstate = "CleanUp" THEN "finish" ELSE "check"
  /\ UNCHANGED <<rqstate, interrupt, procvars, stampvars, sqvars, holdvars, runqvars,
                 build_stamps, hashvars>>

(* build_done? *)
Check ==
  /\ pc = "check"
  /\ pc' = IF rqstate \in {"Complete", "Failed"} THEN "teardown" ELSE "idle"
  /\ UNCHANGED <<rqstate, interrupt, procvars, stampvars, sqvars, holdvars, runqvars,
                 build_stamps, hashvars>>

(* teardown_workers drains the pipes first (ReadExit, ReadUniHash): a       *)
(* failure found there may set the state back to CleanUp.                   *)
TearDown ==
  /\ pc = "teardown"
  /\ worker' = "gone" /\ procs' = {} /\ sent' = {}
  /\ pc' = IF rqstate \in {"Complete", "Failed"} THEN "end" ELSE "idle"
  /\ UNCHANGED <<rqstate, interrupt, stampvars, sqvars, holdvars, runqvars,
                 build_stamps, hashvars>>

-----------------------------------------------------------------------------
(* execute(), stage by stage.                                               *)

InProgress(t) == t \in runq_running /\ t \notin runq_complete

(* Every task that depends, directly or not, on one of S.                   *)
Downstream(S) ==
  Closure([t \in Tasks |-> Revdeps(t)], UNION {Revdeps(s) : s \in S})

(* The hashes the tasks of "total" may get once the hashes of the tasks of  *)
(* "toprocess" changed: what the hash server says, but a task none of whose *)
(* dependencies changed keeps its own.                                      *)
Rehashings(hash, toprocess, total) ==
  {new \in [total -> Hashes] :
     \A t \in total : new[t] # hash[t] =>
        \E d \in Depends[t] : d \in toprocess
                              \/ (d \in total /\ new[d] # hash[d])}

(* Those whose new hash is taken over: what is restored, or being restored, *)
(* keeps the hash it was restored for.                                      *)
Retaken(total, new, reported) ==
  {t \in total : new[t] # reported[t] /\ t \notin sq.covered \cup sq.live}

(* process_possible_migrations, up to its loop over pending_migrations.     *)
Rehash ==
  /\ pc = "rehash" /\ (updated_taskhash_queue # {} \/ pending_migrations # {})
  /\ LET taken     == {m \in updated_taskhash_queue : ~InProgress(m[1])}
         toprocess == {m[1] : m \in {n \in taken : n[2] # unihash[n[1]]}}
         reported  == [t \in Tasks |-> IF t \in toprocess
                         THEN CHOOSE h \in Hashes : <<t, h>> \in taken
                         ELSE unihash[t]]
         total     == Downstream(toprocess)
     IN  \E new \in Rehashings(reported, toprocess, total) :
           LET changed == Retaken(total, new, reported)
               pending == pending_migrations \cup (changed \cap Setscene)
           IN  /\ unihash' = [t \in Tasks |->
                                IF t \in changed THEN new[t] ELSE reported[t]]
               /\ updated_taskhash_queue' = updated_taskhash_queue \ taken
               /\ pending_migrations' = pending
               /\ migrating' = [todo |-> pending, update |-> {}, harddepfail |-> {},
                                changed |-> changed # {}]
  /\ pc' = "migrate"
  /\ UNCHANGED <<rqstate, interrupt, procvars, stampvars, sqvars, holdvars, runqvars,
                 build_stamps>>

NothingToRehash ==
  /\ pc = "rehash" /\ updated_taskhash_queue = {} /\ pending_migrations = {}
  /\ pc' = "scene"
  /\ UNCHANGED <<rqstate, interrupt, procvars, stampvars, sqvars, holdvars, runqvars,
                 build_stamps, hashvars>>

NotMigrating == [todo |-> {}, update |-> {}, harddepfail |-> {}, changed |-> FALSE]

Handled(t) == pending_migrations \ {t}

(* One turn of that loop; the set is walked in no particular order.  Too    *)
(* late if t runs already; put off while a task it would cover runs.        *)
MigrateNot(t) ==
  /\ pc = "migrate" /\ t \in migrating.todo
  /\ \/ t \in runq_running \cup sq.live
     \/ \E d \in SqCoveredTasks[t] : InProgress(d)
  /\ pending_migrations' = IF t \in runq_running \cup sq.live
                           THEN Handled(t) ELSE pending_migrations
  /\ migrating' = [migrating EXCEPT !.todo = @ \ {t}]
  /\ UNCHANGED <<rqstate, pc, interrupt, procvars, stampvars, sqvars, holdvars,
                 runqvars, build_stamps, unihash, updated_taskhash_queue>>

\* Mutant: a task it would cover may be running.
Mutant_MayMigrate(t) ==
  pc = "migrate" /\ t \in migrating.todo /\ t \notin runq_running \cup sq.live
MayMigrate(t) ==
  /\ pc = "migrate" /\ t \in migrating.todo
  /\ t \notin runq_running \cup sq.live
  /\ \A d \in SqCoveredTasks[t] : ~InProgress(d)

SkippedBelow(t) ==
  {d \in SqCoveredTasks[t] : d \in runq_complete /\ d \notin runq_tasksrun}

(* What t would cover is no longer done with, unless it has run or must.    *)
Redecided(t) ==
  {d \in SqCoveredTasks[t] : d \notin runq_complete /\ d \notin Unskippable}

(* A task that was skipped as covered would have to run after all: the      *)
(* build is abandoned, and the rest of the loop with it, somewhere on the   *)
(* walk over what t covers.                                                 *)
AbandonBuild(t) ==
  /\ failed_tids' = failed_tids \cup {t}
  /\ rqstate' = "CleanUp"
  /\ \E S \in SUBSET Redecided(t) : sq' = [sq EXCEPT !.done = @ \ ({t} \cup S)]
  /\ migrating' = NotMigrating
  /\ pc' = "scene"
  /\ UNCHANGED build_stamps

(* Back to the scene queue, with t as good as new.                          *)
\* Mutant: that it was not covered is not forgotten.
Mutant_Unsettled(q, t) ==
  [q EXCEPT !.running = @ \ {t}, !.outrightfail = @ \ {t}, !.covered = @ \ {t},
            !.notneeded = @ \ {t}]
Unsettled(q, t) ==
  [q EXCEPT !.running = @ \ {t}, !.outrightfail = @ \ {t}, !.covered = @ \ {t},
            !.notcovered = @ \ {t}, !.notneeded = @ \ {t}]

Reopen(t) ==
  /\ LET hard  == \E d \in sq.notcovered : t \in HardDeps[d]
         ready == \/ SqRevdeps[t] = {}
                  \/ ~hard /\ SqRevdeps[t] \subseteq Settled(sq)
     IN  /\ sq' = [Unsettled(sq, t) EXCEPT
                     !.done = @ \ ({t} \cup Redecided(t)),
                     !.buildable = (@ \ {t}) \cup (IF ready THEN {t} ELSE {}),
                     !.stamps[t] = StampName(t, "setscene", unihash[t])]
         /\ migrating' = [todo        |-> migrating.todo \ {t},
                          update      |-> migrating.update \cup {t},
                          harddepfail |-> migrating.harddepfail
                                            \cup (IF hard THEN {t} ELSE {}),
                          changed     |-> TRUE]
  /\ build_stamps' = Without(build_stamps, t)
  /\ UNCHANGED <<rqstate, pc, failed_tids>>

Migrate(t) ==
  /\ MayMigrate(t)
  /\ IF SkippedBelow(t) # {} THEN AbandonBuild(t) ELSE Reopen(t)
  /\ pending_migrations' = Handled(t)
  /\ UNCHANGED <<interrupt, procvars, stampvars, sqactive, sqdone, holdvars,
                 runq_buildable, runq_running, runq_complete, runq_tasksrun, active,
                 unihash, updated_taskhash_queue>>

\* Mutant: the holdoff is not looked at again.
Mutant_HoldoffStale == holdoff_need_update
HoldoffStale == holdoff_need_update \/ migrating.changed

MigrateDone ==
  /\ pc = "migrate" /\ migrating.todo = {}
  /\ IF migrating.update = {}
     THEN UNCHANGED <<sqvars, setscenestamps>>
     ELSE /\ \E q \in UpdatedScenes(sq, migrating.update) :
               sq' = IF migrating.harddepfail = {} THEN q
                     ELSE SqFailOutrightAll(q, migrating.harddepfail)
          /\ sqdone' = FALSE
          /\ setscenestamps' =
               MakeStamps(setscenestamps, migrating.update \cap Noexec, unihash)
          /\ UNCHANGED sqactive
  /\ holdoff_need_update' = HoldoffStale
  /\ migrating' = NotMigrating
  /\ pc' = "scene"
  /\ UNCHANGED <<rqstate, interrupt, procvars, stamps, holdoff_tasks, tasks_covered,
                 tasks_notcovered, runqvars, build_stamps, unihash,
                 updated_taskhash_queue, pending_migrations>>

-----------------------------------------------------------------------------
(* A setscene task is passed over while one with its stamp runs.  All that  *)
(* need it are covered and can do without it: it is not needed.             *)
SceneBuildable(t) ==
  t \in sq.buildable /\ t \notin sq.running /\ sq.stamps[t] \notin BuildStamps

\* Mutant: without asking whether what needs it is covered.
Mutant_NotNeeded(t) ==
  t \notin Unskippable /\ t \notin Targets /\ SqRevdeps[t] # {} /\ t \in DepValid
NotNeeded(t) ==
  /\ t \notin Unskippable /\ t \notin Targets
  /\ SqRevdeps[t] # {} /\ SqRevdeps[t] \subseteq sq.covered
  /\ t \in DepValid

\* Mutant: nothing is deferred.
Mutant_Deferred(t) == FALSE
Deferred(t) == t \in DOMAIN sq.deferred

SceneCandidates ==
  {t \in Setscene :
     /\ SceneBuildable(t)
     /\ NotNeeded(t) \/ (Deferred(t) => sq.deferred[t] \in runq_complete)}

(* The for loop over sorted_setscene_tids stops at the first of these.  (Its *)
(* inner loop over the covered tasks that run only continues itself.)       *)
SceneNext(t) ==
  /\ pc = "scene" /\ ~sqdone /\ CanStart(active + sqactive)
  /\ SceneCandidates # {} /\ t = First(SceneCandidates)

SceneNone ==
  /\ pc = "scene"
  /\ sqdone \/ ~CanStart(active + sqactive) \/ SceneCandidates = {}
  /\ pc' = "holdoff"
  /\ UNCHANGED <<rqstate, interrupt, procvars, stampvars, sqvars, holdvars, runqvars,
                 build_stamps, hashvars>>

Undeferred(t) == [sq EXCEPT !.deferred = Without(@, t)]

(* The outcomes that settle t without a process end the pass.               *)
SceneSettles(q) ==
  /\ sq' = q /\ holdoff_need_update' = TRUE /\ pc' = "return"
  /\ UNCHANGED <<rqstate, interrupt, procvars, stampvars, sqactive, sqdone,
                 holdoff_tasks, tasks_covered, tasks_notcovered, runqvars,
                 build_stamps, hashvars>>

SceneNotNeeded(t) ==
  /\ SceneNext(t) /\ NotNeeded(t)
  /\ SceneSettles([SqSkipAll(Undeferred(t), {t}) EXCEPT !.notneeded = @ \cup {t}])

(* Its peer has run and left nothing in the cache for it either.            *)
SceneStaysInvalid(t) ==
  /\ SceneNext(t) /\ ~NotNeeded(t) /\ Deferred(t)
  /\ SceneSettles(SqFailOutrightAll(Undeferred(t), {t}))

SceneOutrightFail(t) ==
  /\ SceneNext(t) /\ ~NotNeeded(t) /\ ~Deferred(t) /\ t \in sq.outrightfail
  /\ SceneSettles(SqFailOutrightAll(sq, {t}))

(* t is the task to restore; the queue is then Retried(t): t is deferred no *)
(* longer, and if it was, the cache has it now.                             *)
Retried(t) ==
  IF Deferred(t) THEN [Undeferred(t) EXCEPT !.outrightfail = @ \ {t}] ELSE sq

SceneChosen(t) ==
  /\ SceneNext(t) /\ ~NotNeeded(t)
  /\ IF Deferred(t) THEN t \in Cached ELSE t \notin sq.outrightfail

UnderlyingCurrent(t) == StampCurrentRecursive(stamps, setscenestamps, unihash, t)
SceneStamped(t)      == SetsceneStampPresent(setscenestamps, unihash, t)

\* Mutant: bitbake -f is not heeded.
Mutant_Forced(t) == FALSE
Forced(t) == ForceTargets /\ t \in Targets

(* The task itself has run before, or is to be forced.                      *)
SceneRunInstead(t) ==
  /\ SceneChosen(t)
  /\ UnderlyingCurrent(t) \/ Forced(t) \/ (~SceneStamped(t) /\ SkipSetscene)
  /\ SceneSettles(SqFailOutrightAll(Retried(t), {t}))

SceneSkip(t) ==
  /\ SceneChosen(t)
  /\ ~UnderlyingCurrent(t) /\ ~Forced(t) /\ SceneStamped(t)
  /\ SceneSettles(SqSkipAll(Retried(t), {t}))

MustRestore(t) ==
  /\ SceneChosen(t)
  /\ ~UnderlyingCurrent(t) /\ ~Forced(t) /\ ~SceneStamped(t) /\ ~SkipSetscene

SceneStart(t) ==
  /\ MustRestore(t) /\ worker = "up"
  /\ procs' = procs \cup {Process(t, "setscene", "run", unihash[t])}
  /\ build_stamps' = With(build_stamps, t, StampName(t, "setscene", unihash[t]))
  /\ sq' = [Retried(t) EXCEPT !.running = @ \cup {t}, !.live = @ \cup {t}]
  /\ sqactive' = sqactive + 1
  /\ pc' = IF CanStart(active + sqactive + 1) THEN "return" ELSE "holdoff"
  /\ UNCHANGED <<rqstate, interrupt, worker, sent, stampvars, sqdone, holdvars,
                 runqvars, hashvars>>

(* Writing to a worker that died raises; execute_runqueue tears down and    *)
(* lets the exception end the idle function.                                *)
Crash ==
  /\ rqstate' = "Complete" /\ pc' = "end"
  /\ worker' = "gone" /\ procs' = {} /\ sent' = {}
  /\ UNCHANGED <<interrupt, stampvars, sqvars, holdvars, runqvars, build_stamps,
                 hashvars>>

-----------------------------------------------------------------------------
(* update_holdofftasks: which tasks are covered, which will have to run,    *)
(* and which must wait until the scene queue has decided.                   *)

CoveredBy(S) == UNION {SqCoveredTasks[s] : s \in S}

NewNotCovered ==
  (sq.notcovered \cup CantSkip \cup CoveredBy(sq.notcovered)
     \cup (Unskippable \ Setscene)) \cap sq.done

NewCovered ==
  ((sq.covered \cup CoveredBy(sq.covered)) \ NewNotCovered) \cap sq.done

\* Mutant: the tasks that undecided setscene tasks cover do not wait.
Mutant_NewHoldoff == Setscene \ Settled(sq)
NewHoldoff ==
  LET undecided == Setscene \ Settled(sq)
  IN  undecided \cup (CoveredBy(undecided) \ runq_complete)

(* summarise_scenequeue_errors, when it finds any (the queues are empty).   *)
SceneErrors(covered, notcovered, buildable, holdoff) ==
  \/ DOMAIN sq.deferred # {} \/ updated_taskhash_queue # {} \/ holdoff # {}
  \/ ~(Setscene \subseteq Settled(sq) \cap sq.buildable \cap sq.running)
  \/ ~(Tasks \subseteq covered \cup notcovered)
  \/ ~(Tasks \subseteq sq.done)
  \/ \E t \in Tasks : Depends[t] = {} /\ t \notin buildable

ScenesThrough(holdoff) ==
  /\ sq.live = {} /\ ~sqdone /\ DOMAIN sq.deferred = {}
  /\ updated_taskhash_queue = {} /\ holdoff = {}

(* update_holdofftasks, and the test whether the scene queue is through.    *)
UpdateHoldoff ==
  /\ pc = "holdoff"
  /\ LET new        == holdoff_need_update
         notcovered == IF new THEN NewNotCovered ELSE tasks_notcovered
         covered    == IF new THEN NewCovered ELSE tasks_covered
         holdoff    == IF new THEN NewHoldoff ELSE holdoff_tasks
         buildable  == runq_buildable \cup
                         IF new THEN {t \in NewNotCovered \cup NewCovered :
                                        Depends[t] \subseteq runq_complete}
                         ELSE {}
         through    == ScenesThrough(holdoff)
         errors     == SceneErrors(covered, notcovered, buildable, holdoff)
     IN  /\ tasks_notcovered' = notcovered
         /\ tasks_covered'    = covered
         /\ holdoff_tasks'    = holdoff
         /\ runq_buildable'   = buildable
         /\ sqdone' = (sqdone \/ (through /\ ~errors /\ ~SetsceneOnly))
         /\ rqstate' = IF through /\ errors THEN "Failed"
                       ELSE IF through /\ SetsceneOnly THEN "Complete"
                       ELSE rqstate
         /\ pc' = IF through /\ (errors \/ SetsceneOnly) THEN "return" ELSE "normal"
  /\ holdoff_need_update' = FALSE
  /\ UNCHANGED <<interrupt, procvars, stampvars, sq, sqactive, runq_running,
                 runq_complete, runq_tasksrun, failed_tids, active, build_stamps,
                 hashvars>>

-----------------------------------------------------------------------------
(* sched.next(): a buildable task the scene queue has decided about, unless *)
(* as many tasks of its name as number_threads allows are in progress, or a *)
(* task with its stamp runs.  The schedulers differ in the one they prefer. *)
InProgressNamed(n) == {r \in Tasks : InProgress(r) /\ TaskName[r] = n}

\* Mutant: off by one.
Mutant_ThreadFree(n) ==
  NumberThreads[n] # 0 => Cardinality(InProgressNamed(n)) <= NumberThreads[n]
ThreadFree(n) ==
  NumberThreads[n] # 0 => Cardinality(InProgressNamed(n)) < NumberThreads[n]

Schedulable(t) ==
  /\ CanStart(active + sqactive)
  /\ t \in runq_buildable \ (runq_running \cup holdoff_tasks)
  /\ t \in tasks_covered \cup tasks_notcovered
  /\ ThreadFree(TaskName[t])
  /\ StampName(t, "task", InitHash[t]) \notin BuildStamps

Scheduled(t) == pc = "normal" /\ ~SetsceneOnly /\ Schedulable(t)

NormalNone ==
  /\ pc = "normal"
  /\ SetsceneOnly \/ \A t \in Tasks : ~Schedulable(t)
  /\ pc' = "tail"
  /\ UNCHANGED <<rqstate, interrupt, procvars, stampvars, sqvars, holdvars, runqvars,
                 build_stamps, hashvars>>

TaskCurrent(t) == StampCurrent(stamps, setscenestamps, unihash, t)

(* check_setscenewhitelist                                                  *)
\* Mutant: only tasks with a setscene variant are checked.
Mutant_WhitelistFails(t) ==
  /\ SceneEnforced /\ t \in Enforced \cap Setscene
  /\ t \notin tasks_covered /\ ~TaskCurrent(t) /\ t \notin Noexec
WhitelistFails(t) ==
  /\ SceneEnforced /\ t \in Enforced
  /\ t \notin tasks_covered /\ ~TaskCurrent(t) /\ t \notin Noexec

TaskWhitelistFail(t) ==
  /\ Scheduled(t) /\ WhitelistFails(t)
  /\ active' = IF active > ActiveFloor THEN active - 1 ELSE active
  /\ failed_tids' = NowFailed(t)
  /\ rqstate' = TaskFailState
  /\ pc' = "return"
  /\ UNCHANGED <<interrupt, procvars, stampvars, sqvars, holdvars, runq_buildable,
                 runq_running, runq_complete, runq_tasksrun, build_stamps, hashvars>>

(* task_skip, and the noexec branch: t is complete without a process; "ran" *)
(* says whether it counts as run.                                           *)
CompleteAtOnce(t, ran) ==
  /\ runq_running'   = runq_running \cup {t}
  /\ runq_complete'  = runq_complete \cup {t}
  /\ runq_tasksrun'  = IF ran THEN runq_tasksrun \cup {t} ELSE runq_tasksrun
  /\ runq_buildable' = runq_buildable \cup {t}
                        \cup Unblocked(t, runq_complete \cup {t}, runq_running \cup {t})
  /\ pc' = "return"
  /\ UNCHANGED <<rqstate, interrupt, procvars, sqvars, holdvars, failed_tids, active,
                 build_stamps, hashvars>>

TaskCovered(t) ==
  /\ Scheduled(t) /\ t \in tasks_covered
  /\ CompleteAtOnce(t, FALSE)
  /\ UNCHANGED stampvars

TaskExisting(t) ==
  /\ Scheduled(t) /\ t \notin tasks_covered /\ TaskCurrent(t)
  /\ CompleteAtOnce(t, TRUE)
  /\ UNCHANGED stampvars

MustRun(t) ==
  /\ Scheduled(t) /\ t \notin tasks_covered /\ ~TaskCurrent(t) /\ ~WhitelistFails(t)

TaskNoexec(t) ==
  /\ MustRun(t) /\ t \in Noexec
  /\ CompleteAtOnce(t, TRUE)
  /\ IF DryRun \/ SceneEnforced
     THEN UNCHANGED stampvars
     ELSE /\ stamps' = MakeStamps(stamps, {t}, unihash)
          /\ setscenestamps' = CleanStamp(setscenestamps, t)

TaskStart(t) ==
  /\ MustRun(t) /\ t \notin Noexec /\ worker = "up"
  /\ procs' = procs \cup {Process(t, "task", "run", unihash[t])}
  /\ build_stamps' = With(build_stamps, t, StampName(t, "task", unihash[t]))
  /\ runq_running' = runq_running \cup {t}
  /\ active' = active + 1
  /\ pc' = IF CanStart(active + 1 + sqactive) THEN "return" ELSE "tail"
  /\ UNCHANGED <<rqstate, interrupt, worker, sent, stampvars, sqvars, holdvars,
                 runq_buildable, runq_complete, runq_tasksrun, failed_tids, hashvars>>

(* A task to start, or the hashes that changed, are written to a worker that *)
(* died.  The hashes come before anything migrates; they are not flushed,   *)
(* so that it need not be noticed.                                          *)
WriteCrash ==
  /\ worker = "dead"
  /\ \/ \E t \in Setscene : MustRestore(t)
     \/ \E t \in Tasks : MustRun(t) /\ t \notin Noexec
     \/ pc = "migrate" /\ migrating.changed /\ migrating.update = {}
  /\ Crash

-----------------------------------------------------------------------------
(* Nothing more to start: wait for what is active, or see how it ended.     *)

TailWait ==
  /\ pc = "tail" /\ (active > 0 \/ sqactive > 0)
  /\ rqstate' = StateOnRead(rqstate)
  /\ pc' = "wait"
  /\ UNCHANGED <<interrupt, procvars, stampvars, sqvars, holdvars, runqvars,
                 build_stamps, hashvars>>

Idle == pc = "tail" /\ active <= 0 /\ sqactive <= 0

(* "Deadlocked on deferred tasks, forcing task": what pop(key) returns, and *)
(* what is forced, is the task the first deferred one was waiting for.      *)
TailForce ==
  /\ Idle /\ DOMAIN sq.deferred # {}
  /\ LET t == First(DOMAIN sq.deferred)
     IN  sq' = SqFailOutrightAll(Undeferred(t), {sq.deferred[t]})
  /\ holdoff_need_update' = TRUE
  /\ pc' = "return"
  /\ UNCHANGED <<rqstate, interrupt, procvars, stampvars, sqactive, sqdone,
                 holdoff_tasks, tasks_covered, tasks_notcovered, runqvars,
                 build_stamps, hashvars>>

TailDone ==
  /\ Idle /\ DOMAIN sq.deferred = {}
  /\ LET errors == \/ SceneErrors(tasks_covered, tasks_notcovered, runq_buildable,
                                  holdoff_tasks)
                   \/ ~(Tasks \subseteq runq_buildable \cap runq_running
                                       \cap runq_complete)
     IN  rqstate' = IF failed_tids # {} \/ errors THEN "Failed" ELSE "Complete"
  /\ pc' = "return"
  /\ UNCHANGED <<interrupt, procvars, stampvars, sqvars, holdvars, runqvars,
                 build_stamps, hashvars>>

-----------------------------------------------------------------------------
StampsOf(S) ==
  [b \in Bases |-> [h \in Hashes |->
     IF \E t \in Tasks : StampBase[t] = b /\ <<t, h>> \in S THEN Old ELSE Missing]]

Init ==
  /\ rqstate = "SceneInit" /\ pc = "idle" /\ interrupt = 0
  /\ worker = "up" /\ procs = {} /\ sent = {}
  /\ \E S \in SUBSET OldStamps : stamps = StampsOf(S)
  /\ \E S \in SUBSET OldSetsceneStamps : setscenestamps = StampsOf(S)
  /\ sq = NewSceneQueue([s \in Setscene |-> StampName(s, "setscene", InitHash[s])])
  /\ sqactive = 0 /\ sqdone = FALSE
  /\ holdoff_need_update = TRUE /\ holdoff_tasks = {}
  /\ tasks_covered = {} /\ tasks_notcovered = {}
  /\ runq_buildable = {} /\ runq_running = {} /\ runq_complete = {}
  /\ runq_tasksrun = {} /\ failed_tids = {} /\ active = 0
  /\ build_stamps = [t \in {} |-> t]
  /\ unihash = InitHash /\ updated_taskhash_queue = {}
  /\ pending_migrations = {} /\ migrating = NotMigrating

Environment ==
  \/ \E p \in procs : \E h \in Reports(p) : TaskSucceeds(p, h) \/ TaskFails(p, h)
  \/ WorkerDies
  \/ \E how \in {1, 2} : UserInterrupts(how)

Read == ReadUniHash \/ (\E t \in Tasks : ReadExit(t)) \/ ReadDone

Loop == SceneInit \/ BeginPass \/ Finish \/ Return \/ Check \/ TearDown

Migration ==
  \/ Rehash \/ NothingToRehash \/ MigrateDone
  \/ \E t \in Setscene : MigrateNot(t) \/ Migrate(t)

Scene ==
  \/ SceneNone
  \/ \E t \in Setscene :
       \/ SceneNotNeeded(t) \/ SceneStaysInvalid(t) \/ SceneOutrightFail(t)
       \/ SceneRunInstead(t) \/ SceneSkip(t) \/ SceneStart(t)

Normal ==
  \/ NormalNone
  \/ \E t \in Tasks : \/ TaskWhitelistFail(t) \/ TaskCovered(t) \/ TaskExisting(t)
                      \/ TaskNoexec(t) \/ TaskStart(t)
  \/ WriteCrash

TailEnd == TailWait \/ TailForce \/ TailDone

Stopped == pc = "end" /\ UNCHANGED vars

Next == Environment \/ Read \/ Loop \/ Migration \/ Scene \/ UpdateHoldoff
          \/ Normal \/ TailEnd \/ Stopped

Spec == Init /\ [][Next]_vars

-----------------------------------------------------------------------------
SceneQueueType ==
  [buildable : SUBSET Setscene, running : SUBSET Setscene, live : SUBSET Setscene,
   covered : SUBSET Setscene, notcovered : SUBSET Setscene,
   notneeded : SUBSET Setscene, done : SUBSET Tasks,
   outrightfail : SUBSET Setscene, valid : SUBSET Setscene,
   stamppresent : SUBSET Setscene,
   deferred : UNION {[D -> Setscene] : D \in SUBSET Setscene},
   stamps : [Setscene -> StampNames]]

(* Every variable keeps its type.                                           *)
TypeOK ==
  /\ rqstate \in RqStates /\ pc \in Stages /\ interrupt \in 0..2
  /\ worker \in {"up", "dead", "gone"}
  /\ procs \subseteq Processes /\ sent \subseteq Tasks \X Hashes
  /\ stamps \in StampState /\ setscenestamps \in StampState
  /\ sq \in SceneQueueType /\ sqdone \in BOOLEAN
  /\ holdoff_need_update \in BOOLEAN /\ holdoff_tasks \subseteq Tasks
  /\ tasks_covered \subseteq Tasks /\ tasks_notcovered \subseteq Tasks
  /\ runq_buildable \subseteq Tasks /\ runq_running \subseteq Tasks
  /\ runq_complete \subseteq Tasks /\ runq_tasksrun \subseteq Tasks
  /\ failed_tids \subseteq Tasks
  /\ \E D \in SUBSET Tasks : build_stamps \in [D -> StampNames]
  /\ active \in Int /\ sqactive \in Int
  /\ unihash \in [Tasks -> Hashes]
  /\ updated_taskhash_queue \subseteq Tasks \X Hashes
  /\ pending_migrations \subseteq Setscene
  /\ migrating \in [todo : SUBSET Setscene, update : SUBSET Setscene,
                    harddepfail : SUBSET Setscene, changed : BOOLEAN]

-----------------------------------------------------------------------------
(* Safety                                                                   *)

(* A task is started, skipped or marked done only when everything it        *)
(* depends on is complete, whichever of the routes to setbuildable (the end *)
(* of a dependency, the holdoff update, the endpoints) it came by.          *)
DependenciesComplete ==
  \A t \in runq_buildable \cup runq_running : Depends[t] \subseteq runq_complete

(* A task never runs without its inputs: whatever it depends on has run (in *)
(* this build or, going by its stamp, an earlier one), or has been restored *)
(* from the cache and not written off as not needed.                        *)
FromCache(d) == d \in sq.covered \ sq.notneeded
InputsPresent ==
  \A p \in procs : p.kind = "task" =>
    \A d \in Depends[p.task] : d \in runq_tasksrun \/ FromCache(d)

(* No setscene task is both covered and not covered                         *)
(* (summarise_scenequeue_errors calls that a bug).                          *)
CoveredOrNot == sq.covered \cap sq.notcovered = {}

(* A task and its setscene variant never run at once, nor does either twice.*)
OneProcessPerTask == \A p, q \in procs : p.task = q.task => p = q

(* Of setscene tasks that would leave the same output behind, and that are  *)
(* in no cache, a pair is not built at once: the second waits for the       *)
(* first, and then finds its output.  (Of three, two wait for the first     *)
(* only; and nothing holds back twins that were in the cache, but could not *)
(* be restored.)                                                            *)
TwinsNotBuiltAtOnce ==
  \A p, q \in {r \in procs : r.kind = "task" /\ r.task \in sq.outrightfail} :
    PendingHashIndex(p.task, unihash) = PendingHashIndex(q.task, unihash) => p = q

(* A deferred task is marked to fail outright, so that the mark can be taken *)
(* away when the task it waits for has put its output into the cache        *)
(* (outrightfail.remove).                                                   *)
DeferredFailsOutright ==
  pc # "migrate" => DOMAIN sq.deferred \subseteq sq.outrightfail

(* Tasks that share a stamp file never run in parallel.                     *)
NoSharedStamp ==
  \A p, q \in procs :
    StampName(p.task, p.kind, p.hash) = StampName(q.task, q.kind, q.hash) => p = q

(* The counters can_start_task goes by are the processes there are.         *)
ActiveCountsProcesses ==
  worker = "up" =>
    /\ active = Cardinality({p \in procs : p.kind = "task"})
    /\ sqactive = Cardinality({p \in procs : p.kind = "setscene"})

(* At most BB_NUMBER_THREADS tasks run at any one time.                     *)
ParallelLimit == Cardinality({p \in procs : p.status = "run"}) <= NumberTasks

(* A build that nobody interrupted, and whose worker lives, is Complete when*)
(* it has completed every task, and has left nothing running.               *)
Undisturbed == interrupt = 0 /\ worker = "up"
CompleteMeansBuilt ==
  rqstate = "Complete" /\ Undisturbed /\ ~SetsceneOnly
    => runq_complete = Tasks /\ procs = {}

(* A build that stops, for whatever reason but a forced one, first waits    *)
(* for the tasks it has started (finish, runQueueExitWait).                 *)
StopWaits ==
  pc = "teardown" /\ interrupt # 2 /\ worker = "up" => procs = {}

(* With -k, all that does not depend on a failed task is built.             *)
BuildsWhatItCan ==
  pc = "end" /\ interrupt = 0 /\ ~Abort /\ ~WorkerMayDie /\ ~SetsceneOnly
    => Tasks \ (failed_tids \cup Downstream(failed_tids)) \subseteq runq_complete

(* A task is not skipped for the stamp an earlier build left when something *)
(* it depends on in its recipe has been run again in this build.            *)
ExistingIsUpToDate ==
  \A t \in runq_tasksrun :
    Age(stamps, unihash, t) = Old =>
      \A d \in Depends[t] : Fn[d] = Fn[t] => Age(stamps, unihash, d) # Fresh

(* A setscene task is never restored into a recipe one of whose tasks it    *)
(* stands for is still running.                                             *)
NoRestoreWhileCoveredRuns ==
  \A p, q \in procs :
    p.kind = "setscene" /\ q.kind = "task" => q.task \notin SqCoveredTasks[p.task]

(* A setscene task is only restored on top of those it explicitly depends   *)
(* on: they have been restored before.                                      *)
HardDepsRestored ==
  \A p \in procs : p.kind = "setscene" =>
    \A d \in Setscene : p.task \in HardDeps[d] => FromCache(d)

(* bitbake -f really rebuilds its targets: none is restored, covered or     *)
(* taken for built.                                                         *)
ForcedTargetsBuilt ==
  ForceTargets /\ rqstate = "Complete" /\ Undisturbed =>
    \A t \in Targets \ Nostamp : Age(stamps, unihash, t) = Fresh

CoveredInTheEnd(t) == \E s \in sq.covered : t \in {s} \cup SqCoveredTasks[s]

(* What BB_SETSCENE_ENFORCE does not allow to be built is complete, and so  *)
(* an input of what runs, only when an earlier build has built it, when     *)
(* there is nothing to execute, or when the scene queue covered it.         *)
EnforcedFromCache ==
  SceneEnforced => \A t \in runq_complete \cap Enforced :
    Age(stamps, unihash, t) = Old \/ t \in Noexec \/ CoveredInTheEnd(t)

RestoreFailed == Enforced \cap MayFail \cap (sq.notcovered \ sq.outrightfail) # {}

(* A build under BB_SETSCENE_ENFORCE that comes to Complete has completed   *)
(* every task, unless a task that was in the cache could not be restored    *)
(* and is not allowed to be built (sq_check_taskfail, which puts no task on *)
(* record as failed).                                                       *)
EnforcedOutcome ==
  SceneEnforced /\ rqstate = "Complete" /\ interrupt = 0 /\ ~WorkerMayDie /\ ~SetsceneOnly
    => runq_complete = Tasks \/ RestoreFailed

(* No more than number_threads tasks of one name run.                       *)
ThreadLimit ==
  \A n \in {TaskName[t] : t \in Tasks} : NumberThreads[n] # 0 =>
    Cardinality({p \in procs : p.kind = "task" /\ TaskName[p.task] = n})
      <= NumberThreads[n]

(* A build fails because a task did, never because the scene queue lost     *)
(* track of one (the sanity checks at its end).                             *)
FailedMeansTaskFailed == rqstate = "Failed" => failed_tids # {}

(* The abandoned build never happens: no task that was skipped as covered   *)
(* is needed again when a setscene task above it goes back to the queue.    *)
SkippedStaysSkipped == \A t \in Setscene : MayMigrate(t) => SkippedBelow(t) = {}

-----------------------------------------------------------------------------
(* What belongs together                                                    *)

(* A failure does what it must and no more: with -k all else is built, and  *)
(* the build is only failed by a task (scenequeue_updatecounters, the       *)
(* sanity checks at the end of execute).                                    *)
FailuresContained == BuildsWhatItCan /\ FailedMeansTaskFailed

(* Tasks that would write the same are kept apart, by deferral or by the    *)
(* name of their stamp, and a deferral ends (update_scenequeue_data,        *)
(* RunQueueScheduler).                                                      *)
TwinsKeptApart == TwinsNotBuiltAtOnce /\ NoSharedStamp /\ DeferredFailsOutright

(* What the scene queue has decided fits together, also after tasks came    *)
(* back to it (process_possible_migrations).                                *)
SceneQueueSound == CoveredOrNot /\ HardDepsRestored

(* A setscene task only goes back to the queue when nothing it covers is    *)
(* being built, or was passed over for it and is needed now                 *)
(* (process_possible_migrations).                                           *)
MigrationsSafe == NoRestoreWhileCoveredRuns /\ SkippedStaysSkipped

(* Stamps of earlier builds are trusted when they may be, and only then     *)
(* (check_stamp_task, the targets of -f).                                   *)
StampsTrusted == ExistingIsUpToDate /\ ForcedTargetsBuilt

(* The books of the executer are in order, and so are the tasks it takes on *)
(* (setbuildable, task_complete).                                           *)
ExecutionSound == TypeOK /\ DependenciesComplete

(* BB_SETSCENE_ENFORCE: what must not be built comes from the cache or the  *)
(* build ends without it, and does not call that complete but in one case   *)
(* (check_setscenewhitelist, sq_check_taskfail).                            *)
EnforcementKept == EnforcedFromCache /\ EnforcedOutcome

(* No limit on what runs at once is exceeded, and what is counted for it is *)
(* what runs (can_start_task, next_buildable_task).                         *)
LimitsKept == ActiveCountsProcesses /\ ParallelLimit /\ ThreadLimit

-----------------------------------------------------------------------------
(* Steps                                                                    *)

(* A task that a setscene task may make superfluous waits for its outcome.  *)
HoldoffRespected ==
  [][\A t \in runq_running' \ runq_running : \A s \in Setscene :
        t \in {s} \cup SqCoveredTasks[s] => s \in Settled(sq)]_vars

-----------------------------------------------------------------------------
(* The executer does what TaskExecution promises.                           *)
Execution == INSTANCE TaskExecution WITH
  started <- runq_running, complete <- runq_complete, ended <- (pc = "end")

ImplementsTaskExecution == Execution!Spec

-----------------------------------------------------------------------------
(* Liveness: processes end, the server keeps calling its idle functions,    *)
(* and a message that is in the pipe gets read.                             *)
Server == Read \/ Loop \/ Migration \/ Scene \/ UpdateHoldoff \/ Normal \/ TailEnd

TaskEnded(t) == \E p \in procs : p.task = t /\ \E h \in Reports(p) :
                                TaskSucceeds(p, h) \/ TaskFails(p, h)

Fairness ==
  /\ WF_vars(Server)
  /\ SF_vars(ReadUniHash)
  /\ \A t \in Tasks : WF_vars(TaskEnded(t)) /\ SF_vars(ReadExit(t))

FairSpec == Spec /\ Fairness

(* Every build ends.                                                        *)
Terminates == <>(pc = "end")

=============================================================================
