# BitBake in TLA+

The repository is a Yocto distribution: the build tool BitBake
(`src/poky/bitbake`), the recipes and classes it reads (`src/poky/meta*`,
`src/meta-*`), and scripts. The program, as opposed to the data it works on, is
BitBake. Its core is the *run queue* (`lib/bb/runqueue.py`; line numbers without
a file are of that file): it takes the graph of all tasks of a build, decides for
each whether its output can be taken from shared state ("setscene") or must be
built, and runs the tasks in worker processes, in order, in parallel, while
hashes change under its feet. Around it are a server that survives its clients,
worker processes at the other end of two pipes, servers for hashes and package
revisions, and processes that share files under locks. These modules model the
run queue and what is around it, model-check each on small instances, and prove
the central properties for every instance.

## 1. Inventory

| Component | State | Operations | Talks to | What is hard | What makes it correct |
|---|---|---|---|---|---|
| **RunQueueExecute** (1693-2499) | `runq_buildable/running/complete/tasksrun`, `failed_tids`, `build_stamps`, counters, `holdoff_tasks`, `tasks_covered/notcovered` | one pass of `execute()`; `task_complete/fail/skip`, `update_holdofftasks` | scene queue, scheduler, workers' pipes, stamps | reads of several pipes between the stages of a pass; partial failure; counters kept by hand | order, inputs present, limits, nothing twice, ends, builds what it can |
| **Scene queue** (2424-2499, 2755-2815) | `sq_buildable/running/live`, `scenequeue_covered/notcovered/notneeded`, `tasks_scenequeue_done`, `SQData`, `sq_deferred` | `sq_task_complete/fail/failoutright/skip`, `update_scenequeue_data` | sstate cache (`validate_hashes`), stamps | cascades of failures, deferral behind a twin, tasks that come back | every task decided once, never both ways |
| **Scene queue construction** (2582-2753) | work lists `endpoints`, `newendpoints` | `process_endpoints`, hard dependencies | task graph | order of dictionaries and sets | one result whatever the order, acyclic |
| **Migration** (2260-2422) | `updated_taskhash_queue`, `pending_migrations`, `unihash` | `process_possible_migrations` | siggen, scene queue | reports race with exit codes and with the tasks above | nothing restored under a running task, nothing skipped that is needed |
| **RunQueue** (1207-1690) | `state`, workers | `execute_runqueue`, `finish_runqueue`, `teardown_workers` | cooker's idle loop | interrupts, dead worker, exit codes that arrive during teardown | waits for what it started, ends, reports what happened |
| **Scheduler** (118-206) | `prio_map`, `stamps` | `next_buildable_task` | RunQueueExecute | cached names of stamps, `number_threads` | only buildable tasks; one task per stamp file |
| **Stamps** (`runqueue.py` 1327-1398, `build.py` 656-748) | files | `make_stamp`, `check_stamp_task` | all of the above, across builds | what an earlier build left | no stale task is taken for built |
| **TaskData** (`taskdata.py`, `cooker.py` 575-684) | `build_targets`, `run_targets`, `failed_fns`, `failed_deps`, `external_targets` | `add_provider`, `add_rprovider`, `add_tasks`, `fail_fn`, `remove_buildtarget`, `remove_runtarget`, `add_unresolved` | providers, recipe cache | functions that call each other while failures spread, exceptions out of the middle | what cannot be built is left out with what needs it, nothing else, and no target in silence |
| **RunQueueData** (196-1204) | the task graph: `runtaskentries` | `prepare`, `calculate_task_weights` | TaskData | recursive dependencies, pruning and putting back, loops | the graph is acyclic, complete, and what was asked for |
| **bitbake-worker** (`bin/bitbake-worker`) | `queue`, `build_pids`, `build_pipes`, `worker_queue` | `serve`, `handle_item`, `handle_runtask`, `process_waitpid`, `handle_finishnow`, `worker_flush` | RunQueue through two pipes, its children through pipes and signals | what one read returns, full pipes, signals during a fork, children reaped in two places, either end dying | one true exit code per task, after its events; hashes as sent; everything ends |
| **hashserv** (`hashserv/server.py`, `client.py`) | table `tasks_v2`; a client's connection and mode | `get`, `get-stream`, `report`, `report-equiv`; `_send_wrapper`, `connect` | siggen | requests sent again, modes restored while connections break, concurrent builds | equal outputs share a unihash; what was answered stays true |
| **siggen** (`siggen.py` 415-632) | `unihash`, `unitaskhashes` | `get_unihash`, `report_unihash`, `report_unihash_equiv` | hashserv, run queue | answers that come late | a unihash stands only for tasks with that output |
| **prserv** (`serv.py`, `db.py`) | a database, an open transaction, a request queue | `getPR`, `quit`, sync; handlers of SIGINT and SIGTERM | package tasks | a commit from a signal handler, death between two syncs | one value per checksum, later ones higher, one at most lost |
| **ProcessServer** (`server/process.py`, `main.py`) | lock, socket, control connection, idle functions, `newconnections` | `main`, `idle_commands`, `setup_bitbake`, `connectProcessServer` | UI clients, cooker | start and end of servers under one lock; hand-over between clients, any of which may die | one server, found by its socket; all are served and end |
| **Cooker, commands, events** (`cooker.py`, `command.py`, `event.py`) | `state`, `currentAsyncCommand`, UI handlers | `runCommand`, `runAsyncCommand`, `shutdown`, `clientComplete`, `fire` | server, run queue | a command that outlives its client, stops between two idle calls | one build at a time; a stop is final; events go home |
| **Lock files** (`utils.py` 459-521) | files, inodes, locks | `lockfile`, `unlockfile` | fetcher, caches, server | unlink between open and lock, inode numbers used again | mutual exclusion |
| **fetch2** (`fetch2/__init__.py`) | `DL_DIR`, done stamps | `download`, `unpack`, `clean`, mirrors | lock files | failure and death midway, bad mirrors, recipes that disagree | what has a stamp is right; a good source suffices |
| **Parser pool, caches** (`cooker.py` 1890-2195, `cache.py` 790-878) | queues of jobs and results, files of extras | `Parser.run`, `parse_next`, `shutdown`, `save_extras`, `save_merge` | lock files, server | a bounded pipe, two ways to stop, merges beside writers | nothing found is lost; parsing ends |
| parser, data store, UIs, toaster, layer index, recipes | | | | | left out: text processing, presentation, data |

How they interact. `buildTaskData` and `prepare` make the graph of a build before
the first pass over it. A client (`bitbake`) takes `bitbake.lock`; if it gets it, it
starts a server, which inherits the lock, and if it does not, it connects to the
server there is. The server is one thread: it takes connections, runs the
commands of the one client it serves, and calls idle functions. One of these is
the asynchronous command: it parses (with a pool of processes) and then calls
`buildTargetsIdle` again and again; that calls `execute_runqueue`, which makes
one pass of `execute()`. A pass reads the pipes of the workers
(`runQueuePipe.read`), and whatever it reads is handled there and then: exit
codes through `runqueue_process_waitpid`, changed hashes through an event into
`updated_taskhash_queue`. A worker process per multiconfig forks a process per
task; that process writes the stamp of the task, reports the hash of its output
to the hash server, asks the PR server for a revision when it packages, and
locks files in `DL_DIR` when it fetches; its exit code comes last.

## 2. Modules

| Module | Models | Role |
|---|---|---|
| `RunQueueData` | the task graph (a CONSTANT) and what `build_scenequeue_data` derives from it | base of the run queue's modules |
| `SceneQueue` | the methods of the scene queue, as operators on a record | used by `RunQueueExecute` |
| `Stamps` | stamp files, `make_stamp`, `check_stamp_task` | used by `RunQueueExecute` |
| `RunQueueExecute` | the executer, the workers as it sees them, the server's loop | specification |
| `TaskExecution` | what running a build promises | abstract specification, implemented by `RunQueueExecute` |
| `TaskData` | from targets to recipes: providers, and failures that spread | actions for `PrepareRunQueue` |
| `PrepareRunQueue` | from recipes to the graph of tasks, on `TaskData` | specification |
| `BuildSceneQueue` | the algorithm of `build_scenequeue_data`, step by step, for any graph | shows that `RunQueueData`'s definitions are what the code computes |
| `BitbakeWorker` | the worker, its tasks' processes, both pipes and the server's end of them | specification |
| `HashServ` | hash equivalence server and client connections | actions for `PackageFeed` |
| `PRService` | PR server: handler thread, main thread, signals, database | specification, and actions for `PackageFeed` |
| `PackageFeed` | builders that use both services | composition |
| `ProcessServer` | clients, servers, their connections, commands and events | specification |
| `LockFile` | `lockfile`, `unlockfile`, the file system | specification, and actions for the next two |
| `Fetch` | fetching, unpacking, cleaning one file of `DL_DIR`, on `LockFile` | specification |
| `RecipeParsing` | parser pool and caches of extras, on `LockFile` | specification |
| `MCRunQueue`, `MCGraph` (the three above), `MCBitbakeWorker`, `MCPackageFeed`, `MCProcessServer`, `MCFiles` | small instances | for TLC |
| `RunQueueSafetyProofs`, `RunQueueOutcomeProofs`, `GraphProofs` (`BuildSceneQueue`, `TaskData`, `PrepareRunQueue`), `BitbakeWorkerProofs`, `PackageFeedProofs`, `FilesProofs` (`LockFile`, `Fetch`, `RecipeParsing`), `ProcessServerProofs` | | theorems |
| `ClosureLemmas` | | what recursive functions on sets return, for the two about graphs and the queue |

Where a definition `Mutant_X` stands before `X`, it is `X` with a plausible bug;
`PROJECT.json` says which property finds it.

### The executer (`RunQueueExecute`)

`pc` is the stage of the pass: `read`, `rehash`, `migrate`, `scene`, `holdoff`,
`normal`, `tail`, `wait`, `return`, then `finish`, `finishread`, `check`,
`teardown`, `end` for the end of a build, and `idle` between two calls. A pass
that returns early in the code goes straight to `return`. The processes, the
death of the worker and interrupts are interleaved with all of it. Each action
names the method it stands for; the variables have the names of the code's
attributes, and those of the scene queue are fields of `sq`.

Where a method reads a pipe, the pipe is read message by message
(`ReadUniHash`, `ReadExit`), and `ReadDone` ends the read at any point: any
prefix of what was sent may have arrived.

What is abstracted:

- *The order among equals.* The scheduler's priorities are left open: any task
  it may return, it returns. The order of `pending_migrations` and of
  `sq_deferred` matters and is kept (any, and sorted, respectively).
- *Hashes* are model values. When a hash changes, the tasks downstream get any
  new hashes, but a task none of whose dependencies changed keeps its own. A
  process reports at most one hash, and only a task with a setscene variant
  reports one (`report_unihash`).
- *The cache* holds any subset of `Cached` each time `validate_hashes` asks.
  `setscene_depvalid` (external, `BB_SETSCENE_DEPVALID`) is the constant
  `DepValid`.
- *Stamps* have an age, `Missing`, `Old` or `Fresh`, per base name and hash.
  Only `BB_STAMP_POLICY = "perfile"` (the default) is modelled, and without
  `stampcache`: what `check_stamp_task` found out of a dependency in a recursive check
  (1389-1397) is used by later ones (2018, 2781) and forgotten only when that very
  task migrates (2403). A cached answer may be older than the stamps, and decide
  otherwise than `StampCurrentRecursive` does; see the limits.
- *Several workers* (one per multiconfig, one for fakeroot) are one. That the
  fakeroot worker cannot be started is not modelled.
- With `BB_SETSCENE_ENFORCE`, `runtask` messages of normal tasks carry the flag
  dry-run, and so their processes only pretend (`Pretends`).

### From targets to the graph of tasks (`TaskData`, `PrepareRunQueue`)

`stage` says where `buildTaskData` and then `prepare` are. `TaskData` handles an
item at a time (`AddProvider`, `NoProvider`), and a file of it at a time
(`AddFile`). What fails goes on in `cascade`, the stack of calls of `fail_fn`
(`op = "fail"`, over the items that lose the file) and of `remove_buildtarget` and
`remove_runtarget` (`op = "remove"`, over the files that need the item): one turn of
one of their loops is an action, `Return` is the end of a call, and `Raise` the
exception that ends all of them, which `add_unresolved` may catch. Build and run
targets have different names, so one set `failed_deps` stands for the two lists.
Recipes, the command line and which providers are eligible are variables that
are chosen in `Init` and never change.

`PrepareRunQueue` goes through the steps of `prepare`: `ResolveDepends` (part A),
`WalkUp` (a turn of the loop that fills `cumulativedeps`), `Recurse` and `Recursed`
(part B, a task at a time), `MarkAndPrune` (steps B and C), `RunAll`, `RunOnly`,
`CheckGraph` and `Weigh` (step D). `taskdepends` has the tasks that were pruned,
too (`delcount`); `active` is what is in `runtaskentries`. Each way in which it can
end without a graph (`fatal`, an exception, nothing to do) is a value of `stage` of its
own (`Outcomes`).

### The construction of the scene queue (`BuildSceneQueue`)

It walks the work lists in every order; its input is chosen in `Init` among
*all* acyclic graphs of N tasks. `CollapsedCorrectly` compares its result with
the closed forms in `RunQueueData`, which is why the executer may use them.

### The worker (`BitbakeWorker`)

The worker's main thread goes round in `serve()`; `wpc` is where it is: in
`select`, at one of the kinds of messages `handle_item` is called for, at the
tasks' pipes, at `process_waitpid`, in the two steps of `handle_finishnow` for
each child, or on its way out. A second thread (`Flush`) writes. Each task's
process goes through fork, `setsid`, the setting of its own handlers, its
reports, its end, and is a zombie until it is reaped. The server's end waits in
`Write` without reading, as `RunQueue.send` does; when it is told to finish now,
it sends `finishnow` and closes down. A select that finds nothing is left out.
Messages are atoms, but how many of them a read returns is open, which is what
`handle_item` trips over.

### Hashes and package revisions (`HashServ`, `PRService`, `PackageFeed`)

A builder (a build with its own client) goes through the stages of a task: it
asks for the unihash of its taskhash, builds, reports the hash of one of the
outputs the task may make, maps its unihash if the server answers another,
and asks for a PR value with the unihash as the checksum. Or a migration gives a task
another taskhash: the builder asks for its unihash (`Rehash`) and, when that is not
the one the task was restored as, reports the two as equivalent (`Remap`). The
taskhashes are those of one task, so a builder knows the unihash of one at a time
(`SetUnihash`), and asks again when it comes back to another. A client's call is a queue of messages of which the
first is tried; a lost connection is noticed at the next use. `connect()`
restores the mode with a message that is tried in the same way (`nested`). The
server's handlers are atomic, as there is no `await` inside them.

The PR server's handler thread and its main thread share a database connection;
an open transaction is `dirty`, what was committed is `prdisk`. The signal
handlers are steps of the main thread between any two steps of the other. The
death of the server drops what is not on disk.

### Server and clients (`ProcessServer`)

A server goes through the stages of a round of `main()`; `mem[s]` is what it
remembers: whom it serves, who waits, the idle function, the state of the
cooker, whose command is current. `lock` and `sockname` are the two files.
A connection is known by its client. Abstractions:

- stages of a round for which `select()` had nothing are left out;
- parsing and building take any number of rounds and may fail;
- the state `shutdown` stands for `forceshutdown`, too;
- each kind of fault happens once, and `MaxFaults` of them in one behaviour;
  clients die only while they hold the lock, a connection, or are served (a
  death at another time leaves nothing behind);
- a client that is served is answered within the time it waits (60 seconds);
- the lock is taken in one step (its steps are `LockFile`'s);
- a command is answered in the step that takes it, but for a stop during
  parsing: that may leave the server waiting for its parsers (`joining`) for
  as long as they like, the request still unanswered, and the client gives up after
  60 seconds (`Unanswered`);
- the branch of `main()` for an end of file on the command channel (212-216) is
  left out: the client's socket closes first, and that ends the connection.

### Locks, fetches, parsing (`LockFile`, `Fetch`, `RecipeParsing`)

`LockFile` has an inode or none under the lock's name, and for each process the
file it has open, its lock on that inode, and where in `lockfile()` or
`unlockfile()` it is. An inode that nobody has open and no name refers to is
free and used again. `Fetch` is one file of `DL_DIR`: its contents, its stamp's
checksums, and `fresh`, whether the stamp is the newer. What the premirror,
upstream and the mirror offer is chosen in `FetchInit`, and so is what earlier
builds left. A process may die at any step, with the file or the stamp half
written (`Halfway`). `RecipeParsing` has a buffer per parser (the feeder thread
of its queue), the pipe, and the files of extras; `terminate()` has no effect on
a parser, because it inherits the server's handler of SIGTERM.

## 3. Runs

Every run is exhaustive. Builds of the run queue have at most seven tasks in
four recipes; two hashes are enough for a hash to differ from the one a task
started with, and `NumberTasks = 2` makes the limit bite while there are up to
three candidates.

| Run | Instance | Question | Properties |
|---|---|---|---|
| `core` | twins that share stamps of their compile steps, `-k`, 4 tasks may fail | does a build do the right things in the right order, and all it can? | ExecutionSound (TypeOK, DependenciesComplete), FailuresContained (BuildsWhatItCan, FailedMeansTaskFailed), TwinsKeptApart (TwinsNotBuiltAtOnce, NoSharedStamp, DeferredFailsOutright), HoldoffRespected |
| `rehash` | two packages report new hashes, one needs the other restored; app has an early and a late step; the worker may die | do migrations ever get a task without inputs, twice, at the wrong time? | InputsPresent, OneProcessPerTask, SceneQueueSound (CoveredOrNot, HardDepsRestored), MigrationsSafe (NoRestoreWhileCoveredRuns, SkippedStaysSkipped), ImplementsTaskExecution |
| `stop` | `-f`, any old stamps of another task, noexec, failures, interrupts, death of the worker, `number_threads` | does a build that stops wait for its tasks, and end; are stamps trusted only when they may be? | StampsTrusted (ExistingIsUpToDate, ForcedTargetsBuilt), CompleteMeansBuilt, StopWaits, LimitsKept (ActiveCountsProcesses, ParallelLimit, ThreadLimit), Terminates |
| `enforce` | `BB_SETSCENE_ENFORCE` without `-k`, old stamps, a restore may fail | where does what must not be built come from, and is it in a build that is called complete? | EnforcementKept (EnforcedFromCache, EnforcedOutcome) |
| `graphs` | 4 recipes with up to 4 tasks, `-k` or not, every choice of dependencies and providers that `MCGraph` lists; all graphs of 4 tasks, up to 2 explicit dependencies | is what can be built found out, and is its graph the right one? is the collapse independent of the order, acyclic, complete? does all of it end? | ProvidersResolved (TaskDataTypeOK, OnlyHopelessFailed, HopelessFailed), GraphPrepared (PrepareTypeOK, LoopsRefused, OnlyNeeded, NoTargetLost), RecursionComplete, CollapseIsRight (NeverFatal, CollapsedCorrectly, SceneQueueAcyclic, EveryTaskDecided), GraphsEnd |
| `worker` | 2 tasks, pipes of 2 and 1 messages, 2 changes of hashes, finish_now, death of either side | is every exit code true and in order, every task answered, and does the worker end? | WorkerSound (TypeOK, EventsFirst), HashesInOrder, ExitCodesAreTrue, Answered, WorkerEnds |
| `feed` | 2 builders, 3 taskhashes of which 2 share an output and one may be remapped to the other, 2 lost connections, restarts, signals, a crash | do builders agree, do hashes mean what they should, do PR values go up? | OneUnihashPerOutput, UnihashesSound (TypeOK, BuildersAgree, UnihashIsSound, ModesAgree), FirstReportWins, PRFollowsChecksum, OnlyLastAtRisk, WaitingEnds (CallsEnd, QuitEnds) |
| `server` | 2 clients (two builds, or a build and `--kill-server`), 2 server names, one fault | one server and one build at a time, events to their client, and all end? | ServersSound (TypeOK, OneServer, SocketFound), CommandsKeptApart (OneBuild, EventsGoHome), StopIsFinal, AllEnd |
| `files` | 3 processes, 2 inodes, one death: fetches of two versions; 2 parsers and the server with 2 recipes; or any use of `lockfile()` | does the lock exclude, is what is fetched and cached right, does it end? | LockSound (LockTypeOK, MutualExclusion), FetchSound (FetchTypeOK, StampTrue, FetchedIsRight, UnpackedIsRight), UpstreamSuffices, FindsSound (ParseTypeOK, NothingLost, AllMerged), WaitingEnds (FetchesEnd, ParsingEnds) |
| `enforce_loop` | `BB_SETSCENE_ENFORCE`, `-k` | **violation** of Terminates | |
| `framing` | as `worker`, nothing dies or stops | **violation** of ExitsNormally | |
| `joining` | as `files`, parsing only | **violation** of SoftStopReturns | |

In brackets are the parts of a property that is a conjunction; each part is a
definition with a comment of its own, and the text below speaks of the parts.

Deadlock is checked for the run queue. `worker`, `feed`, `server` and `files` have
`CHECK_DEADLOCK FALSE`: there everything may stop, when all clients, builders or
processes have done what they came for; that they get there is what the
liveness properties say.

### Bounds

- `RunQueueExecute`: the size of the graphs, and `ActiveFloor`, below which
  `active` is not followed (it only falls below zero in builds with
  `BB_SETSCENE_ENFORCE`).
- `TaskData`, `PrepareRunQueue`: four recipes allow a required target, two providers
  of one item, and a recipe that fails what they need; four names of tasks, of
  which two have recursive dependencies (on their own name, or on others with
  `recideptask`); one name each for `--runall` and `--runonly`. Dependencies may
  form loops of recipes, which tasks may or may not inherit: a loop of DEPENDS is
  refused, one of RDEPENDS is not.
- `BuildSceneQueue`: `N = 4`, `MaxHardDeps = 2`. A diamond, a chain of covered
  tasks, and two explicit dependencies that would close a loop, all fit.
- `BitbakeWorker`: `Room`, `RoomBack` (messages a pipe holds; one or two make
  both ends wait), `MaxHashes` (2: a change before and one after a request). Two
  tasks are enough for one to be reaped in place of the other.
- `HashServ`, `PRService`: `Retries = 1` where the code has 3, so that
  `MaxLosses = 2` exhausts them; `MaxHashStops`, `MaxSignals`, `MaxQuits`,
  `MaxCrashes`, `MaxPRLosses` bound each kind of fault and `MaxFaults` their
  sum; `MaxBuilds` the tasks per builder; `MaxPR` the values. t1 makes two
  outputs, of which t2 makes one: the smallest set in which two taskhashes are
  equivalent by chance. A builder that comes back to a taskhash after another takes
  three builds by one builder, more than the run has; the theorems of `PackageFeed` are
  for any number.
- `ProcessServer`: `Backlog = 2`; `Retries = 2` and `WaitRounds = 1` for the code's
  8 and 50; `Timeout = "none"` (the default); server names are used again, so a
  client may see any number of servers.
- `LockFile`, `Fetch`, `RecipeParsing`: two inodes make a number be used again
  while a process still waits with the old file open; `MaxDeaths = 1`;
  `PipeRoom = 1` lets a parser wait for room with one result.

### Limits of the properties, all seen with the model

- `NoTargetLost` is checked where every item has one provider at most. With several
  and without `-k`, two things go wrong. The file of a target is noted when it
  is added (`cooker.py` 645); if that file fails later and another provider is left,
  `prepare` passes the target over (880), and may end in "No active tasks and
  not in --continue mode?! Please report this bug." And `NoProvider` for a required
  target, raised in the middle of a cascade, is caught by `add_unresolved`
  (`taskdata.py` 513) if what was being added was not asked for: the build goes on
  without the target.
- `HopelessFailed` looks at DEPENDS and RDEPENDS: a file that is added after an item in
  a task's `[depends]` has failed stays, because `add_tasks` does not ask for these (152).
- `OnlyHopelessFailed` counts an item with several providers as lost when one is: the loop over
  the providers adds them one by one, and the first takes the item down with it
  before the second is added.
- `RecursionComplete` is checked with flags like those of the classes in `meta`. `WalkUp`
  never completes a task in a loop, and what is above it gets less; with recipes
  that need each other to run (the links between their do_build are removed
  later, 823, so the graph is accepted) the rounds of `Recurse` make up for it, as
  each name a recursive task asks for leads further down. With a do_build that
  asks for do_build only and no `rdeptask`, dependencies are missing. What is *beneath* a
  task is taken from `cumulativedeps` of recipes that need something themselves: a
  recipe named in `[depends]` only, with nothing beneath it, is not counted, which is
  somewhat less than the manual promises.
- `--runall` ends in a KeyError where a task put back depends on a pruned one (848);
  `-c task-` of a task without dependencies ends in "Please report this bug", too,
  and `NoTargetLost` does not speak of it.

- `TwinsNotBuiltAtOnce` is checked while hashes stay. `update_scenequeue_data`
  starts `sq_deferred` from nothing (2792) whenever a setscene task migrates,
  and only looks at tasks that are not settled: a task deferred behind one that
  is settled but still being built is then free, and the twins are built side
  by side. Nor does anything hold back twins that *were* found in the cache and
  could not be restored. And it is about pairs: of three twins two wait for the first
  (2810-2814), and if that leaves nothing in the cache for them, both fail outright
  (1998-2004), one pass after the other, and are then built side by side. (TLC finds
  this with three leaves of one recipe name.)
- Two steps put a task on both books, covered and not covered, of which
  `runqueue.py:1938` says "that is a bug". Deadlocked on deferred tasks, the code
  fails what `sq_deferred.pop` returns (2155): not the deferred task but the one it
  waits for, which may be covered (TLC finds this with `CoveredOrNot` in the
  instance of `core`). And a task that goes back to the queue after a change of
  hashes is covered by `update_scenequeue_data` if it has a stamp, and then failed
  all the same if one it explicitly depends on has failed (2418; in the instance of
  `rehash`, with a stamp of app's package under its second hash, and app's package
  in need of tool's). `CoveredOrNot` is checked, as part of `SceneQueueSound`, in a
  build where neither can happen; `SceneQueueSoundAlways` (section 4) says that
  there is no third way.
- With `number_threads` and `-k`, a failed task keeps its slot for ever (160), as
  it never comes to `runq_complete`; tasks of its name are not built.
- After a hash change, the scheduler's table of stamp names (176) is old while
  `build_stamps` is new: two tasks with one stamp file may then run at once.
  `NoSharedStamp` is checked while hashes stay.
- `AbandonBuild`, the branch of `process_possible_migrations` that fails the
  build, is never taken in these builds; that is what SkippedStaysSkipped says.
- With `BB_SETSCENE_ENFORCE` and `-k`, the negative count that `task_fail` leaves
  behind (2092, 1907) also breaks `ParallelLimit` and `StopWaits`; and a
  setscene task that may not fail but does (2472) stops the build with
  `failed_tids` empty, so that it reports that all tasks succeeded
  (`CompleteMeansBuilt`). `EnforcementKept` therefore has one exception, `RestoreFailed`:
  it says that this failure is the *only* way to a Complete build that lacks a
  task, not that the failure is harmless. The run is without `-k`, as Terminates is
  violated with it; the theorem is for both.
- `StampsTrusted`, and with it every choice between restoring, skipping and building
  after a recursive check of stamps, is about a code that looks at the stamps each
  time; a stale answer in `stampcache` (section 2) is not met by any run or theorem.
- `HoldoffRespected` is checked in a build without changes of hashes, where
  `holdoff_tasks` goes stale only by setscene tasks that end; that it is not stale after a
  migration either is said by `HoldoffRespectedAlways` alone.
- The deadlock of deferred tasks (2153) is met in `core` only; `rehash`, where
  `SceneQueueSound` is checked, has no deferrals.
- A worker that is dead when `<newtaskhashes>` is written to it (2329-2333) ends the
  build with an exception; `WriteCrash` is that, as for the other messages.
- `FirstReportWins` needs a clock that does not go back (`ClockGoesBack = FALSE`):
  which of two rows is the first is decided by `datetime.now()`.
- `ModesAgree` needs fewer losses than a message has tries: when the message that
  restores the stream mode fails for good, the client goes on in the other mode.
- `PRFollowsChecksum` needs a server that is not killed; what a death takes is
  what `OnlyLastAtRisk` says.
- `EventsGoHome` allows that a client hears the end of the command of a client
  that is gone: `finishAsyncCommand` (`command.py` 128-136) does not ask whose
  command it was, and the client that hears it leaves.
- `StopIsFinal` holds as long as the client stays: `clientComplete` sets the state
  to `initial`, and a command that was being stopped may come to build.
- `AllEnd` does not hold when the server is killed: its client waits for events
  (`knotty.py` 598) for ever. And it has an exception for a stop during parsing, which
  may leave the server in `process.join()` (`cooker.py` 2082) for good, as the run
  `joining` shows: then its clients still come to their end, by the 60 seconds a client
  waits for an answer, but the server stays, and keeps `bitbake.lock`.
- `--kill-server` sends `terminateServer` and closes the connection (`main.py`
  477-478) in two steps. A server that wakes up between them quits. One that
  wakes up after both finds the socket closed first, drops the command with
  the connection, and only goes because nobody is left: with clients that wait, or
  with `BB_SERVER_TIMEOUT`, it stays, although the option is to "Terminate any running
  bitbake server" (`main.py` 272). No property is about that.
- `WorkerEnds` stops short of the wait for the writing thread when the server is
  dead: `worker_flush` ignores EPIPE and tries for ever.
- `UnpackedIsRight` holds for recipes that agree on the checksum; otherwise the
  other's file is unpacked, for `unpack` (1808) verifies nothing.
- `ParsingEnds` makes an exception for a soft stop, for the reason `joining` shows.

### What the violation runs show

- **enforce_loop** (`runqueue.py:2092`). A task the whitelist fails is not put
  into `runq_running`: with `-k` it is scheduled, and fails, on every pass.
- **framing** (`bin/bitbake-worker:397`). `handle_item` asks once whether the queue
  begins with a start tag, and then takes everything up to each end tag of that
  kind for a message. With `runtask`, `newtaskhashes`, `runtask` in one read, it
  unpickles from the middle of the second. The worker ends with a traceback, and
  the server says it "exited unexpectedly" (`runqueue.py:2955`). For the server
  to send the three without waiting, a task must be asked for just before and
  just after a change of hashes, while the worker is busy.
- **joining** (`cooker.py:2082`). On a soft stop during parsing, `shutdown` empties the
  queue until a quarter of a second passes in silence, "otherwise there might be
  deadlocks" (2069), and joins the parsers. A parser busy for longer than that
  quarter of a second puts its results afterwards, and cannot end before they
  are read.

### Fairness

- *Run queue.* `FairSpec` assumes that the server is called again (`WF` of its
  steps: the idle loop of the process server), that every task process ends
  (`WF` of `TaskEnded`), and that what is in a pipe is read in the end: a read
  may stop anywhere, so a message is only again and again *enabled* while
  the server is in a reading stage, hence `SF` of `ReadExit` and `ReadUniHash`
  (`select` brings the server back as long as a pipe has data).
- *Graphs.* `WF` of the one thread.
- *Worker.* `WF` of each thread and process: the server's write and read, the loop,
  the writing thread, and each task's process (a task ends).
- *Feed.* `WF` of each client's connection, with the server's loop that answers
  it, of the PR handler thread, its main thread, and the reading of its answer.
  Builders need not start anything.
- *Server.* `WF` of each client and of the servers' steps. `SF` of `Passes` and
  `Relocks`: time-outs pass although rounds of the loop come in between, and the
  lock, which its users hold for moments, is obtained in the end (the kernel's
  `flock` queue; a try every 3 seconds).
- *Files.* `WF` that something goes on as long as anything can: the weakest there
  is. Nobody has to stop the parsing, and nobody has to die.

Nothing is assumed of interrupts, deaths, lost connections, signals, or which task
succeeds.

## 4. Proofs

`tlapm` checks, for all values of the constants:

*Run queue* (for every acyclic graph). Two modules, one on the other:
`RunQueueSafetyProofs` (types, what the operators of the scene queue keep, and what
the executer never does) and `RunQueueOutcomeProofs` (what a build comes to).

- **TypeCorrect**: `Spec => []TypeOK`, inductive as it stands. Each stage of the
  pass has a lemma; `Keeps` says of each operator of the scene queue that it keeps
  the queue's type and loses nothing of `running` and `live`.
- **DependenciesCompleteAlways**: inductive. `runq_complete` only grows, and
  each of the routes into `runq_buildable` (start-up, `Unblocked`,
  `UpdateHoldoff`) asks for the dependencies. It does not use `TypeOK`. The two are
  the parts of `ExecutionSound`, which the run `core` checks (**ExecutionSoundAlways**).
- `Coherent` is the invariant nearly all the rest stands on, because none of the
  properties is inductive: each relates the books of the executer to those of the
  scene queue, and a migration changes the latter task by task. It says, part by
  part:
  *QueueRight*, what is settled or live is on `sq.running`, a failure has taken down
  what hard-depends on it except for those `migrating.harddepfail` has still to
  fail, and nothing that hard-depends on another is started before that is
  covered; *PendingRight*, a task about to migrate is neither covered nor being
  restored, and a round of migrations knows what it has changed (the state between
  two of its steps); *StartedRight*, whatever is started came after the scene queue
  had settled every setscene task above it; *HoldoffFresh*, `holdoff_tasks` holds
  at least what `update_holdofftasks` would put there now, or
  `holdoff_need_update` or `migrating.changed` is set; *ProcsRight*, a process is of a
  task in progress or of a live setscene task, one each.
  From it: **OneProcessPerTaskAlways**, **HoldoffRespectedAlways** (the
  stale holdoff), **MigrationsSafeAlways** (the branch that abandons a build
  because something was skipped is dead code), and
- **EnforcementKeptAlways** (`BB_SETSCENE_ENFORCE`, with `-k` or without), in two halves.
  Processes only pretend in such a build, so no stamp is written and no hash
  reported (`NoNews`). `EnforcedRight` follows a task that must not be built to where it
  came from: it has no process; if it is on `runq_tasksrun` a stamp was the reason, and
  that is an old one, as there are no others; and otherwise what is complete was
  skipped for a setscene task which the scene queue has covered and which stays so,
  though failures go on beside it. `EndRight` is about the result: the build only
  gives up (CleanUp, `finish`) because a task failed or a restore did (`HasCause`), and
  it gets to the end of the queue with nothing left over.
- **Refinement**: `Spec => ImplementsTaskExecution`. A step maps to `Start`
  (`TaskStart`), `Complete` (an exit code read), `Skip` (covered, existing stamp,
  noexec), `End`, or a stutter. That `Complete` never hits a task that was not
  started or is complete already is where `Coherent` is needed: it makes the test
  `task in self.sq_live` in `runqueue_process_waitpid` safe.
- **InputsPresentAlways**, with `RunsWhatItMust` added: what runs had to be built,
  and no setscene task above it goes back to the queue meanwhile; what was
  skipped as covered is not an endpoint's need. **HardDepsRestoredAlways** is about the
  inputs of setscene tasks. **SceneQueueSoundAlways** adds that no task is covered
  and not covered, in every build that takes neither of the two steps that do
  this (section 3, limits). Those steps are told by the state they start from
  (`FailsCovered`), so the theorem is about `Spec /\ [][~FailsCovered]_vars`; what it needs
  besides `Coherent` is that a task that went back to the queue in the round of
  migrations under way is not settled before the round ends (`UpdateFresh`).
- **ThreadLimitAlways** and **LimitsKeptAlways**, with `Counted`: while the worker
  lives, `active` and `sqactive` are the numbers of processes.
- **CompleteMeansBuiltAlways** and **StopWaitsAlways**, with `QueueWhole` (a task that
  goes back to the queue leaves no hole: every task below an undecided setscene
  task is decided upon with it, complete, or needed anyhow), `HoldoffExact` (the
  sets `update_holdofftasks` computed last are exactly those of now) and `EndsRight` (a
  pass only comes to an end with nothing running).
- **FailedMeansTaskFailedAlways**: the sanity checks at the end of `execute` and
  `summarise_scenequeue_errors` never fail a build. `OfferedRight`: what is decided
  upon and can run is in `runq_buildable`; `PassRight`: what each stage of a pass
  leaves for the next, so that in `tail` with nothing active there really is
  nothing to start; `DoneRight`: `sqdone` means every setscene task is decided upon. That some
  undecided setscene task is always free to go (`SomeSceneFirst`) needs
  that explicit dependencies among setscene tasks form no circle.
- **FailuresContainedAlways** (`-k`), with `AccountsRight`: a failed task stays in
  progress for ever; everything else in progress is what `active` counts.
- **StampsTrustedAlways**, in two halves. That an old stamp is only trusted while
  nothing below it in its recipe was run again follows from `StampsRight`: a stamp of
  this build is that of a task that was started, and has replaced all its task had left
  before (`make_stamp` cleans), so that what is run later cannot belie a test made
  earlier, because dependencies are complete by then. For `-f`, `ForcedRight` says that
  a target is never covered, live or made to look built by a stamp it did not write,
  through migrations and rehashes (`TargetsBare`, `TargetsOut`), and is complete only with
  a stamp of this build (`TargetsBuilt`). That the build knows the target by the hash
  of that stamp is about the hashes under way: `MessagesRight` follows a report from the
  process through the pipe and `updated_taskhash_queue`, and shows that nothing which was
  started gets another hash but the one it reported; `NothingUntold`, that no report is
  left when the build is Complete.

  Some hold under hypotheses; each is named in the theorem:

  | Hypothesis | Why | In the runs |
  |---|---|---|
  | `~SceneEnforced` (limits, outcome) | the failures of `BB_SETSCENE_ENFORCE` are counted as ends of processes that never were; run `enforce_loop` shows what comes of it | `core`, `rehash`, `stop` |
  | `NoChainSpared` (inputs) | `setscene_depvalid` may spare a task in the middle of a chain of explicit dependencies, and then what is above it is restored without it | all |
  | `CoveredOrNot` (inputs) | a state predicate: two steps may put a task on both books (section 3, limits) | all but for states past such a step |
  | `[][~FailsCovered]_vars` (`SceneQueueSound`) | the same two steps, excluded as steps | `rehash`, `stop`, `enforce` |
  | `HardDepsAcyclic` (outcome) | the metadata must see to it: `BB_SETSCENE_DEPS` in a circle are refused nowhere | all |
  | `SetsceneOnly => Setscene # {}` (outcome) | with `--setscene-only` and no setscene task `sqdone` is set at once (runqueue.py:1482-1488), and the checks at the end of `execute` fail the build | all |
  | `NumberThreads` is 0 for the tasks that may fail (`FailuresContained`) | a failed task is never complete, so it keeps the place `next_buildable_task` counts (runqueue.py:160) | `core`, `rehash`, not `stop` |

  | `StampsApart` (stamps) | the stamp file of tasks that share one (the twins of `core`) speaks of whichever wrote it last | `stop` |
  | `NostampUnstamped` (stamps) | about earlier builds: `exec_task` makes no stamp for a nostamp task | all |
  | with `-f`: `~DryRun`, `~SceneEnforced`, `~SetsceneOnly` (stamps) | such a build writes no stamps for its tasks, or does not run them | `stop` |
  | with `-f`: `TargetsTainted` (stamps) | `-f` works through `invalidate_task`, which gives the target a hash no earlier build has a stamp for; if processes may report hashes, none it may get has | `stop` |
  | with `-f`: `ScenesExecuted` (stamps) | a noexec setscene variant counts as covered at once, and the target is not built | `stop` |

  One thing the proof of `FailuresContained` met that no property is about: a failed
  task whose process reported a new hash leaves its entry in
  `updated_taskhash_queue` for ever, because `process_possible_migrations` waits for it
  to be out of progress. The build has failed by then, so nothing waits on the entry.

*Graphs* (any recipes, files and items; any acyclic graph). `build_scenequeue_data`
and `TaskData` are algorithms whose results other modules take for granted.

- **CollapseRightAlways** (`CollapseIsRight`), in whatever order the tasks of
  `sq_revdeps_new` are taken. `CollapseInv` has three layers: *CollatedSound*, what
  has been handed to a task are setscene tasks it reaches by a path without
  others; *OnlyHanded*, *NoneDropped* and *TurnToCome*, that a task passes on
  exactly what it was handed, none is lost on the way, and none is handed
  something after its turn - the reason the loop may delete from the sets it goes
  by; *Processed*, so that after the last turn each setscene task has all it
  should. `UnskippableSound` and `HardDepsEntered` are the other two results.
- **ProvidersResolvedAlways** (`ProvidersResolved`). That an item or file failed for a
  reason and that nothing failed was overlooked are the two halves of a least
  fixpoint. *FailedForAReason* is stated as: whatever set is closed under the ways
  to fail contains what has failed; steps keep that where they would not keep the
  fixpoint itself, which grows as recipes are seen. *NothingForgotten* says of
  every item which is needed that it is provided, failed, or still to be looked
  at - in `waiting`, on the stack of the cascade, or in the next round, as
  `RoundsComplete` has it. The second half only holds for runs that no exception
  cuts off (`Regular`), which is what `ProvidersResolved` claims.
- **GraphPreparedAlways** (`GraphPrepared`). *MarkedRight*: the graph holds what its
  tasks depend on, and what nothing in it waits for was asked for, through the targets,
  `--runall` and `--runonly`. *WeighedRight*, on the loop of
  `calculate_task_weights`: the tasks that have handed their weight down
  (`HandedDown`) have no loop among them, a task's counter is the number of those
  waiting for it that have not, and each that has weighs less than what it waits
  for. So when the loop ends with all counters at zero there is no loop in the
  graph; and otherwise the tasks left over each wait for another of them, which
  is a loop. For `NoTargetLost`, *StrictInv*: where every item has one provider at
  most, the first failure of a build that aborts ends in `NoProvider`, because all
  there is was needed from a target on (`Rooted`), so that the cascade climbs up to
  one (`NoneLeftOut`, `FailsAtOnce`), and until then every target's file is on the list `prepare`
  takes them from (`TargetsTurned`).
- **RecursionCompleteAlways** (`RecursionComplete`). *WalkedRight*: a task is told of
  the recipes beneath another once, when all beneath that one is known (`Told`), so
  that what `cumulativedeps` lacks is above a loop; *RecursedRight*: one round
  of the recursion finds all a task wants (`WantedBy`), and removing the
  self references takes away nothing else. The theorem has two conclusions. `FoundBeneath`
  is about one task at a time, and asks that no loop of direct dependencies is
  beneath that one; where there is none at all, `RecursionComplete` holds as the
  run checks it.

*Worker* (any tasks, any pipes). **RunInOrder** and **CodesTrue**, both from
`WorkerInv`. The worker's queue, its pipe and what the server is about to write
make one line of messages; `LineOK` says of it that a request for a task meets, after
the changes of hashes before it have been applied, the version it was sent with,
that nothing is asked for twice, and nothing follows `quit`. `CodesOK` follows an
exit code from a zombie through `worker_queue` and the pipe back to the server; a
process reaped by `handle_finishnow` is in no list of the reaped that
`process_waitpid` will report. **SoundAlways** is about `WorkerSound`: the pipes stay
within their room and the books agree, and a task's exit code is not heard before
what the task had to tell. The way back is one line, too, `OutLine` (pipe and
`worker_queue`): every exit code of a task that has fired its event comes after
that event in the line, or the event has been heard (`ToldFirst`). This holds while
`srv = "run"`; `handle_finishnow` and SIGTERM do lose events.

*Services* (any builders and outputs). **OutputsAgree**: the table keeps
`OneUnihashPerOutput` because an insertion with an output hash that has a row
takes that row's unihash, and `report-equiv` writes rows without output hash.
**FirstWins** (a clock that does not go back): a new row is no older than those
there are, so it is never the one `FastQuery` takes. **ValuesFollow** and
**LastAtRisk** are about `PRSpec`: `PRInv` orders the values on disk, in the open
transaction and given out. **UnihashesSoundAlways** is about the builders
(`UnihashesSound`), from `FeedInv`: what is in a client's `todo` is what its stage asks
(`CallRight`), so the reply and the result belong to the task at hand
(`ReplyRight`, `ResultRight`); every row's unihash is of the class of its task, and its
output one of the task's (`RowsSound`), which an insertion keeps because a row with the
same output is of the same class; an answered report has its row for ever
(`EquivalentsListed`), and so `OneUnihashPerOutput` makes builders agree. For the modes,
`Failures` counts what a message has lost so far against `losses`: with fewer losses
than tries no error is raised out of `connect`, and the mode the client remembers is
the one its next message wants (`ModeRight`). **FeedServed**: every step of
`PackageFeed` is one of `PRSpec` (`FeedUsesService`), as no builder asks for a value
before it has a unihash, so the two theorems about `PRSpec` hold in the composition.

*Process server* (any clients, servers and attempts). **ServersSoundAlways** (one
server at a time, its socket its own), **CommandsKeptApartAlways** (answers and
events go to the client they are for) and **StopIsFinalAlways**, all from
`ServerInv`: whoever is a server has the lock, and so has the client about to start
one (`LockRight`); a connection is used once, so a server that still holds one of a
client that has gone cannot mistake the next one for it (`ConnsRight`, with `Used`);
a client has the answer to what it asked last and to nothing else
(`ClientsRight`); the stages of the loop work from what `select` returned, which the
accept and the client may have made stale, or wait for the parsers with the request
still in the pipe (`StagesRight`); and the command in
progress is that of the client being served, unless its client is gone
(`CommandsRight`).

*Files* (any processes and inodes). **LockExcludes** (`LockSound`): a holder's inode is the named
one or another holder's of a shared lock that could not be promoted; `LockInv`
says that the name changes only in the hands of one with an exclusive lock on it.
**StampsTrue**, **FetchedRight**, **UnpackedRight**, together
**FetchKeepsItsWord** (`FetchSound`): from `FetchInv`, that only the
holder of the lock touches file and stamp (by `LockExcludes`' invariant), and that
a stamp that is believed is true. **FindsKept**, **FindsMerged**, together
**FindsKeptAndMerged** (`FindsSound`): a file that is
being written has its writer in possession of the shared lock, so the merge, with
the exclusive one, meets whole files only; and when all results came in, no parser
has anything left to save once it has been joined. **UpstreamIsEnough**
(`UpstreamSuffices`): a fetch that can reach an upstream with the right file
succeeds, whatever is cleaned and fetched beside it; `UpstreamInv` says what the holder
of the lock has established at each step of its way (`OnTheWay`).

Assumptions: dependencies are among the tasks and acyclic
(`DependsAssumption`, `AcyclicAssumption`; `prepare` refuses other graphs),
setscene tasks are tasks, each listed once (`SetsceneAssumption`),
`BB_NUMBER_THREADS` is positive (`NumberTasksAssumption`), hashes are of
`Hashes` and only tasks with a setscene variant report (`HashAssumption`); for the
other modules that special values are no elements of the sets they extend,
that bounds are natural numbers, and that the tasks of a worker, the recipes, the
recipe files and the names of tasks are finite in number. TLC evaluates them in every run.

The closures of the scene queue (`HardFailures`, `DoneAfter`, `PlainClosure`, ...)
are recursive functions on sets of tasks. What is needed of them - that they
contain what they start from, are closed, and stay among the tasks - is proved
without induction over data, from a largest set with the property sought
(`LargestSubset`, `GrowsBy` of `ClosureLemmas`), because the tasks are finite in
number. `LeastClosureIs` says from the same facts that such a function returns the
least set that is closed, from which `GraphProofs` gets what the collapse and the
cascade of failures compute. The same goes for loops: that peeling off what waits for
nothing leaves nothing (`PeelsOffIs`) is the same as that no set of tasks all wait for
one of their own (`NoneStuck`), which is the form the invariants keep; and `SumOfIs`
says that a sum of natural numbers is one and no less than any of them, all that the
weights need.

Left to TLC, and why:

- all liveness (fairness and `ENABLED` are out of the provers' reach);
- `TwinsKeptApart`: in general false, as section 3 (limits) shows for hashes that
  change and for three twins, so that only its parts could have theorems, for
  builds without these;
- `RecursionComplete` above loops: there it holds for the flags of the run, not for
  every set of flags (section 3, limits);
- the `violation` runs, which are counterexamples.

## 5. What could follow

1. `filterProviders` and its preferences, dependencies between multiconfigs, and the
   hashing at the end of `prepare`.
2. Proofs: the parts of `TwinsKeptApart` for builds without reports.
3. Parsers that are killed, and recipes that come from the cache.
4. The refinement of the executer's processes by `BitbakeWorker`.

The list of hazards in `PROJECT.json` names, line by line, what the modules are
for; those without properties say why.

## 6. Not modelled

The fetch back ends, the parser and the metadata language, the data store, the
user interfaces, toaster and the layer index: text processing, I/O or
presentation. The recipes and classes are the data of a build; what the run
queue asks of `sstate.bbclass` enters as constants, and of `package.bbclass` the
request for a PR value is modelled. Vendored libraries (ply, pyinotify, bs4, ...)
are not this program's. Logging, progress reports and statistics are left out of
every action. Within the modelled parts: the choice among providers, multiconfigs, and the check for
two versions of one recipe (`TaskData`, `PrepareRunQueue`); mirror tarballs, `file://` mirrors, URLs
without checksums and I/O errors (`Fetch`); recipes from the cache and killed
parsers (`RecipeParsing`); XMLRPC, observers and the configuration (`ProcessServer`);
the PR service's mode with history, its export and import; statistics and chunked
messages of the hash server; the stamp policies `full` and `whitelist`.

## 7. Running

    tlc -config RunQueue_core.cfg MCRunQueue
    tlc -config Graph.cfg MCGraph
    tlc -config ProcessServer.cfg MCProcessServer
    tlapm RunQueueOutcomeProofs.tla
    tlapm GraphProofs.tla

Each run takes at most about three minutes with two workers.
