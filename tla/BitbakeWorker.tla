---------------------------- MODULE BitbakeWorker ----------------------------
(***************************************************************************)
(* BitbakeWorker: the process that forks the tasks (bin/bitbake-worker),    *)
(* the tasks' processes, and the server's end of the two pipes to it        *)
(* (RunQueueWorker and runQueuePipe in lib/bb/runqueue.py).                 *)
(*                                                                          *)
(* Messages go down one pipe in order and exit codes and events come up the *)
(* other; both are of finite capacity, and the server does not read while   *)
(* it waits for room to write.  The worker's main thread goes round in      *)
(* serve(); a second thread writes what it queues.                          *)
(***************************************************************************)
EXTENDS Integers, Sequences, FiniteSets

CONSTANTS
  Tasks,
  Room,            \* messages the pipe to the worker holds
  RoomBack,        \* messages the pipe back holds
  Reporters,       \* tasks that have something to tell while they run
  MaxHashes,       \* bound: changes of the hashes sent to the worker
  MayFinishNow,    \* may the build be stopped at once?
  ServerMayDie, WorkerMayDie

ASSUME BitbakeWorkerAssumption ==
  /\ {Room, RoomBack} \subseteq Nat \ {0} /\ MaxHashes \in Nat
  /\ IsFiniteSet(Tasks) /\ Reporters \subseteq Tasks
  /\ {MayFinishNow, ServerMayDie, WorkerMayDie} \subseteq BOOLEAN

VARIABLES
  (* The server *)
  srv,             \* "run", "finish" (finish_now), "quit", "closed", "dead"
  sending,         \* what it waits to write, a sequence of at most one
  asked,           \* asked[t]: the version of the hashes t was asked for with, or -1
  sentHashes,      \* the version sent last
  heard,           \* heard[t]: the exit code read, or "none"
  heardEvents,     \* the tasks whose event was read
  (* The pipes *)
  stdin, stdout,
  (* The worker *)
  wpc,             \* "select", the item serve() is at, "pipes", "reap", in
                   \* handle_finishnow "kill" and "wait", "leaving", "gone"
  queue,           \* what it has read
  ready,           \* the pipes select() found something in
  newhashes,       \* workerdata["newhashes"]
  build_pids,
  tokill, dies,    \* in handle_finishnow: who is left; is it the last thing done?
  worker_queue,
  normalexit,
  (* The tasks' processes *)
  proc,            \* "none", "forked", "leader" (setsid), "ready" (its own handlers),
                   \* "zombie", "reaped", "orphan" (not followed any further)
  status,          \* how the process ended
  hashes,          \* the version of the hashes it was forked with
  siblings,        \* the worker's build_pids when it was forked
  term,            \* is a SIGTERM pending?
  pipe, fired      \* its pipe to the worker; the events it has written

srvvars  == <<srv, sending, asked, sentHashes, heard, heardEvents>>
loopvars == <<queue, ready, newhashes, build_pids, normalexit>>
killvars == <<tokill, dies>>
procvars == <<proc, status, hashes, siblings, term, pipe, fired>>
vars == <<srvvars, stdin, stdout, wpc, loopvars, killvars, worker_queue, procvars>>

Msg(op, t) == [op |-> op, task |-> t]
NoTask == "none"
Event(t)       == [op |-> "event", task |-> t, status |-> "none"]
ExitCode(t, s) == [op |-> "exitcode", task |-> t, status |-> s]

Up      == wpc # "gone"
Running == {"forked", "leader", "ready"}

-----------------------------------------------------------------------------
(* The server                                                               *)

\* Mutant: a message that does not fit into the pipe is given up.
Mutant_Sends(m) == srv \in {"run", "finish"} /\ sending' = <<m>>
Sends(m) == srv \in {"run", "finish"} /\ sending = <<>> /\ sending' = <<m>>

\* runtask, with the hashes as they are
AskFor(t) ==
  /\ srv = "run" /\ asked[t] = -1
  /\ Sends(Msg("runtask", t))
  /\ asked' = [asked EXCEPT ![t] = sentHashes]
  /\ UNCHANGED <<srv, sentHashes, heard, heardEvents, stdin, stdout, wpc, loopvars,
                 killvars, worker_queue, procvars>>

\* process_possible_migrations
SendHashes ==
  /\ srv = "run" /\ sentHashes < MaxHashes
  /\ Sends(Msg("newtaskhashes", NoTask))
  /\ sentHashes' = sentHashes + 1
  /\ UNCHANGED <<srv, asked, heard, heardEvents, stdin, stdout, wpc, loopvars,
                 killvars, worker_queue, procvars>>

FinishNow ==
  /\ MayFinishNow /\ srv = "run"
  /\ Sends(Msg("finishnow", NoTask))
  /\ srv' = "finish"
  /\ UNCHANGED <<asked, sentHashes, heard, heardEvents, stdin, stdout, wpc, loopvars,
                 killvars, worker_queue, procvars>>

\* _teardown_worker: finish() has waited for what is active, finish_now has not.
Active == {t \in Tasks : asked[t] # -1 /\ heard[t] = "none"}
TearDown ==
  /\ srv = "finish" \/ Active = {} \/ ~Up
  /\ Sends(Msg("quit", NoTask))
  /\ srv' = "quit"
  /\ UNCHANGED <<asked, sentHashes, heard, heardEvents, stdin, stdout, wpc, loopvars,
                 killvars, worker_queue, procvars>>

HasRoom == Len(stdin) < Room \/ ~Up

\* The write, which fails if there is nobody to read; after quit stdin is closed.
Write ==
  /\ sending # <<>> /\ HasRoom
  /\ stdin' = IF Up THEN Append(stdin, Head(sending)) ELSE stdin
  /\ sending' = <<>>
  /\ srv' = IF srv = "quit" THEN "closed" ELSE srv
  /\ UNCHANGED <<asked, sentHashes, heard, heardEvents, stdout, wpc, loopvars,
                 killvars, worker_queue, procvars>>

\* runQueuePipe.read, a message at a time
ReadBack ==
  /\ srv # "dead" /\ sending = <<>> /\ stdout # <<>>
  /\ LET m == Head(stdout) IN
     IF m.op = "event"
     THEN heardEvents' = heardEvents \cup {m.task} /\ UNCHANGED heard
     ELSE heard' = [heard EXCEPT ![m.task] = m.status] /\ UNCHANGED heardEvents
  /\ stdout' = Tail(stdout)
  /\ UNCHANGED <<srv, sending, asked, sentHashes, stdin, wpc, loopvars, killvars,
                 worker_queue, procvars>>

\* bound: not after finish_now
ServerDies ==
  /\ ServerMayDie /\ srv \in {"run", "closed"} /\ Up
  /\ srv' = "dead" /\ sending' = <<>>
  /\ UNCHANGED <<asked, sentHashes, heard, heardEvents, stdin, stdout, wpc, loopvars,
                 killvars, worker_queue, procvars>>

-----------------------------------------------------------------------------
(* A task's process: fork_off_task                                          *)

SetUp(t) ==
  /\ \/ proc[t] = "forked" /\ proc' = [proc EXCEPT ![t] = "leader"]
     \/ proc[t] = "leader" /\ proc' = [proc EXCEPT ![t] = "ready"]
  /\ UNCHANGED <<srvvars, stdin, stdout, wpc, loopvars, killvars, worker_queue,
                 status, hashes, siblings, term, pipe, fired>>

\* worker_child_fire blocks while the pipe is full.
Fire(t) ==
  /\ proc[t] = "ready" /\ t \in Reporters \ fired /\ pipe[t] = <<>>
  /\ pipe' = [pipe EXCEPT ![t] = <<Event(t)>>]
  /\ fired' = fired \cup {t}
  /\ UNCHANGED <<srvvars, stdin, stdout, wpc, loopvars, killvars, worker_queue,
                 proc, status, hashes, siblings, term>>

Ends(t, s) ==
  proc' = [proc EXCEPT ![t] = "zombie"] /\ status' = [status EXCEPT ![t] = s]

\* With an exit status of its own, whatever it is
Exit(t) ==
  /\ proc[t] = "ready"
  /\ Ends(t, "exited")
  /\ UNCHANGED <<srvvars, stdin, stdout, wpc, loopvars, killvars, worker_queue,
                 hashes, siblings, term, pipe, fired>>

OwnGroup == {t \in Tasks : proc[t] \in {"leader", "ready"}}

(* SIGTERM kills it.  Before it has handlers of its own it goes through the *)
(* worker's first, with what it inherited: it signals its siblings and      *)
(* reads their pipes.                                                       *)
Terminated(t) ==
  /\ term[t] /\ proc[t] \in Running
  /\ Ends(t, "killed")
  /\ IF proc[t] = "ready"
     THEN UNCHANGED <<term, pipe>>
     ELSE /\ term' = [u \in Tasks |-> term[u] \/ u \in siblings[t] \cap OwnGroup]
          /\ pipe' = [u \in Tasks |-> IF u \in siblings[t] THEN <<>> ELSE pipe[u]]
  /\ UNCHANGED <<srvvars, stdin, stdout, wpc, loopvars, killvars, worker_queue,
                 hashes, siblings, fired>>

-----------------------------------------------------------------------------
(* The worker's main thread: serve()                                        *)

Items == <<"newtaskhashes", "runtask", "finishnow", "quit">>
Later(op, i) == \E j \in (i + 1) .. Len(Items) : Items[j] = op

\* handle_item does nothing for an item the queue does not start with.
NextItem(q, i) == IF q # <<>> /\ Later(Head(q).op, i) THEN Head(q).op ELSE "pipes"
After(q, op) == NextItem(q, CHOOSE i \in 1 .. Len(Items) : Items[i] = op)

\* Mutant: the end of the file shows only if the server closed the pipe itself.
Mutant_EOF == stdin = <<>> /\ srv = "closed"
EOF == stdin = <<>> /\ srv \in {"closed", "dead"}

\* Mutant: the main thread writes to the pipe back itself.
Mutant_GoesOn == worker_queue = <<>>
GoesOn == TRUE

Select ==
  /\ wpc = "select" /\ ~EOF /\ GoesOn
  /\ queue' = queue \o stdin /\ stdin' = <<>>
  /\ ready' = {t \in build_pids : pipe[t] # <<>>}
  /\ wpc' = NextItem(queue', 0)
  /\ UNCHANGED <<srvvars, stdout, newhashes, build_pids, normalexit, killvars,
                 worker_queue, procvars>>

\* sigterm_exception
SelectEOF ==
  /\ wpc = "select" /\ EOF
  /\ wpc' = "kill" /\ tokill' = build_pids /\ dies' = TRUE
  /\ UNCHANGED <<srvvars, stdin, stdout, loopvars, worker_queue, procvars>>

(* handle_item, once the item has been found: as long as there is an end    *)
(* tag of its kind, the queue is taken to start with such an item.          *)
Handling(op) == wpc = op /\ Head(queue).op = op /\ queue' = Tail(queue)
Another(op)  == \E i \in DOMAIN queue : queue[i].op = op
GoOn(op)     == wpc' = IF Another(op)' THEN op ELSE After(queue', op)

HandleNewTaskHashes ==
  /\ Handling("newtaskhashes") /\ GoOn("newtaskhashes")
  /\ newhashes' = newhashes + 1
  /\ UNCHANGED <<srvvars, stdin, stdout, ready, build_pids, normalexit, killvars,
                 worker_queue, procvars>>

HandleRunTask ==
  /\ Handling("runtask") /\ GoOn("runtask")
  /\ LET t == Head(queue).task IN
     /\ build_pids' = build_pids \cup {t}
     /\ proc' = [proc EXCEPT ![t] = "forked"]
     /\ hashes' = [hashes EXCEPT ![t] = newhashes]
     /\ siblings' = [siblings EXCEPT ![t] = build_pids]
  /\ UNCHANGED <<srvvars, stdin, stdout, ready, newhashes, normalexit, killvars,
                 worker_queue, status, term, pipe, fired>>

HandleFinishNow ==
  /\ Handling("finishnow")
  /\ wpc' = "kill" /\ tokill' = build_pids /\ dies' = FALSE
  /\ UNCHANGED <<srvvars, stdin, stdout, ready, newhashes, build_pids, normalexit,
                 worker_queue, procvars>>

HandleQuit ==
  /\ Handling("quit")
  /\ normalexit' = TRUE /\ wpc' = "leaving"
  /\ UNCHANGED <<srvvars, stdin, stdout, ready, newhashes, build_pids, killvars,
                 worker_queue, procvars>>

\* What is between the tags is not a pickle: an exception, out of serve().
Garbled ==
  /\ wpc \in {Items[i] : i \in DOMAIN Items} /\ Head(queue).op # wpc
  /\ wpc' = "leaving"
  /\ UNCHANGED <<srvvars, stdin, stdout, loopvars, killvars, worker_queue, procvars>>

(* The tasks' pipes, and then process_waitpid until there is no zombie left.*)
Drained(S) == [t \in Tasks |-> IF t \in S THEN <<>> ELSE pipe[t]]
Orders(S)  == {o \in [1 .. Cardinality(S) -> S] : {o[i] : i \in DOMAIN o} = S}

\* In the order they were opened in
ReadFrom(S) ==
  /\ \E ts \in Orders(S) :
       worker_queue' = worker_queue \o [i \in DOMAIN ts |-> Event(ts[i])]
  /\ pipe' = Drained(S)

ReadPipes ==
  /\ wpc = "pipes" /\ wpc' = "reap"
  /\ ReadFrom({t \in ready : pipe[t] # <<>>}) /\ ready' = {}
  /\ UNCHANGED <<srvvars, stdin, stdout, queue, newhashes, build_pids,
                 normalexit, killvars, proc, status, hashes, siblings, term, fired>>

Zombies == {t \in Tasks : proc[t] = "zombie"}

\* Mutant: WEXITSTATUS of a process that was killed is 0.
Mutant_CodeOf(t) == IF status[t] = "killed" THEN "exited" ELSE status[t]
CodeOf(t) == status[t]

\* Mutant: the exit code is queued before the pipe is closed.
Mutant_Collected(t) == <<ExitCode(t, CodeOf(t))>> \o pipe[t]
Collected(t) == pipe[t] \o <<ExitCode(t, CodeOf(t))>>

Reap(t) ==
  /\ wpc = "reap" /\ t \in Zombies
  /\ build_pids' = build_pids \ {t} /\ proc' = [proc EXCEPT ![t] = "reaped"]
  /\ worker_queue' = worker_queue \o Collected(t) /\ pipe' = Drained({t})
  /\ UNCHANGED <<srvvars, stdin, stdout, wpc, queue, ready, newhashes,
                 normalexit, killvars, status, hashes, siblings, term, fired>>

NoneToReap ==
  /\ wpc = "reap" /\ Zombies = {}
  /\ wpc' = "select"
  /\ UNCHANGED <<srvvars, stdin, stdout, loopvars, killvars, worker_queue, procvars>>

(* handle_finishnow: SIGTERM to the process group of each task; that fails  *)
(* for one that has no group of its own yet, or was waited for.  Then wait  *)
(* for any child: its exit code is lost.                                    *)
KillOne(t) ==
  /\ wpc = "kill" /\ t \in tokill
  /\ tokill' = tokill \ {t}
  /\ IF t \in OwnGroup \cup Zombies
     THEN term' = [term EXCEPT ![t] = proc[t] # "zombie"] /\ wpc' = "wait"
     ELSE UNCHANGED <<term, wpc>>
  /\ UNCHANGED <<srvvars, stdin, stdout, loopvars, dies, worker_queue, proc, status,
                 hashes, siblings, pipe, fired>>

WaitOne(t) ==
  /\ wpc = "wait" /\ t \in Zombies
  /\ proc' = [proc EXCEPT ![t] = "reaped"] /\ wpc' = "kill"
  /\ UNCHANGED <<srvvars, stdin, stdout, loopvars, killvars, worker_queue, status,
                 hashes, siblings, term, pipe, fired>>

\* The worker that is gone takes what was not written with it.
Gone ==
  /\ wpc' = "gone" /\ worker_queue' = <<>>
  /\ proc' = [t \in Tasks |-> IF proc[t] \in Running THEN "orphan"
                              ELSE IF proc[t] = "zombie" THEN "reaped" ELSE proc[t]]
  /\ UNCHANGED <<srvvars, stdin, stdout, loopvars, killvars, status, hashes, siblings,
                 term, pipe, fired>>

\* The pipes are read; after a SIGTERM to the worker itself, in vain.
KilledAll ==
  /\ wpc = "kill" /\ tokill = {}
  /\ IF dies
     THEN Gone
     ELSE /\ UNCHANGED <<srvvars, stdin, stdout, loopvars, killvars, proc, status,
                         hashes, siblings, term, fired>>
          /\ ReadFrom({t \in build_pids : pipe[t] # <<>>})
          /\ GoOn("finishnow")

-----------------------------------------------------------------------------
(* The thread that writes (worker_flush)                                    *)

Flush ==
  /\ Up /\ worker_queue # <<>> /\ Len(stdout) < RoomBack /\ srv # "dead"
  /\ stdout' = Append(stdout, Head(worker_queue))
  /\ worker_queue' = Tail(worker_queue)
  /\ UNCHANGED <<srvvars, stdin, wpc, loopvars, killvars, procvars>>

\* The process ends when the thread has written all there was: never, when
\* there is something left and nobody to read it (EPIPE is no reason to stop).
Leave == wpc = "leaving" /\ worker_queue = <<>> /\ Gone

\* bound: not when it is to end anyway
WorkerKilled == WorkerMayDie /\ Up /\ srv = "run" /\ Gone

-----------------------------------------------------------------------------

Init ==
  /\ srv = "run" /\ sending = <<>> /\ sentHashes = 0
  /\ asked = [t \in Tasks |-> -1] /\ heard = [t \in Tasks |-> "none"]
  /\ heardEvents = {} /\ stdin = <<>> /\ stdout = <<>>
  /\ wpc = "select" /\ queue = <<>> /\ ready = {}
  /\ newhashes = 0 /\ build_pids = {} /\ normalexit = FALSE
  /\ tokill = {} /\ dies = FALSE /\ worker_queue = <<>>
  /\ proc = [t \in Tasks |-> "none"] /\ status = [t \in Tasks |-> "none"]
  /\ hashes = [t \in Tasks |-> -1] /\ siblings = [t \in Tasks |-> {}]
  /\ term = [t \in Tasks |-> FALSE] /\ pipe = [t \in Tasks |-> <<>>] /\ fired = {}

Server ==
  \/ \E t \in Tasks : AskFor(t)
  \/ SendHashes \/ FinishNow \/ TearDown \/ Write \/ ReadBack \/ ServerDies
Process(t) == SetUp(t) \/ Fire(t) \/ Exit(t) \/ Terminated(t)
Serve ==
  \/ Select \/ SelectEOF
  \/ HandleNewTaskHashes \/ HandleRunTask \/ HandleFinishNow \/ HandleQuit
  \/ Garbled \/ ReadPipes \/ NoneToReap \/ KilledAll
  \/ \E t \in Tasks : Reap(t) \/ KillOne(t) \/ WaitOne(t)

Next ==
  \/ Server \/ Serve \/ Flush \/ Leave \/ WorkerKilled
  \/ \E t \in Tasks : Process(t)

(* Threads and processes run, tasks end, and the server writes and reads    *)
(* whenever it can; what it asks for, and whether anything dies, is open.   *)
Fairness ==
  /\ WF_vars(Write) /\ WF_vars(ReadBack)
  /\ WF_vars(Serve) /\ WF_vars(Flush) /\ WF_vars(Leave)
  /\ \A t \in Tasks :
       WF_vars(SetUp(t) \/ Exit(t) \/ Terminated(t))

Spec == Init /\ [][Next]_vars /\ Fairness

-----------------------------------------------------------------------------
(* Properties                                                               *)

TypeOK ==
  /\ srv \in {"run", "finish", "quit", "closed", "dead"}
  /\ Len(sending) <= 1 /\ Len(stdin) <= Room /\ Len(stdout) <= RoomBack
  /\ asked \in [Tasks -> -1 .. MaxHashes] /\ sentHashes \in 0 .. MaxHashes
  /\ heardEvents \subseteq Tasks /\ fired \subseteq Tasks
  /\ wpc \in {Items[i] : i \in DOMAIN Items}
             \cup {"select", "pipes", "reap", "kill", "wait", "leaving", "gone"}
  /\ {normalexit, dies} \subseteq BOOLEAN
  /\ ready \subseteq build_pids /\ build_pids \subseteq Tasks
  /\ proc \in [Tasks -> Running \cup {"none", "zombie", "reaped", "orphan"}]
  /\ status \in [Tasks -> {"none", "exited", "killed"}]
  /\ term \in [Tasks -> BOOLEAN]

(* A task is run with the hashes the server had when it asked for it: not   *)
(* overtaken by those of a later change, and not started before those of an *)
(* earlier one are in place, however the messages fall into reads           *)
(* (handle_item, handle_newtaskhashes).                                     *)
HashesInOrder == \A t \in Tasks : proc[t] # "none" => hashes[t] = asked[t]

(* The exit code the server reads is that of the task's process, which has  *)
(* ended (process_waitpid).                                                 *)
ExitCodesAreTrue ==
  \A t \in Tasks : heard[t] # "none" => proc[t] = "reaped" /\ heard[t] = status[t]

(* What a task has to tell, a new unihash above all, reaches the server     *)
(* before its exit code does (process_waitpid closes the pipe first).       *)
EventsFirst ==
  srv = "run" => \A t \in fired : heard[t] # "none" => t \in heardEvents

(* The pipes, the books and the processes of the worker are in order, and   *)
(* no report of a task comes after its end (process_waitpid).               *)
WorkerSound == TypeOK /\ EventsFirst

(* A task that was asked for is answered for, unless the build is stopped   *)
(* or the worker ends.  "We can end up with write contention": the server   *)
(* and the worker never wait for each other, each for room in its pipe.     *)
Answered ==
  \A t \in Tasks : asked[t] # -1 ~> \/ heard[t] # "none" \/ srv # "run"
                                      \/ wpc \in {"leaving", "gone"}

(* The worker ends when it is told to, or when the server is gone: waiting  *)
(* for children it has killed never takes for ever (handle_finishnow).      *)
WorkerEnds ==
  srv \in {"closed", "dead"} ~> wpc = "gone" \/ (wpc = "leaving" /\ srv = "dead")

(* The worker leaves serve() when it is told to quit, not otherwise: that   *)
(* would be an unexpected exit (normalexit; runQueuePipe.read).             *)
ExitsNormally == wpc = "leaving" => normalexit
=============================================================================
