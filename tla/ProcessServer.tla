--------------------------- MODULE ProcessServer ---------------------------
(***************************************************************************)
(* The bitbake server of a build directory and the clients that start it,   *)
(* find it, wait for it and leave it: setup_bitbake in lib/bb/main.py,      *)
(* ProcessServer, BitBakeServer and connectProcessServer in                 *)
(* lib/bb/server/process.py, Command in lib/bb/command.py, the states of    *)
(* BBCooker in lib/bb/cooker.py and the queue of events in lib/bb/event.py. *)
(*                                                                          *)
(* bitbake.lock says whether there is a server, bitbake.sock is where to    *)
(* find it.  Here the lock is taken and let go of in one step each;         *)
(* LockFile has the steps, and shows that one process at most has the lock. *)
(* A server goes through the stages of its loop one at a time and works     *)
(* from what its last select() returned.  What a recipe cache and a build   *)
(* are is left out: they take any number of rounds of the loop, and may     *)
(* fail.                                                                    *)
(***************************************************************************)
EXTENDS Integers, FiniteSets, SequencesExt

CONSTANTS
  Clients,
  Servers,         \* names for servers that serve or end, used again
  NoServer,
  Remover,         \* a server that removes the lock file, its last deed
  Jobs,            \* what the clients are started for: functions of Clients
  Timeout,         \* "none", "some" or "never" (-1): BB_SERVER_TIMEOUT
  Backlog,         \* connections the kernel lets wait for accept()
  Retries,         \* 8 in setup_bitbake
  WaitRounds,      \* 50 in setup_bitbake
  MaxFaults        \* bounds the kinds of faults that come together

ASSUME ProcessServerAssumption ==
  /\ Clients \cap Servers = {} /\ NoServer # Remover
  /\ {NoServer, Remover} \cap (Clients \cup Servers) = {}
  /\ Timeout \in {"none", "some", "never"}
  /\ Backlog \in Nat \ {0} /\ Retries \in Nat \ {0} /\ WaitRounds \in Nat \ {0}
  /\ MaxFaults \in Nat

VARIABLES
  lock,            \* who has bitbake.lock, or NoServer
  sockname,        \* whose socket bitbake.sock is
  job,             \* "build", "kill" (--kill-server) or "status" (--status-only)
  cpc,             \* where a client is
  left,            \* retries in setup_bitbake
  rounds,          \* rounds it still waits for a server to shut down
  open,            \* the connections whose client has not closed them
  sent,            \* those whose file descriptors the server has not received
  request,         \* what came down the command pipe of a connection, till it is done
  reply,           \* reply[c]: the answer to a client's last command
  heard,           \* heard[c]: the first event in its queue that makes it leave
  stopped,         \* clients whose stateShutdown was answered
  spc,             \* where a server is
  mem,             \* and what it remembers
  lingering,       \* how many servers have still to remove the lock file
  faults           \* what went wrong: each kind once, and MaxFaults of them

clientvars == <<job, cpc, left, rounds>>
wires      == <<open, sent, request, reply, heard, stopped>>
servervars == <<spc, mem, lingering, faults>>
vars       == <<lock, sockname, clientvars, wires, servervars>>

\* A connection is a client and its attempt to connect.
Conns      == Clients \X (1..Retries)
NoConn     == <<>>
CookerExit == <<"CookerExit">>
NoStarter  == NoServer
Conn(c)    == <<c, left[c]>>
Commands   == {"setFeatures", "buildTargets", "stateShutdown", "terminateServer"}

(* starter: who is at the other end of readypipe; ready: what select()      *)
(* returned; control: controllersock; ui: haveui;                           *)
(* hadui: hadanyui; waiting: newconnections; state: of the cooker, where    *)
(* "shutdown" is forceshutdown too; current: whose command is               *)
(* currentAsyncCommand; polling: runCommands is an idle function; builds:   *)
(* whose buildTargetsIdle are; queued: ui_queue, as far as heard goes.      *)
NewServer(c) ==
  [starter |-> c, ready |-> {}, control |-> NoConn, ui |-> FALSE, hadui |-> FALSE, quit |-> FALSE,
   backlog |-> <<>>, waiting |-> <<>>, state |-> "initial", current |-> NoConn,
   polling |-> FALSE, builds |-> {}, queued |-> NoConn]

InLoop    == {"accept", "client", "command", "idle"}
Listening == InLoop \cup {"starting", "joining", "unlink"}
Owning    == Listening \cup {"shutdown"}
Fault(x)  == /\ x \notin faults /\ Cardinality(faults) < MaxFaults
             /\ faults' = faults \cup {x}
CEnded    == {"done", "failed", "dead"}

-----------------------------------------------------------------------------
(* Clients                                                                  *)

CGoes(c, pc) == cpc' = [cpc EXCEPT ![c] = pc]

\* lockBitbake()
GetsLock(p) == lock = NoServer /\ lock' = p
LetsGo(p)   == lock' = IF lock = p THEN NoServer ELSE lock

LocksBitbake(c) ==
  /\ cpc[c] = "start"
  /\ \/ GetsLock(c) /\ CGoes(c, "locked")
     \/ lock # NoServer /\ CGoes(c, "refused") /\ UNCHANGED lock
  /\ UNCHANGED <<sockname, job, left, rounds, wires, servervars>>

\* With the lock, to ask about a server or to stop one is to find none.
NotRunning(c) ==
  /\ cpc[c] = "locked" /\ job[c] # "build"
  /\ LetsGo(c)
  /\ CGoes(c, "done")
  /\ UNCHANGED <<sockname, job, left, rounds, wires, servervars>>

(* BitBakeServer: the lock goes to the server, which inherits it, and the   *)
(* client closes it.                                                        *)
\* Mutant: the client unlocks it.
Mutant_HeirOf(s) == NoServer
HeirOf(s) == s

StartServer(c, s) ==
  /\ cpc[c] = "locked" /\ job[c] = "build"
  /\ spc[s] = "none" /\ s = CHOOSE t \in Servers : spc[t] = "none"
  /\ lock' = HeirOf(s)
  /\ sockname' = s
  /\ spc' = [spc EXCEPT ![s] = "starting"] /\ mem' = [mem EXCEPT ![s] = NewServer(c)]
  /\ CGoes(c, "ready")
  /\ UNCHANGED <<job, left, rounds, wires, lingering, faults>>

\* "r" from the pipe, or its end: SystemExit(1)
HearsOfServer(c) ==
  /\ cpc[c] = "ready" /\ reply[c] # "none"
  /\ CGoes(c, IF reply[c] = "r" THEN "connect" ELSE "failed")
  /\ reply' = [reply EXCEPT ![c] = "none"]
  /\ UNCHANGED <<lock, sockname, job, left, rounds, open, sent, request, heard,
                 stopped, servervars>>

\* Somebody has the lock: is there a socket?
LooksForSocket(c) ==
  /\ cpc[c] = "refused"
  /\ IF sockname = NoServer
     THEN CGoes(c, "wait") /\ rounds' = [rounds EXCEPT ![c] = WaitRounds]
     ELSE CGoes(c, "connect") /\ UNCHANGED rounds
  /\ UNCHANGED <<lock, sockname, job, left, wires, servervars>>

\* The client closes its socket and its pipes.
Closes(c) ==
  /\ open' = open \ {Conn(c)}
  /\ reply' = [reply EXCEPT ![c] = "none"] /\ heard' = [heard EXCEPT ![c] = NoConn]

\* An exception in setup_bitbake: another try
TriesAgain(c) ==
  /\ left' = [left EXCEPT ![c] = @ - 1]
  /\ CGoes(c, IF left[c] = 1 THEN "failed" ELSE "start")
  /\ Closes(c)

\* "Wait for 5s or until we can get the lock", and let go of it
WaitsForLock(c) ==
  /\ cpc[c] = "wait" /\ rounds[c] > 0 /\ lock # c
  /\ \/ GetsLock(c) /\ rounds' = [rounds EXCEPT ![c] = 0]
     \/ lock # NoServer /\ rounds' = [rounds EXCEPT ![c] = @ - 1] /\ UNCHANGED lock
  /\ UNCHANGED <<sockname, job, cpc, left, wires, servervars>>

GivesUpWaiting(c) ==
  /\ cpc[c] = "wait" /\ rounds[c] = 0
  /\ LetsGo(c)
  /\ TriesAgain(c)
  /\ UNCHANGED <<sockname, job, rounds, sent, request, stopped, servervars>>

\* sock.connect(): no file, nobody listening, or too many wait: an exception
Connects(c) ==
  /\ cpc[c] = "connect"
  /\ IF sockname # NoServer /\ spc[sockname] \in Listening
        /\ Len(mem[sockname].backlog) < Backlog
     THEN /\ mem' = [mem EXCEPT ![sockname].backlog = Append(@, Conn(c))]
          /\ open' = open \cup {Conn(c)}
          /\ CGoes(c, "sendfds")
          /\ UNCHANGED <<left, reply, heard>>
     ELSE TriesAgain(c) /\ UNCHANGED mem
  /\ UNCHANGED <<lock, sockname, job, rounds, sent, request, stopped, spc, lingering, faults>>

\* Has the server closed the other end?
HungUp(c) ==
  \A s \in Servers :
    /\ mem[s].control # Conn(c)
    /\ ~Contains(mem[s].backlog, Conn(c)) /\ ~Contains(mem[s].waiting, Conn(c))

\* connectProcessServer: sendfds() and updateFeatureSet()
SendsFds(c) ==
  /\ cpc[c] = "sendfds"
  /\ IF HungUp(c)
     THEN TriesAgain(c) /\ UNCHANGED <<sent, request>>
     ELSE /\ sent' = sent \cup {Conn(c)}
          /\ request' = [request EXCEPT ![Conn(c)] = "setFeatures"]
          /\ CGoes(c, "hello")
          /\ UNCHANGED <<left, open, reply, heard>>
  /\ UNCHANGED <<lock, sockname, job, rounds, stopped, servervars>>

(* The answer; no answer in 60 s or the end of the pipe: an exception, and  *)
(* another try; an error: a BaseException, which nothing catches.  A server *)
(* that has nobody else to serve is taken to answer in 60 s.                *)
Served(c) == \E s \in Servers : spc[s] \in InLoop /\ mem[s].control = Conn(c)

HearsHello(c) ==
  /\ cpc[c] = "hello"
  /\ \/ /\ reply[c] = "ok"
        /\ CGoes(c, "session") /\ reply' = [reply EXCEPT ![c] = "none"]
        /\ UNCHANGED <<left, open, heard>>
     \/ reply[c] = "error" /\ CGoes(c, "failed") /\ Closes(c) /\ UNCHANGED left
     \/ reply[c] = "none" /\ ~Served(c) /\ TriesAgain(c)
  /\ UNCHANGED <<lock, sockname, job, rounds, sent, request, stopped, servervars>>

Asks(c, what) == request' = [request EXCEPT ![Conn(c)] = what]
Unasked       == <<lock, sockname, job, left, rounds, sent, servervars>>

(* --kill-server waits for no answer; a server that has closed the pipe      *)
(* breaks it.                                                               *)
AsksToTerminate(c) ==
  /\ cpc[c] = "session" /\ job[c] = "kill"
  /\ IF HungUp(c)
     THEN CGoes(c, "failed") /\ Closes(c) /\ UNCHANGED request
     ELSE CGoes(c, "leaving") /\ Asks(c, "terminateServer") /\ UNCHANGED <<open, reply, heard>>
  /\ UNCHANGED <<Unasked, stopped>>

\* terminate(), which only --status-only calls at once
Leaves(c) ==
  /\ job[c] # "build" /\ cpc[c] = (IF job[c] = "kill" THEN "leaving" ELSE "session")
  /\ Closes(c) /\ CGoes(c, "done")
  /\ UNCHANGED <<Unasked, request, stopped>>

\* The user interface sends the command, and later on may ask to stop.
AsksToBuild(c) ==
  /\ cpc[c] = "session" /\ job[c] = "build"
  /\ CGoes(c, "asked") /\ Asks(c, "buildTargets")
  /\ UNCHANGED <<Unasked, open, reply, heard, stopped>>

AsksToStop(c) ==
  /\ cpc[c] = "listen" /\ c \notin stopped /\ heard[c] = NoConn
  /\ CGoes(c, "stopping") /\ Asks(c, "stateShutdown")
  /\ UNCHANGED <<Unasked, open, reply, heard, stopped>>

\* No answer in 60 s: the server waits for its parsers.
Unanswered(c) == \E s \in Servers : spc[s] = "joining" /\ mem[s].control = Conn(c)

HearsAnswer(c) ==
  /\ cpc[c] \in {"asked", "stopping"}
  /\ \/ /\ reply[c] = "ok" /\ CGoes(c, "listen")
        /\ reply' = [reply EXCEPT ![c] = "none"]
        /\ stopped' = IF cpc[c] = "stopping" THEN stopped \cup {c} ELSE stopped
        /\ UNCHANGED <<open, heard>>
     \/ /\ reply[c] = "error" \/ (reply[c] = "none" /\ (HungUp(c) \/ Unanswered(c)))
        /\ CGoes(c, "failed") /\ Closes(c)
        /\ UNCHANGED stopped
  /\ UNCHANGED <<Unasked, request>>

\* CommandCompleted, CommandFailed, CommandExit or CookerExit: it leaves.
HearsTheEnd(c) ==
  /\ cpc[c] = "listen" /\ heard[c] # NoConn
  /\ CGoes(c, "done") /\ Closes(c)
  /\ stopped' = stopped \ {c}
  /\ UNCHANGED <<Unasked, request>>

\* A client that dies, or is interrupted, with the lock or a connection
ClientDies(c) ==
  /\ lock = c \/ Conn(c) \in open \/ cpc[c] = "ready"
  /\ Fault("death")
  /\ LetsGo(c)
  /\ CGoes(c, "dead") /\ Closes(c)
  /\ stopped' = stopped \ {c}
  /\ UNCHANGED <<sockname, job, left, rounds, sent, request, spc, mem, lingering>>

-----------------------------------------------------------------------------
(* The server: events and commands                                          *)

Others == <<lock, sockname, clientvars>>

(* bb.event.fire: with no user interface the event goes to ui_queue, which  *)
(* is emptied into the next one's pipe before the next event is.            *)
FirstOf(e, f) == IF e # NoConn THEN e ELSE f

Heard(m, e) ==
  [c \in Clients |-> IF m.ui /\ m.control = Conn(c) /\ Conn(c) \in open
                     THEN FirstOf(heard[c], FirstOf(m.queued, e)) ELSE heard[c]]

Fire(s, m, e) ==
  /\ heard' = Heard(m, e)
  /\ mem' = [mem EXCEPT ![s] =
       [m EXCEPT !.queued = IF m.ui THEN NoConn ELSE FirstOf(@, e)]]

\* finishAsyncCommand
Finished(m) == [m EXCEPT !.current = NoConn, !.state = "initial"]

\* cooker.clientComplete() does nothing to the command in progress.
ClientComplete(m) == [m EXCEPT !.state = "initial"]

(* disconnect_client: the last one who waits is next; without a timeout and *)
(* with nobody else the server ends.                                        *)
LeftBy(m) == IF m.ui THEN [ClientComplete(m) EXCEPT !.ui = FALSE] ELSE m

Disconnected(m) ==
  LET gone == LeftBy(m)
  IN  IF m.waiting # <<>>
      THEN [gone EXCEPT !.control = Last(m.waiting), !.waiting = Front(m.waiting)]
      ELSE [gone EXCEPT !.control = NoConn,
                        !.quit = @ \/ (Timeout = "none" /\ m.backlog = <<>>)]

\* What select() returns
Readable(m) ==
  {x \in {"sock", "controller", "command"} :
     \/ x = "sock" /\ m.backlog # <<>>
     \/ x = "controller" /\ m.control # NoConn
        /\ (m.control \notin open \/ (~m.ui /\ m.control \in sent))
     \/ x = "command" /\ m.ui
        /\ (request[m.control] # "none" \/ m.control \notin open)}

SGoes(s, pc) == spc' = [spc EXCEPT ![s] = pc]

(* The stages of a round, without those for which select() returned nothing. *)
AfterAccept(m) == IF "controller" \in m.ready THEN "client"
                  ELSE IF "command" \in m.ready THEN "command" ELSE "idle"

\* while not self.quit
LoopOrExit(s, m) ==
  SGoes(s, IF m.quit THEN "unlink" ELSE IF "sock" \in m.ready THEN "accept" ELSE AfterAccept(m))

(* _startServer: "r" once there is a cooker; a server that cannot be made   *)
(* ends and leaves socket and lock file behind.                             *)
Answers(c, a) ==
  reply' = [d \in Clients |-> IF d = c /\ cpc[d] = "ready" THEN a ELSE reply[d]]

\* What a server held of its connections when its process ended
Held(m)  == {m.control} \cup ToSet(m.waiting) \cup ToSet(m.backlog)

Gone(s) ==
  /\ mem' = [mem EXCEPT ![s] = NewServer(NoStarter)]
  /\ sent' = sent \ Held(mem[s])
  /\ request' = [x \in Conns |-> IF x \in Held(mem[s]) THEN "none" ELSE request[x]]

ServerStarts(s) ==
  /\ spc[s] = "starting"
  /\ \/ SGoes(s, "idle") /\ Answers(mem[s].starter, "r")
        /\ mem' = [mem EXCEPT ![s].starter = NoStarter]
        /\ UNCHANGED <<lock, sent, request, faults>>
     \/ /\ Fault("error")
        /\ SGoes(s, "none") /\ Answers(mem[s].starter, "eof") /\ Gone(s) /\ LetsGo(s)
  /\ UNCHANGED <<sockname, clientvars, open, heard, stopped, lingering>>

-----------------------------------------------------------------------------
(* The server: its loop                                                     *)

\* Whoever connects first is served, the others are put off.
\* Mutant: whoever connects last is served.
Mutant_Accepted(m) == [m EXCEPT !.control = Last(m.backlog), !.backlog = <<>>]
Accepted(m) ==
  IF m.control = NoConn
  THEN [m EXCEPT !.control = Head(m.backlog), !.waiting = @ \o Tail(m.backlog),
                 !.backlog = <<>>]
  ELSE [m EXCEPT !.waiting = @ \o m.backlog, !.backlog = <<>>]

Accept(s) ==
  /\ spc[s] = "accept"
  /\ mem' = [mem EXCEPT ![s] = Accepted(@)]
  /\ SGoes(s, AfterAccept(mem[s]))
  /\ UNCHANGED <<Others, wires, lingering, faults>>

\* recvfds(): the descriptors, or the end of a connection
Client(s) ==
  /\ spc[s] = "client"
  /\ LET m == mem[s]
     IN  IF m.control \in sent
         THEN /\ mem' = [mem EXCEPT ![s].ui = TRUE, ![s].hadui = TRUE]
              /\ sent' = sent \ {m.control}
         ELSE mem' = [mem EXCEPT ![s] = Disconnected(m)] /\ UNCHANGED sent
  /\ SGoes(s, IF "command" \in mem[s].ready /\ mem'[s].ui THEN "command" ELSE "idle")
  /\ UNCHANGED <<Others, open, request, reply, heard, stopped, lingering, faults>>

(* BB_SERVER_TIMEOUT since the last client; and, without one, 30 s in which *)
(* nobody came                                                              *)
\* Mutant: a server nobody ever came to waits on.
Mutant_TimedOut(m) == Timeout = "some" /\ ~m.ui
TimedOut(m) == \/ Timeout = "some" /\ ~m.ui
               \/ Timeout = "none" /\ ~m.hadui

TimesOut(s) ==
  /\ spc[s] = "idle" /\ ~mem[s].quit
  /\ TimedOut(mem[s])
  /\ mem' = [mem EXCEPT ![s].quit = TRUE]
  /\ UNCHANGED <<Others, wires, spc, lingering, faults>>

\* runCommand: its error, or what it does
Busy(m) == m.current # NoConn

Refused(m, what) ==
  \/ what = "setFeatures" /\ m.state \notin {"initial", "shutdown"}
  \/ what = "buildTargets" /\ Busy(m)

Ordered(m, what) ==
  CASE what = "buildTargets"    -> [m EXCEPT !.current = m.control, !.polling = TRUE]
    [] what = "stateShutdown"   -> [m EXCEPT !.state = "shutdown"]
    [] what = "terminateServer" -> [m EXCEPT !.quit = TRUE]
    [] OTHER                    -> m

(* A stop while recipes are parsed waits for the parsers (process.join), and *)
(* need not come back; it does when it is a forced one.                     *)
Joins(m, what) == what = "stateShutdown" /\ m.state = "parsing"

Answered(x, a) ==
  [reply EXCEPT ![x[1]] = IF x \in open THEN a ELSE @]

Obeys(s) ==
  LET m    == mem[s]
      what == request[m.control]
  IN  /\ what # "none"
      /\ mem' = [mem EXCEPT ![s] = IF Refused(m, what) THEN m ELSE Ordered(m, what)]
      /\ request' = [request EXCEPT ![m.control] = "none"]
      /\ reply' = IF what = "terminateServer" THEN reply
                  ELSE Answered(m.control, IF Refused(m, what) THEN "error" ELSE "ok")
      /\ SGoes(s, IF what = "terminateServer" THEN "unlink" ELSE "idle")

Command(s) ==
  /\ spc[s] = "command"
  /\ \/ Obeys(s)
     \/ /\ Joins(mem[s], request[mem[s].control]) /\ SGoes(s, "joining")
        /\ UNCHANGED <<mem, request, reply>>
  /\ UNCHANGED <<Others, open, sent, heard, stopped, lingering, faults>>

Joined(s) ==
  /\ spc[s] = "joining" /\ Obeys(s)
  /\ UNCHANGED <<Others, open, sent, heard, stopped, lingering, faults>>

-----------------------------------------------------------------------------
(* The server: idle functions                                               *)

\* idle_commands ends with a select(), and the loop with its test.
Selects(s, m) ==
  LET n == [m EXCEPT !.ready = Readable(m)]
  IN  mem' = [mem EXCEPT ![s] = n] /\ LoopOrExit(s, n)

\* The same, with an event first
FiresAndSelects(s, m, e) ==
  LET n == [m EXCEPT !.ready = Readable(m)]
  IN  Fire(s, n, e) /\ LoopOrExit(s, n)

\* Nothing to do, or a build that goes on.  A heartbeat empties the queue too.
Idles(s) ==
  /\ spc[s] = "idle" /\ ~mem[s].polling
  /\ \/ Selects(s, mem[s]) /\ UNCHANGED heard
     \/ mem[s].ui /\ mem[s].queued # NoConn /\ FiresAndSelects(s, mem[s], NoConn)
  /\ UNCHANGED <<Others, open, sent, request, reply, stopped, lingering, faults>>

\* Is the command to go no further? runAsyncCommand, updateCache
\* Mutant: it is only asked of a build that runs.
Mutant_ToldToStop(m) == FALSE
ToldToStop(m) == m.state = "shutdown"

Polls(s) == spc[s] = "idle" /\ mem[s].polling /\ mem[s].current # NoConn

\* A round of parsing, and the last one
Parses(s) ==
  /\ Polls(s) /\ ~ToldToStop(mem[s]) /\ mem[s].state # "running"
  /\ Selects(s, [mem[s] EXCEPT !.state = "parsing"])
  /\ UNCHANGED <<Others, wires, lingering, faults>>

ParsingEnds(s) ==
  /\ Polls(s) /\ ~ToldToStop(mem[s]) /\ mem[s].state # "running"
  /\ Selects(s, [mem[s] EXCEPT !.state = "running"])
  /\ UNCHANGED <<Others, wires, lingering, faults>>

\* buildTargets: the build becomes an idle function.
StartsBuild(s) ==
  /\ Polls(s) /\ mem[s].state = "running"
  /\ Selects(s, [mem[s] EXCEPT !.builds = @ \cup {mem[s].current}, !.polling = FALSE])
  /\ UNCHANGED <<Others, wires, lingering, faults>>

\* It was told to stop, the recipes do not parse or there is no such target.
CommandFails(s) ==
  /\ Polls(s)
  /\ FiresAndSelects(s, [Finished(mem[s]) EXCEPT !.polling = FALSE], mem[s].current)
  /\ UNCHANGED <<Others, open, sent, request, reply, stopped, lingering, faults>>

\* buildTargetsIdle: the build is over, or an error in it takes the server down.
BuildEnds(s) ==
  /\ spc[s] = "idle" /\ ~mem[s].polling
  /\ \E b \in mem[s].builds :
       FiresAndSelects(s, [Finished(mem[s]) EXCEPT !.builds = @ \ {b}], b)
  /\ UNCHANGED <<Others, open, sent, request, reply, stopped, lingering, faults>>

BuildRaises(s) ==
  /\ spc[s] = "idle" /\ ~mem[s].polling
  /\ Fault("error")
  /\ \E b \in mem[s].builds : Selects(s, [mem[s] EXCEPT !.builds = @ \ {b}, !.quit = TRUE])
  /\ UNCHANGED <<Others, wires, lingering>>

-----------------------------------------------------------------------------
(* The server: its end                                                      *)

\* The socket's name goes first, then the socket.
RemovesSocket(s) ==
  /\ spc[s] = "unlink"
  /\ sockname' = NoServer
  /\ mem' = [mem EXCEPT ![s].backlog = <<>>, ![s].ready = {}]
  /\ sent' = sent \ ToSet(mem[s].backlog)
  /\ request' = [x \in Conns |-> IF Contains(mem[s].backlog, x) THEN "none" ELSE request[x]]
  /\ SGoes(s, "shutdown")
  /\ UNCHANGED <<lock, clientvars, open, reply, heard, stopped, lingering, faults>>

\* cooker.shutdown(True), post_serve(), which fires CookerExit, and lock.close()
ShutsDown(s) ==
  /\ spc[s] = "shutdown"
  /\ heard' = Heard(mem[s], CookerExit)
  /\ LetsGo(s)
  /\ SGoes(s, "none") /\ Gone(s)
  /\ lingering' = lingering + 1
  /\ UNCHANGED <<sockname, clientvars, open, reply, stopped, faults>>

\* The lock again, to remove the file, and the end of the process
Relocks ==
  /\ lingering > 0
  /\ GetsLock(Remover)
  /\ UNCHANGED <<sockname, clientvars, wires, servervars>>

ServerEnds ==
  /\ lock = Remover
  /\ LetsGo(Remover)
  /\ lingering' = lingering - 1
  /\ UNCHANGED <<sockname, clientvars, wires, spc, mem, faults>>

\* SIGKILL: the lock is free, its file and the socket's name stay.
ServerKilled(s) ==
  /\ spc[s] # "none" /\ Fault("kill")
  /\ LetsGo(s)
  /\ SGoes(s, "none") /\ Answers(mem[s].starter, "eof") /\ Gone(s)
  /\ UNCHANGED <<sockname, clientvars, open, heard, stopped, lingering>>

-----------------------------------------------------------------------------

Init ==
  /\ lock = NoServer
  /\ sockname = NoServer
  /\ job \in Jobs
  /\ cpc = [c \in Clients |-> "start"]
  /\ left = [c \in Clients |-> Retries] /\ rounds = [c \in Clients |-> 0]
  /\ open = {} /\ sent = {} /\ stopped = {}
  /\ request = [x \in Conns |-> "none"]
  /\ reply = [c \in Clients |-> "none"] /\ heard = [c \in Clients |-> NoConn]
  /\ spc = [s \in Servers |-> "none"]
  /\ mem = [s \in Servers |-> NewServer(NoStarter)] /\ lingering = 0
  /\ faults = {}

ClientStep(c) ==
  \/ LocksBitbake(c) \/ NotRunning(c) \/ \E s \in Servers : StartServer(c, s)
  \/ HearsOfServer(c) \/ LooksForSocket(c)
  \/ WaitsForLock(c) \/ GivesUpWaiting(c)
  \/ Connects(c) \/ SendsFds(c) \/ HearsHello(c) \/ AsksToTerminate(c) \/ Leaves(c)
  \/ AsksToBuild(c) \/ HearsAnswer(c) \/ HearsTheEnd(c)

ServerStep(s) ==
  \/ ServerStarts(s) \/ Accept(s) \/ Client(s) \/ Command(s)
  \/ Idles(s) \/ Parses(s) \/ StartsBuild(s) \/ CommandFails(s)
  \/ RemovesSocket(s) \/ ShutsDown(s)

\* What comes in time
Passes(s) == TimesOut(s) \/ ParsingEnds(s) \/ BuildEnds(s) \/ BuildRaises(s)

Next ==
  \/ \E c \in Clients : ClientStep(c) \/ AsksToStop(c) \/ ClientDies(c)
  \/ \E s \in Servers : ServerStep(s) \/ Passes(s) \/ Joined(s) \/ ServerKilled(s)
  \/ Relocks \/ ServerEnds

(* Every process goes on; a clock that a server looks at in each round gets *)
(* to its limit, parsing and a build get to their end, and who waits for    *)
(* the lock gets it when it is free again and again.  There is one server   *)
(* at a time (OneServer).  Nothing says that the parsers it waits for end.  *)
Fairness ==
  /\ \A c \in Clients : WF_vars(ClientStep(c))
  /\ WF_vars(ServerEnds \/ \E s \in Servers : ServerStep(s))
  /\ SF_vars(Relocks \/ \E s \in Servers : Passes(s))

Spec == Init /\ [][Next]_vars /\ Fairness

-----------------------------------------------------------------------------
(* Properties                                                               *)

\* Every variable has its type.
TypeOK ==
  /\ lock \in Clients \cup Servers \cup {NoServer, Remover}
  /\ sockname \in Servers \cup {NoServer}
  /\ job \in Jobs
  /\ cpc \in [Clients -> {"start", "locked", "refused", "ready", "wait", "connect", "sendfds", "hello",
                          "session", "leaving", "asked", "listen", "stopping"} \cup CEnded]
  /\ left \in [Clients -> 0..Retries] /\ rounds \in [Clients -> 0..WaitRounds]
  /\ open \subseteq Conns /\ sent \subseteq Conns /\ stopped \subseteq Clients
  /\ request \in [Conns -> Commands \cup {"none"}]
  /\ reply \in [Clients -> {"none", "r", "eof", "ok", "error"}]
  /\ \A c \in Clients : heard[c] \in Conns \cup {NoConn, CookerExit}
  /\ spc \in [Servers -> {"none", "starting"} \cup InLoop \cup
                         {"joining", "unlink", "shutdown"}]
  /\ lingering \in Nat
  /\ \A s \in Servers :
       /\ mem[s].control \in Conns \cup {NoConn} /\ mem[s].current \in Conns \cup {NoConn}
       /\ mem[s].builds \subseteq Conns /\ mem[s].queued \in Conns \cup {NoConn, CookerExit}
       /\ mem[s].state \in {"initial", "parsing", "running", "shutdown"}
       /\ mem[s].ui => mem[s].control # NoConn /\ mem[s].hadui

(* A build directory never has two servers, however many clients start,     *)
(* wait, retry and remove the lock file, and while one server ends and the  *)
(* next one starts (lockBitbake in lib/bb/main.py, the end of               *)
(* ProcessServer.main, lockfile and unlockfile).                            *)
OneServer ==
  \A s, t \in Servers : s # t => ~(spc[s] \in Owning /\ spc[t] \in Owning)

(* A server that serves can be found: no predecessor removes the socket's   *)
(* name from under it (ProcessServer.main removes it while it has the lock).*)
SocketFound == \A s \in Servers : spc[s] \in InLoop => sockname = s

(* A server runs one build at a time, even when a build outlives its client *)
(* (Command.runCommand, BBCooker.clientComplete).                           *)
OneBuild == \A s \in Servers : Cardinality(mem[s].builds) <= 1

(* What one client's command has to say reaches another only when the first *)
(* is gone (ProcessServer.main, bb.event.fire).                             *)
EventsGoHome ==
  \A c \in Clients : heard[c] \in Conns /\ heard[c] # Conn(c) => heard[c] \notin open

(* Once the server has answered stateShutdown the client's command does not *)
(* come to build any more, as long as the client stays (runAsyncCommand and *)
(* BBCooker.updateCache).                                                   *)
StopIsFinal ==
  [][\A s \in Servers, c \in stopped :
       Conn(c) \in open /\ Conn(c) \notin mem[s].builds => Conn(c) \notin mem'[s].builds]_vars

ClientsEnded == \A c \in Clients : cpc[c] \in CEnded

(* Whoever dies, every client gets to its end, the server goes when they    *)
(* are gone, and the lock file with it; unless the server was killed, when  *)
(* its client waits for ever.  A stop during parsing may hang the server:   *)
(* then too its clients get to their end (setup_bitbake, runCommand;        *)
(* disconnect_client, the timeouts, terminateServer, CookerExit and the end *)
(* of ProcessServer.main).                                                  *)
AllEnd ==
  \/ <>(\/ "kill" \in faults
        \/ ClientsEnded /\ (\A s \in Servers : spc[s] = "none") /\ lingering = 0
             /\ lock = NoServer)
  \/ <>[](ClientsEnded /\ \E s \in Servers : spc[s] = "joining")

(* A build directory has one server, and whoever looks for it finds it      *)
(* (bitbake.lock, bitbake.sock).                                            *)
ServersSound == TypeOK /\ OneServer /\ SocketFound

(* Commands of several clients do not come between each other               *)
(* (Command.runCommand, ProcessServer.main).                                *)
CommandsKeptApart == OneBuild /\ EventsGoHome
=============================================================================
