----------------------------- MODULE PRService -----------------------------
(***************************************************************************)
(* PRService: the server that gives out PR values (lib/prserv/serv.py and   *)
(* db.py), for one version and architecture.                                *)
(*                                                                          *)
(* The main thread accepts connections and puts the requests into a queue;  *)
(* a handler thread serves them, one after the other, and commits after     *)
(* each.  Signals are handled in the main thread, which then uses the       *)
(* connection to the database, too: the threads interleave statement by     *)
(* statement.                                                               *)
(***************************************************************************)
EXTENDS Integers, Sequences

CONSTANTS
  Checksums,
  MaxPR,           \* bound: PR values are up to this
  MaxSignals,      \* bound: signals sent
  MaxQuits,        \* bound: quit requests
  MaxCrashes       \* bound: times the process is killed

ASSUME PRServiceAssumption ==
  {MaxPR, MaxSignals, MaxQuits, MaxCrashes} \subseteq Nat

VARIABLES
  prtable,         \* the table as the connection sees it: value, or -1 for no row
  prdisk,          \* the table as committed
  transaction,     \* is a transaction open?
  dirty,
  requestqueue,
  quitflag,
  prmain,          \* the main thread: "serve", "sync", "begin" and "quit" in a
                   \* signal handler, "join", "ended", "failed", "killed"
  signal,          \* the signal being handled
  handler,         \* the handler thread: "get", "answer", "sync", "begin",
                   \* and the latter two while handling an error, "ended", "dead"
  request,         \* what the handler serves
  answered,        \* history: the checksum and the value getPR worked out last
  signals, quits, crashes

dbvars == <<prtable, prdisk, transaction>>
prbounds == <<signals, quits, crashes>>
mainvars == <<prmain, signal>>
prvars == <<dbvars, dirty, requestqueue, quitflag, mainvars, handler, request,
            answered, prbounds>>

\* A request comes on a connection, the n-th of its client.
GetPR(c, n, k) == [op |-> "getPR", client |-> c, conn |-> n, checksum |-> k]
Quit == [op |-> "quit"]
NoRequest == [op |-> "none"]
NoRow == -1

Up == prmain \notin {"ended", "killed"}     \* the process exists
Stuck == prmain \in {"join", "failed"} \/ handler \in {"ended", "dead"}

PRValues == 0 .. MaxPR

-----------------------------------------------------------------------------
(* The table, in the mode without history                                   *)

\* SELECT ... WHERE ... AND value >= (select max(value) ...)
\* Mutant: any value the checksum has will do, as in the mode with history.
Mutant_IsCurrent(k) == prtable[k] # NoRow
IsCurrent(k) == prtable[k] # NoRow /\ \A j \in Checksums : prtable[j] <= prtable[k]

\* select ifnull(max(value)+1, 0)
IsNext(v) == /\ \A j \in Checksums : prtable[j] < v
             /\ v = 0 \/ \E j \in Checksums : prtable[j] = v - 1

(* _getValueNohist, answering v.  INSERT OR REPLACE begins a transaction.   *)
GetValue(k, v) ==
  IF IsCurrent(k)
  THEN v = prtable[k] /\ UNCHANGED <<dbvars, dirty>>
  ELSE /\ IsNext(v)
       /\ prtable' = [prtable EXCEPT ![k] = v]
       /\ transaction' = TRUE /\ dirty' = TRUE
       /\ UNCHANGED prdisk

(* sync() is conn.commit() and BEGIN EXCLUSIVE TRANSACTION, which fails     *)
(* inside a transaction.                                                    *)
Commit == prdisk' = prtable /\ transaction' = FALSE /\ UNCHANGED prtable
Begin  == transaction' = TRUE /\ UNCHANGED <<prtable, prdisk>>

-----------------------------------------------------------------------------
(* The handler thread: process_request_thread                               *)

\* requestqueue.get waits for a while; quitflag is tested before it.
Takes ==
  /\ handler = "get" /\ requestqueue # <<>>
  /\ request' = Head(requestqueue) /\ requestqueue' = Tail(requestqueue)
  /\ handler' = "answer"

LoopHead == IF quitflag THEN "ended" ELSE "get"

\* Mutant: get waits for ever, and sigterm_handler puts nothing into the queue.
Mutant_Woken == FALSE
Woken == TRUE

HandlerEnds ==
  /\ handler = "get" /\ requestqueue = <<>> /\ quitflag /\ Woken
  /\ handler' = "ended"
  /\ UNCHANGED <<dbvars, dirty, requestqueue, quitflag, mainvars, request,
                 answered, prbounds>>

ServesGetPR(v) ==
  /\ Takes /\ Head(requestqueue).op = "getPR"
  /\ GetValue(Head(requestqueue).checksum, v)
  /\ answered' = [checksum |-> Head(requestqueue).checksum, value |-> v]
  /\ UNCHANGED <<quitflag, mainvars, prbounds>>

\* quit() raises when it is called again, which is an answer like any other.
ServesQuit ==
  /\ Takes /\ Head(requestqueue).op = "quit"
  /\ quitflag' = TRUE
  /\ UNCHANGED <<dbvars, dirty, mainvars, answered, prbounds>>

(* The answer is written; if the client is gone that raises.                *)
\* Mutant: no sync after a request, only after 60 of them.
Mutant_AfterAnswer(gone) == IF gone THEN "sync error" ELSE LoopHead
AfterAnswer(gone) ==
  CASE gone           -> "sync error"
    [] ~gone /\ dirty -> "sync"
    [] OTHER          -> LoopHead

Answer(gone) ==
  /\ handler = "answer"
  /\ handler' = AfterAnswer(gone) /\ request' = NoRequest
  /\ UNCHANGED <<dbvars, dirty, requestqueue, quitflag, mainvars, answered, prbounds>>

HandlerCommits ==
  /\ handler \in {"sync", "sync error"}
  /\ Commit
  /\ handler' = IF handler = "sync" THEN "begin" ELSE "begin error"
  /\ UNCHANGED <<dirty, requestqueue, quitflag, mainvars, request, answered, prbounds>>

\* After an error, sync_if_dirty still finds dirty set, and syncs again.
HandlerBegins ==
  /\ handler \in {"begin", "begin error"}
  /\ IF transaction
     THEN handler' = "dead" /\ UNCHANGED <<dbvars, dirty>>
     ELSE /\ Begin
          /\ IF handler = "begin"
             THEN dirty' = FALSE /\ handler' = LoopHead
             ELSE UNCHANGED dirty /\ handler' = IF dirty THEN "sync" ELSE LoopHead
  /\ UNCHANGED <<requestqueue, quitflag, mainvars, request, answered, prbounds>>

-----------------------------------------------------------------------------
(* The main thread: work_forever and the signal handlers                    *)

Accept(r) ==
  /\ prmain = "serve" /\ ~quitflag
  /\ requestqueue' = Append(requestqueue, r)
  /\ UNCHANGED <<dbvars, dirty, quitflag, mainvars, handler, request, answered>>

\* PRServerConnection.terminate, from bitbake-prserv --stop or auto_shutdown
AskToQuit ==
  /\ quits < MaxQuits
  /\ quits' = quits + 1
  /\ Accept(Quit)
  /\ UNCHANGED <<signals, crashes>>

Signal(s) ==
  /\ signals < MaxSignals
  /\ prmain \in {"serve", "join"}
  /\ signal' = s /\ prmain' = "sync" /\ signals' = signals + 1
  /\ UNCHANGED <<dbvars, dirty, requestqueue, quitflag, handler, request,
                 answered, quits, crashes>>

SignalCommits ==
  /\ prmain = "sync"
  /\ Commit
  /\ prmain' = "begin"
  /\ UNCHANGED <<dirty, requestqueue, quitflag, signal, handler, request,
                 answered, prbounds>>

Resumed == IF quitflag THEN "join" ELSE "serve"

SignalBegins ==
  /\ prmain = "begin"
  /\ IF transaction
     THEN prmain' = "failed" /\ UNCHANGED dbvars
     ELSE Begin /\ prmain' = IF signal = "SIGTERM" THEN "quit" ELSE Resumed
  /\ signal' = "none"
  /\ UNCHANGED <<dirty, requestqueue, quitflag, handler, request,
                 answered, prbounds>>

\* quit() fails when it is called a second time: the pipe is closed.
SignalQuits ==
  /\ prmain = "quit"
  /\ quitflag' = TRUE
  /\ prmain' = IF quitflag THEN "failed" ELSE "join"
  /\ UNCHANGED <<dbvars, dirty, requestqueue, signal, handler, request, answered,
                 prbounds>>

MainLeaves ==
  /\ prmain = "serve" /\ quitflag
  /\ prmain' = "join"
  /\ UNCHANGED <<dbvars, dirty, requestqueue, quitflag, signal, handler, request,
                 answered, prbounds>>

\* A transaction that is open is rolled back.
ProcessGone ==
  /\ prtable' = prdisk /\ UNCHANGED prdisk /\ transaction' = FALSE
  /\ dirty' = FALSE /\ quitflag' = FALSE /\ signal' = "none"
  /\ handler' = "ended" /\ requestqueue' = <<>> /\ request' = NoRequest

(* handlerthread.join() and disconnect(), or the end of the process.        *)
HandlerDone == handler \in {"ended", "dead"}
PRServerEnds ==
  /\ prmain \in {"join", "failed"} /\ HandlerDone
  /\ prmain' = "ended"
  /\ ProcessGone
  /\ UNCHANGED <<answered, prbounds>>

Killed ==
  /\ crashes < MaxCrashes /\ Up
  /\ crashes' = crashes + 1
  /\ prmain' = "killed"
  /\ ProcessGone
  /\ UNCHANGED <<answered, signals, quits>>

StartPRServer ==
  /\ prmain \in {"ended", "killed"}
  /\ prmain' = "serve" /\ handler' = "get"
  /\ UNCHANGED <<dbvars, dirty, requestqueue, quitflag, signal, request, answered,
                 prbounds>>

PRInit ==
  /\ prtable = [k \in Checksums |-> NoRow] /\ prdisk = prtable
  /\ transaction = FALSE /\ dirty = FALSE
  /\ requestqueue = <<>> /\ quitflag = FALSE
  /\ prmain = "serve" /\ signal = "none" /\ handler = "get"
  /\ request = NoRequest
  /\ answered = [checksum |-> CHOOSE k \in Checksums : TRUE, value |-> NoRow]
  /\ signals = 0 /\ quits = 0 /\ crashes = 0

PRHandler == HandlerEnds \/ (\E v \in PRValues : ServesGetPR(v))
               \/ ServesQuit \/ HandlerCommits \/ HandlerBegins
PRMain == SignalCommits \/ SignalBegins \/ SignalQuits \/ MainLeaves \/ PRServerEnds
PRFault == AskToQuit \/ (\E s \in {"SIGINT", "SIGTERM"} : Signal(s)) \/ Killed

(* All that can happen to the service, whoever asks it for PR values        *)
PRNext ==
  \/ PRHandler \/ PRMain \/ StartPRServer \/ PRFault
  \/ \E gone \in BOOLEAN : Answer(gone)
  \/ \E k \in Checksums : \E c, n : Accept(GetPR(c, n, k)) /\ UNCHANGED prbounds

PRSpec == PRInit /\ [][PRNext]_prvars

-----------------------------------------------------------------------------
(* Properties                                                               *)

(* The PR value stays while the checksum does, and goes up when it changes: *)
(* "the PR value returned can NOT be decremented" (db.py), through signals, *)
(* quits and restarts of the server ...                                     *)
PRFollows ==
  answered.value # NoRow =>
    IF answered'.checksum = answered.checksum
    THEN answered'.value = answered.value
    ELSE answered'.value > answered.value

(* ... as long as the server is not killed ...                              *)
PRFollowsChecksum == [][crashes = 0 => PRFollows]_answered

(* ... and what is at stake then is the last answer alone: it is covered by *)
(* the table on disk before the next is worked out (the handler syncs after *)
(* each request, process_request_thread).                                   *)
OnlyLastAtRisk ==
  [][crashes = 0 => \E k \in Checksums : prdisk[k] >= answered.value]_answered
=============================================================================
