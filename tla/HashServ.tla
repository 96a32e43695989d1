------------------------------ MODULE HashServ ------------------------------
(***************************************************************************)
(* HashServ: the hash equivalence server (lib/hashserv/server.py) and its   *)
(* clients (lib/hashserv/client.py).                                        *)
(*                                                                          *)
(* The server is one thread; a handler reads and changes the table tasks_v2 *)
(* without giving up control in between.  A connection is in the normal     *)
(* mode, or in the stream mode in which every line is a query.  A client    *)
(* sends what it has to send up to Retries + 1 times, on a new connection   *)
(* after every failure, and brings a new connection back into the mode the  *)
(* old one was in, for which it sends a message with tries of its own.      *)
(***************************************************************************)
EXTENDS Integers, Sequences

CONSTANTS
  Clients,
  Taskhashes,      \* unihashes are taskhashes, too
  Outhashes,
  NoHash,          \* no unihash: the answer to an unknown taskhash
  NoOuthash,       \* the "" in a row of report-equiv
  Retries,         \* 3 in _send_wrapper
  MaxLosses,       \* bound: connections lost
  MaxHashStops,    \* bound: restarts of the server
  ClockGoesBack    \* may datetime.now() return less than it did before?

ASSUME HashServAssumption ==
  /\ NoHash \notin Taskhashes /\ NoOuthash \notin Outhashes
  /\ Retries \in Nat /\ MaxLosses \in Nat /\ MaxHashStops \in Nat

VARIABLES
  tasks_v2,        \* the rows, by id
  serving,         \* is the server up?
  conn,            \* what a client's connection is at the server's end:
                   \* "none", "dead" (lost, not yet noticed), or its mode
  mode,            \* client.mode
  todo,            \* the messages of the call in progress; the first is being sent
  attempts,        \* failures of the first message of todo
  restoring,       \* is connect() restoring the mode?
  nested,          \* failures of the message it does that with
  reply,           \* the reply under way, a sequence of at most one
  result,          \* what the last call returned
  losses, hashstops

clientvars == <<conn, mode, todo, attempts, restoring, nested, reply, result>>
hashvars   == <<tasks_v2, serving, clientvars, losses, hashstops>>

-----------------------------------------------------------------------------
(* Messages and results                                                     *)

Unihashes == Taskhashes \cup {NoHash}

Row == [taskhash : Taskhashes, outhash : Outhashes \cup {NoOuthash},
        unihash : Taskhashes, created : Nat]

GetStream == [op |-> "get-stream"]
End       == [op |-> "END"]
Query(t)  == [op |-> "query", taskhash |-> t]
Report(t, o, u) == [op |-> "report", taskhash |-> t, outhash |-> o, unihash |-> u]
ReportEquiv(t, u) == [op |-> "report-equiv", taskhash |-> t, unihash |-> u]

StreamOps == {"query", "END"}     \* lines that are not JSON

NoResult     == [status |-> "none", unihash |-> NoHash]
Returned(u)  == [status |-> "ok", unihash |-> u]
Raised       == [status |-> "error", unihash |-> NoHash]   \* HashConnectionError

-----------------------------------------------------------------------------
(* The table                                                                *)

RowsOf(t)   == {i \in DOMAIN tasks_v2 : tasks_v2[i].taskhash = t}
RowsWith(o) == {i \in DOMAIN tasks_v2 : tasks_v2[i].outhash = o}

\* ORDER BY created ASC LIMIT 1, ties in the order of the ids.
Older(i, j) == \/ tasks_v2[i].created < tasks_v2[j].created
               \/ tasks_v2[i].created = tasks_v2[j].created /\ i <= j
Oldest(S)   == CHOOSE i \in S : \A j \in S : Older(i, j)

\* Mutant: ORDER BY created DESC.
Mutant_FastQuery(t) ==
  IF RowsOf(t) = {} THEN NoHash
  ELSE tasks_v2[CHOOSE i \in RowsOf(t) : \A j \in RowsOf(t) : Older(j, i)].unihash
FastQuery(t) ==
  IF RowsOf(t) = {} THEN NoHash ELSE tasks_v2[Oldest(RowsOf(t))].unihash

Exact(t, o)      == RowsOf(t) \cap RowsWith(o)
\* Mutant: the outhash is forgotten in the second query.
Mutant_Equivalent(t, o) == IF Exact(t, o) # {} THEN Exact(t, o) ELSE DOMAIN tasks_v2
Equivalent(t, o) == IF Exact(t, o) # {} THEN Exact(t, o) ELSE RowsWith(o)

Now == IF ClockGoesBack THEN 1 .. Len(tasks_v2) + 1 ELSE {Len(tasks_v2) + 1}

Insert(t, o, u) ==
  \E now \in Now :
    tasks_v2' = Append(tasks_v2, [taskhash |-> t, outhash |-> o, unihash |-> u,
                                  created |-> now])

\* Mutant: the unihash of the client is stored even if there is an equivalent.
Mutant_UnihashFor(m) == m.unihash
UnihashFor(m) ==
  LET S == Equivalent(m.taskhash, m.outhash)
  IN IF S = {} THEN m.unihash ELSE tasks_v2[Oldest(S)].unihash

HandleReport(m) ==
  IF Exact(m.taskhash, m.outhash) = {}
  THEN Insert(m.taskhash, m.outhash, UnihashFor(m))
  ELSE UNCHANGED tasks_v2

\* INSERT OR IGNORE, then what the taskhash is now.
HandleEquivReport(m) ==
  IF Exact(m.taskhash, NoOuthash) = {}
  THEN Insert(m.taskhash, NoOuthash, m.unihash)
  ELSE UNCHANGED tasks_v2

-----------------------------------------------------------------------------
(* A call of the client: _set_mode and then the message itself              *)

Call(c, m) ==
  /\ todo[c] = <<>>
  /\ todo' = [todo EXCEPT ![c] =
                CASE m.op = "query" /\ mode[c] = "normal" -> <<GetStream, m>>
                  [] m.op # "query" /\ mode[c] = "stream" -> <<End, m>>
                  [] OTHER                                -> <<m>>]
  /\ attempts' = [attempts EXCEPT ![c] = 0]
  /\ result' = [result EXCEPT ![c] = NoResult]
  /\ UNCHANGED <<conn, mode, restoring, nested, reply>>

Current(c) == IF restoring[c] THEN GetStream ELSE Head(todo[c])

Restores(c) == mode[c] = "stream"

(* connect(): a new connection is in the normal mode.                       *)
Connect(c) ==
  /\ todo[c] # <<>> /\ conn[c] = "none" /\ serving
  /\ conn' = [conn EXCEPT ![c] = "normal"]
  /\ mode' = [mode EXCEPT ![c] = "normal"]
  /\ restoring' = [restoring EXCEPT ![c] = @ \/ Restores(c)]
  /\ nested' = [nested EXCEPT ![c] = IF Restores(c) THEN 0 ELSE @]
  /\ UNCHANGED <<tasks_v2, serving, todo, attempts, reply, result, losses, hashstops>>

LastTry(n) == n >= Retries

OneMore(n) == n + 1

(* _send_wrapper, when a try fails: the connection is closed and the next   *)
(* try is made, or the error is raised: out of connect(), where it is one   *)
(* more failure of the message connect() was called for, or out of the call,*)
(* which leaves the connection as it is.                                    *)
Fail(c) ==
  LET gives_up == restoring[c] /\ LastTry(nested[c])
      counts   == ~restoring[c] \/ gives_up
      raises   == counts /\ LastTry(attempts[c])
  IN /\ conn' = [conn EXCEPT ![c] = IF raises THEN @ ELSE "none"]
     /\ reply' = [reply EXCEPT ![c] = <<>>]
     /\ nested' = [nested EXCEPT ![c] = IF restoring[c] /\ ~gives_up THEN OneMore(@) ELSE 0]
     /\ restoring' = [restoring EXCEPT ![c] = @ /\ ~gives_up]
     /\ attempts' = [attempts EXCEPT ![c] = IF raises THEN 0
                                            ELSE IF counts THEN OneMore(@) ELSE @]
     /\ todo' = [todo EXCEPT ![c] = IF raises THEN <<>> ELSE @]
     /\ result' = [result EXCEPT ![c] = IF raises THEN Raised ELSE @]
     /\ UNCHANGED mode

ConnectionFails(c) ==
  /\ todo[c] # <<>>
  /\ \/ conn[c] = "none" /\ ~serving
     \/ conn[c] = "dead"
  /\ Fail(c)
  /\ UNCHANGED <<tasks_v2, serving, losses, hashstops>>

-----------------------------------------------------------------------------
(* The server                                                               *)

\* Does the server, in the mode the connection is in, understand the message?
Understood(c) == conn[c] = IF Current(c).op \in StreamOps THEN "stream" ELSE "normal"

Answers(m, u, c) ==
  /\ reply' = [reply EXCEPT ![c] = <<u>>]
  /\ conn' = [conn EXCEPT ![c] = CASE m.op = "get-stream" -> "stream"
                                   [] m.op = "END"        -> "normal"
                                   [] OTHER               -> @]
  /\ UNCHANGED <<serving, mode, todo, attempts, restoring, nested, result,
                 losses, hashstops>>

(* dispatch_message and the loop of handle_get_stream                       *)
Handle(c) ==
  LET m == Current(c) IN
  /\ todo[c] # <<>> /\ conn[c] \in {"normal", "stream"} /\ reply[c] = <<>>
  /\ serving /\ Understood(c)
  /\ \/ /\ m.op \in {"get-stream", "END"}
        /\ Answers(m, NoHash, c) /\ UNCHANGED tasks_v2
     \/ /\ m.op = "query"
        /\ Answers(m, FastQuery(m.taskhash), c) /\ UNCHANGED tasks_v2
     \/ /\ m.op = "report"
        /\ HandleReport(m) /\ Answers(m, UnihashFor(m), c)
     \/ /\ m.op = "report-equiv"
        /\ HandleEquivReport(m)
        /\ \E t \in {m.taskhash} : Answers(m, FastQuery(t)', c)

(* A line that is no JSON, or is no query: the handler raises and the       *)
(* connection is closed.                                                    *)
Reject(c) ==
  /\ todo[c] # <<>> /\ conn[c] \in {"normal", "stream"} /\ reply[c] = <<>>
  /\ serving /\ ~Understood(c)
  /\ conn' = [conn EXCEPT ![c] = "dead"]
  /\ UNCHANGED <<tasks_v2, serving, mode, todo, attempts, restoring, nested,
                 reply, result, losses, hashstops>>

(* The client reads the reply.                                              *)
Deliver(c) ==
  LET m == Current(c) IN
  /\ reply[c] # <<>> /\ conn[c] # "dead"
  /\ reply' = [reply EXCEPT ![c] = <<>>]
  /\ mode' = [mode EXCEPT ![c] = CASE m.op = "get-stream" -> "stream"
                                   [] m.op = "END"        -> "normal"
                                   [] OTHER               -> @]
  /\ restoring' = [restoring EXCEPT ![c] = FALSE]
  /\ IF restoring[c]
     THEN UNCHANGED <<todo, attempts, result>>
     ELSE /\ todo' = [todo EXCEPT ![c] = Tail(@)]
          /\ attempts' = [attempts EXCEPT ![c] = 0]
          /\ result' = IF m.op \in {"get-stream", "END"} THEN result
                       ELSE [result EXCEPT ![c] = Returned(Head(reply[c]))]
  /\ UNCHANGED <<tasks_v2, serving, conn, nested, losses, hashstops>>

-----------------------------------------------------------------------------
(* Faults                                                                   *)

LoseConnection(c) ==
  /\ losses < MaxLosses /\ conn[c] \in {"normal", "stream"}
  /\ conn' = [conn EXCEPT ![c] = "dead"]
  /\ reply' = [reply EXCEPT ![c] = <<>>]
  /\ losses' = losses + 1
  /\ UNCHANGED <<tasks_v2, serving, mode, todo, attempts, restoring, nested,
                 result, hashstops>>

\* Stopped or crashed: a row is committed before the answer is written.
StopHashServer ==
  /\ hashstops < MaxHashStops /\ serving
  /\ serving' = FALSE /\ hashstops' = hashstops + 1
  /\ conn' = [c \in Clients |-> IF conn[c] = "none" THEN "none" ELSE "dead"]
  /\ reply' = [c \in Clients |-> <<>>]
  /\ UNCHANGED <<tasks_v2, mode, todo, attempts, restoring, nested, result, losses>>

StartHashServer ==
  /\ ~serving /\ serving' = TRUE
  /\ UNCHANGED <<tasks_v2, clientvars, losses, hashstops>>

HashInit ==
  /\ tasks_v2 = <<>> /\ serving = TRUE
  /\ conn = [c \in Clients |-> "none"]
  /\ mode = [c \in Clients |-> "normal"]
  /\ todo = [c \in Clients |-> <<>>]
  /\ attempts = [c \in Clients |-> 0]
  /\ restoring = [c \in Clients |-> FALSE]
  /\ nested = [c \in Clients |-> 0]
  /\ reply = [c \in Clients |-> <<>>]
  /\ result = [c \in Clients |-> NoResult]
  /\ losses = 0 /\ hashstops = 0

(* What goes on during calls, and what may go wrong at any time             *)
HashStep ==
  \/ \E c \in Clients :
       Connect(c) \/ ConnectionFails(c) \/ Handle(c) \/ Reject(c) \/ Deliver(c)
  \/ StartHashServer

HashFault == (\E c \in Clients : LoseConnection(c)) \/ StopHashServer
=============================================================================
